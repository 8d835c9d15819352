\* Two runs: leases, expiry, clocks read too early, lost replies, repeated and
\* late saves; restarts by workers and from the command line race with them.
SPECIFICATION Spec
CONSTANTS
    r1 = r1  r2 = r2  w1 = w1  w2 = w2  u1 = u1  u2 = u2  a1 = a1  a2 = a2
    s1 = s1  s2 = s2
    None = None
    Runs = {r1, r2}
    DefaultRun = r1
    LegacyRuns = {}
    Units = {u1, u2}
    BatchUnits = {u1}
    Order <- OrderOf
    Seeds <- AnySeed
    Workers = {w1, w2}
    Answers = {a1}
    Slots = {s1, s2}
    OperatorStatuses = {}
    LeaseTime = 1
    MaxTime = 1
    MaxReseeds = 2
SYMMETRY Interchangeable
INVARIANTS AtMostOneActiveRun OneBatchPerWorker SavedUnderOwnLease CompletedWasSaved
PROPERTIES LeaseHonoured KeepsLedger
CHECK_DEADLOCK FALSE
