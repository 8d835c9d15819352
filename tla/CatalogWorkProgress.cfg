\* Progress of the queue past vanished workers and made-up statuses, and saves
\* under an operator who writes statuses at any time.
SPECIFICATION FairSpec
CONSTANTS
    r1 = r1  r2 = r2  w1 = w1  w2 = w2  u1 = u1  u2 = u2  a1 = a1  a2 = a2
    s1 = s1  s2 = s2
    None = None
    Runs = {r1}
    DefaultRun = r1
    LegacyRuns = {}
    Units = {u1, u2}
    BatchUnits = {u1}
    Order <- OrderOf
    Seeds <- WholeSeed
    Workers = {w1, w2}
    Answers = {a1, a2}
    Slots = {s1}
    OperatorStatuses = {"failed", "queued"}
    LeaseTime = 1
    MaxTime = 2
    MaxReseeds = 1
INVARIANTS SavedOnce
PROPERTIES SaveDrainsBatch EveryUnitCompletes
CHECK_DEADLOCK FALSE
