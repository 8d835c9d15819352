\* A checkout whose database git ignores, as the repository ships, or tracks:
\* dispositions are committed, stamped, amended and rolled back, two at a time,
\* then one beside a tool with the database open; git or SQLite may fail at any step,
\* any call may crash.  One worker, one request.
SPECIFICATION Spec
CONSTANTS
    w1 = w1  w2 = w2  s1 = s1  s2 = s2  t1 = t1  anyFamily = anyFamily
    None = None
    Candidates = {1, 2}
    Requests = {anyFamily}
    Matches <- MatchesOf
    Workers = {w1}
    Dispositions = {"implemented"}
    Slots = {s1, s2}
    Tools = {t1}
    Checkouts = {TRUE, FALSE}
    MayFail = TRUE
    RollsBack = TRUE
    LeaseTime = 1
    MaxTime = 2
    MaxCommits = 3
SYMMETRY Interchangeable
VIEW NotHeld
CONSTRAINT Explored
INVARIANTS SnapshotCoversSQLite OneLeasePerRequest ReceiptsHold
CHECK_DEADLOCK FALSE
