\* The database ignored by git: the bytes put back hold no lease taken since.
SPECIFICATION Spec
CONSTANTS
    w1 = w1  w2 = w2  s1 = s1  s2 = s2  t1 = t1  anyFamily = anyFamily
    None = None
    Candidates = {1, 2}
    Requests = {anyFamily}
    Matches <- MatchesOf
    Workers = {w1, w2}
    Dispositions = {"implemented"}
    Slots = {s1}
    Tools = {}
    Checkouts = {TRUE}
    MayFail = FALSE
    RollsBack = FALSE
    LeaseTime = 1
    MaxTime = 1
    MaxCommits = 2
SYMMETRY Interchangeable
PROPERTIES LiveLeaseExclusive
CHECK_DEADLOCK FALSE
