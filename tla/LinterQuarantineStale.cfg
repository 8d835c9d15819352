\* A snapshot among other calls; none fails.
SPECIFICATION Spec
CONSTANTS
    s1 = s1  s2 = s2  None = None  NoRecord = NoRecord
    Candidates = {1, 2}
    Twin <- SecondRepeatsFirst
    Verdict <- SecondIsEquivalent
    Operations <- Reviewing
    Ledgers <- WithAndWithout
    Slots = {s1, s2}
    MayFail = FALSE
    MaxReviews = 3
PROPERTY SnapshotPreservesOutcomes
