\* One call at a time; any call may fail at any step.
SPECIFICATION Spec
CONSTANTS
    s1 = s1  s2 = s2  None = None  NoRecord = NoRecord
    Candidates = {1, 2}
    Twin <- SecondRepeatsFirst
    Verdict <- SecondIsEquivalent
    Operations <- AllOfThem
    Ledgers <- WithAndWithout
    Slots = {s1}
    MayFail = TRUE
    MaxReviews = 3
INVARIANTS ReviewPathsExist ReviewsAreRecorded CoverageIsDerived
PROPERTIES IntakeStands OutcomesStand
