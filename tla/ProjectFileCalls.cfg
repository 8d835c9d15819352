\* Three calls, with any of eighteen edits each, killed or overlapping
\* anywhere: two are enough to lose an edit or to mix two texts, and the
\* third comes after or before both.
SPECIFICATION Spec
CONSTANTS
    None = None  m1 = m1  m2 = m2  m3 = m3  m4 = m4
    v = v  w = w  key = key  other = other
    Ids = {m1, m2, m3, m4}
    Values = {v, w}
    Keys = {key, other}
    Calls = {a, b, c}
    Edits <- SomeEdits
    Original <- Start
SYMMETRY Interchangeable
INVARIANTS
    EditsKeepIds
    DuplicatesAreTheCallers
    LostOnlyToOverlap
    TornIsExcused
    OthersAreKept
CHECK_DEADLOCK FALSE
