\* Three syncs that overlap in every order, and a rebuild.
SPECIFICATION Spec
CONSTANTS
    slug1 = slug1  slug2 = slug2  c1 = c1  c2 = c2  s1 = s1  s2 = s2  s3 = s3
    None = None
    Apps <- TwoApps
    Specs = {c1, c2}
    Sources = {"connector", "authorized"}
    Accepted = {"connector"}
    Syncs = {s1, s2, s3}
    MaxTime = 3
SYMMETRY Interchangeable
INVARIANTS
    CurrentRowsAgree
    PendingReviewsMatch
    TimelineIsDisjoint
PROPERTIES
    HistoryIsKept
    PartialSyncKeepsTheRest
    KeepsJournal
CHECK_DEADLOCK FALSE
