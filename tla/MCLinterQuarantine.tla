------------------------- MODULE MCLinterQuarantine -------------------------
(* Instances of LinterQuarantine for TLC: candidate 2 repeats candidate 1. *)
EXTENDS LinterQuarantine

CONSTANTS s1, s2

SecondRepeatsFirst == [c \in Candidates |-> IF c = 2 THEN 1 ELSE None]
SecondIsEquivalent ==
    [c \in Candidates |-> IF c = 2 THEN "canonical_equivalent" ELSE "actionable"]

NoFiles == [manifest |-> {}, coverage |-> NoCoverage]
OldLedger == [manifest |-> {1},
              coverage |-> [NoCoverage EXCEPT ![1] = Review(0, "blocked", "legacy")]]
WithAndWithout == {NoFiles, OldLedger}

AllOfThem ==
    [do : {"write"}, cand : Candidates]
    \cup [do : {"review"}, cand : Candidates, as : {"accepted", "blocked"}]
    \cup [do : {"dispose"}, cand : Candidates, as : {"implemented"}]
    \cup [do : {"list", "snapshot", "reset", "backlog"}]

Reviewing ==
    [do : {"write"}, cand : Candidates]
    \cup [do : {"review"}, cand : Candidates, as : {"blocked"}]
    \cup [do : {"list", "reset"}]
=============================================================================
