-------------------------- MODULE MCLinterRuleEditor --------------------------
(* Instances of LinterRuleEditor for TLC. *)
EXTENDS LinterRuleEditor, TLC

CONSTANTS w1, w2, s1, s2, t1, anyFamily

\* A request without a family filter.
MatchesOf == [q \in Requests |-> Candidates]

Interchangeable == Permutations(Workers) \cup Permutations(Slots)

\* Two dispositions may overlap; then, in the last unit of time, one at a time runs
\* beside a tool that has the database open or has died and left frames.  Nothing
\* is claimed once the stores are clobbered, which a failed call whose backup is
\* stale is about to do.
Busy == {s \in Slots : calls[s] # IdleCall}
Stale == {s \in Busy : calls[s].at \in LaterSteps /\ calls[s].stale}

Explored ==
    /\ ~clobbered /\ \A s \in Stale : calls[s].at # "failed"
    /\ IF clock < MaxTime THEN tools = {} /\ frames = {}
       ELSE /\ Cardinality(Busy) <= 1 /\ Len(history) <= 2
            /\ Stale = {} \/ "records" \in frames

\* No action reads held.
NotHeld == <<clock, stores, tools, git, lock, calls, receipts, clobbered>>
=============================================================================
