----------------------------- MODULE SpecJournal -----------------------------
(***************************************************************************)
(* What the ledger of raw specifications promises to who asks it for the   *)
(* specs of some time, without rows, reviews or merges: a sync enters what *)
(* is current from its own time on, and what was current before it stays   *)
(* on record.  Only a rebuild forgets, and it forgets the past alone.      *)
(*                                                                         *)
(* That is promised while entries come in the order of their times.        *)
(***************************************************************************)
EXTENDS Naturals

CONSTANTS
    Times,      \* 1 .. n
    Bundles     \* the sets of specs that may be current at once

VARIABLES
    asOf,       \* asOf[t]: the specs that were current at time t
    ordered     \* entries have come in the order of their times

vars == <<asOf, ordered>>

Init == asOf = [t \in Times |-> {}] /\ ordered = TRUE

\* Below, was and now are asOf before and after a step.

\* The last change was before t.
ChangedBefore(t, was) ==
    \A u, v \in Times : t <= u + 1 /\ t <= v + 1 => was[u] = was[v]

Entered(t, was, now) ==
    /\ ChangedBefore(t, was)
    /\ now[t] \in Bundles
    /\ now = [u \in Times |-> IF u < t THEN was[u] ELSE now[t]]

Forgotten(t, was, now) ==
    /\ ChangedBefore(t + 1, was)
    /\ now = [u \in Times |-> IF u < t THEN {} ELSE was[u]]

Changed(was, now) ==
    was # now /\ \E t \in Times : Entered(t, was, now) \/ Forgotten(t, was, now)

Next ==
    \/ ordered = TRUE /\ ordered' = TRUE /\ Changed(asOf, asOf')
    \/ ordered' = FALSE

Spec == Init /\ [][Next]_vars
=============================================================================
