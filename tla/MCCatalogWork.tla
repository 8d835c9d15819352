---------------------------- MODULE MCCatalogWork ----------------------------
(* Instances of CatalogWork for TLC. *)
EXTENDS CatalogWork, TLC

CONSTANTS r1, r2, w1, w2, u1, u2, a1, a2, s1, s2

\* The queue order of the units, and the unit sets raw specs may yield: always
\* the same one, or any (specs come and go between two resets).
OrderOf == [u \in Units |-> IF u = u1 THEN 1 ELSE 2]
WholeSeed == {Units}
AnySeed == SUBSET Units \ {{}}

\* Slots, workers and answers are interchangeable; units are ordered.
Interchangeable ==
    Permutations(Slots) \cup Permutations(Workers) \cup Permutations(Answers)

-----------------------------------------------------------------------------
\* Liveness.  Worker w1 keeps asking for work and saves what it holds; its calls
\* may fail, but not for ever.  Nothing is assumed of w2, which may vanish with
\* a lease in hand, nor of the operator.
Diligent == w1

OwnHandles(w) ==
    {t \in Handles : t.worker = w /\ LeasedRows(w, t) # {}}

AsksForWork == \E s \in Slots : NextEnsure(s, Diligent, FALSE)

StartsSave == \E s \in Slots, t \in OwnHandles(Diligent) : SaveClock(s, Diligent, t)

Saves ==
    \E s \in Slots : /\ calls[s].op = "save" /\ calls[s].worker = Diligent
                     /\ \E r \in Runs, batch \in SUBSET Units, answer \in Answers :
                          SaveBatch(s, r, batch, answer)

ReadsClock ==
    \E s \in Slots : /\ calls[s].op = "ensured" /\ calls[s].worker = Diligent
                     /\ NextClock(s)

GetsAnswer ==
    \E s \in Slots : /\ calls[s].op = "next" /\ calls[s].worker = Diligent
                     /\ NextReplay(s) \/ NextLease(s) \/ NextNothing(s)

\* Every call in flight ends some day: the write lock is granted or the busy
\* timeout fires.
Ends(s) ==
    NextReplay(s) \/ NextLease(s) \/ NextNothing(s) \/ ReseedCommit(s) \/ CallFails(s)

FairSpec ==
    /\ Spec
    /\ WF_vars(Tick)
    /\ \A s \in Slots : WF_vars(Ends(s))
    /\ SF_vars(AsksForWork) /\ SF_vars(ReadsClock) /\ SF_vars(GetsAnswer)
    /\ SF_vars(StartsSave) /\ SF_vars(Saves)

\* Every unit of the active run is completed, even one whose holder vanished or
\* whose status was set to something that is no status: expired leases are
\* reclaimed and stranded rows repaired.  (A lease of the vanished worker that
\* ends beyond MaxTime cannot run out: the clock stops there.)
EveryUnitCompletes ==
    \A r \in Runs, u \in Units :
        (runs[r] = "active" /\ units[r][u].status # "absent") ~>
            \/ units[r][u].status = "completed"
            \/ runs[r] # "active"
            \/ /\ units[r][u].status = "working"
               /\ units[r][u].lockedBy # Diligent
               /\ units[r][u].expires > MaxTime
=============================================================================
