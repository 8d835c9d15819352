----------------------------- MODULE BatchLedger -----------------------------
(***************************************************************************)
(* What the catalog work queue promises its workers, without time, handles *)
(* or SQL: batches of unsaved units are handed out, at most one batch per  *)
(* worker and run; the holder saves its whole batch in one step or loses   *)
(* units of it; what is saved stays saved, once, in the holder's name.     *)
(***************************************************************************)
CONSTANTS Runs, Units, Workers, None

VARIABLES
    held,   \* held[r][u]: the worker that holds unit u of run r, or None
    saved   \* <<run, unit, worker>>

vars == <<held, saved>>

Saved(r, u) == \E w \in Workers : <<r, u, w>> \in saved

Without(drop) ==
    [r \in Runs |-> [u \in Units |->
        IF <<r, u>> \in drop THEN None ELSE held[r][u]]]

Init ==
    /\ held = [r \in Runs |-> [u \in Units |-> None]]
    /\ saved = {}

\* Leases run out, a run is restarted, an expired lease is found saved.
Release(drop) ==
    /\ held' = Without(drop)
    /\ UNCHANGED saved

\* A worker that holds nothing in the run gets unsaved units nobody holds.
Grant(drop, r, w, batch) ==
    LET left == Without(drop)
    IN /\ \A u \in Units : left[r][u] # w
       /\ \A u \in batch : left[r][u] = None /\ ~Saved(r, u)
       /\ held' = [left EXCEPT ![r] =
                     [u \in Units |-> IF u \in batch THEN w ELSE left[r][u]]]
       /\ UNCHANGED saved

\* Everything the worker holds in the run, or nothing.
SaveAll(r, w) ==
    LET batch == {u \in Units : held[r][u] = w}
    IN /\ saved' = saved \cup {<<r, u, w>> : u \in batch}
       /\ held' = Without({r} \X batch)

Next ==
    \/ \E drop \in SUBSET (Runs \X Units) :
         \/ Release(drop)
         \/ \E r \in Runs, w \in Workers, batch \in SUBSET Units :
              Grant(drop, r, w, batch)
    \/ \E r \in Runs, w \in Workers : SaveAll(r, w)

Spec == Init /\ [][Next]_vars
=============================================================================
