-------------------------- MODULE CatalogWorkProofs --------------------------
(***************************************************************************)
(* Proofs about CatalogWork, for any number of workers, units, runs and    *)
(* calls, any lease time and any bound on the clock.                       *)
(***************************************************************************)
EXTENDS CatalogWork, TLAPS

-----------------------------------------------------------------------------
\* Lemmas on rows.

LEMMA UnleasedType ==
    ASSUME NEW st \in Statuses \cup {"absent"}
    PROVE  Unleased(st) \in Rows
  BY DEF Unleased, Rows

LEMMA ReclaimedType ==
    ASSUME NEW row \in Rows, NEW now \in Nat
    PROVE  Reclaimed(row, now) \in Rows
  BY DEF Reclaimed, Unleased, Rows, Statuses, Canonical

LEMMA RepairedType ==
    ASSUME NEW row \in Rows, NEW h \in BOOLEAN
    PROVE  Repaired(row, h) \in Rows
  BY DEF Repaired, Unleased, Rows, Statuses, Canonical

LEMMA SweptType ==
    ASSUME TypeOK, NEW r \in Runs, NEW now \in Nat
    PROVE  Swept(r, now) \in [Runs -> [Units -> Rows]]
  <1> DEFINE row(x, u) ==
        IF x = r THEN Repaired(Reclaimed(units[x][u], now), HasOutput(x, u))
                 ELSE Reclaimed(units[x][u], now)
  <1>1. ASSUME NEW x \in Runs, NEW u \in Units PROVE row(x, u) \in Rows
    <2>1. units[x][u] \in Rows
      BY DEF TypeOK
    <2>2. HasOutput(x, u) \in BOOLEAN
      BY DEF HasOutput
    <2>. QED  BY <2>1, <2>2, ReclaimedType, RepairedType
  <1>. QED  BY <1>1 DEF Swept

LEMMA ActiveRunIsRun ==
    ASSUME HasActiveRun
    PROVE  ActiveRun \in Runs /\ runs[ActiveRun] = "active"
  BY DEF HasActiveRun, ActiveRun

LEMMA LeasedType ==
    ASSUME NEW t \in Tokens, NEW e \in Nat
    PROVE  Leased(t, e) \in Rows
  BY DEF Leased, Rows, Tokens, Statuses, Canonical

LEMMA StartRunType ==
    ASSUME TypeOK, NEW r \in Runs, NEW seed \in SUBSET Units, StartRun(r, seed)
    PROVE  /\ runs' \in [Runs -> {"absent", "active", "superseded"}]
           /\ units' \in [Runs -> [Units -> Rows]]
           /\ reseeds' \in Nat
  <1>1. Unleased("queued") \in Rows
    BY UnleasedType DEF Statuses, Canonical
  <1>. QED  BY <1>1 DEF TypeOK, StartRun

LEMMA CallTypes ==
    ASSUME TypeOK, NEW s \in Slots
    PROVE  /\ calls[s] \in Calls
           /\ Return(s) => calls' \in [Slots -> Calls]
           /\ calls[s].op = "ensured" => calls[s].worker \in Workers
           /\ calls[s].op = "next" => /\ calls[s].worker \in Workers
                                      /\ calls[s].now \in Nat
           /\ calls[s].op = "save" => /\ calls[s].worker \in Workers
                                      /\ calls[s].token \in Tokens
                                      /\ calls[s].now \in Nat
           /\ calls[s].op = "reseed" => /\ calls[s].run \in Runs
                                        /\ calls[s].seed \in SUBSET Units
  BY DEF TypeOK, Calls, IdleCall, Return

LEMMA InitType == Init => TypeOK
  BY UnleasedType DEF Init, TypeOK, Absent, Calls, Statuses, Canonical

\* Every variable keeps its type (TypeOK).
THEOREM TypeCorrect == Spec => []TypeOK
  <1>1. Init => TypeOK
    BY InitType
  <1>2. TypeOK /\ [Next]_vars => TypeOK'
    <2> SUFFICES ASSUME TypeOK, [Next]_vars PROVE TypeOK'
      OBVIOUS
    <2>1. ASSUME NEW s \in Slots, NEW w \in Workers, NEW i \in BOOLEAN,
                 NextEnsure(s, w, i)
          PROVE  TypeOK'
      <3>1. calls' \in [Slots -> Calls]
        BY <2>1 DEF NextEnsure, TypeOK, Calls
      <3>2. CASE UNCHANGED <<runs, units, reseeds>>
        BY <2>1, <3>1, <3>2 DEF NextEnsure, TypeOK
      <3>3. CASE \E seed \in Seeds : StartRun(DefaultRun, seed)
        BY <2>1, <3>1, <3>3, StartRunType, CatalogWorkConstants DEF NextEnsure, TypeOK
      <3>. QED  BY <2>1, <3>2, <3>3 DEF NextEnsure
    <2>2. ASSUME NEW s \in Slots, NextClock(s) PROVE TypeOK'
      BY <2>2, CallTypes DEF NextClock, TypeOK, Calls
    <2>3. ASSUME NEW s \in Slots, NextReplay(s) PROVE TypeOK'
      BY <2>3, CallTypes, ActiveRunIsRun, SweptType DEF NextReplay, TypeOK
    <2>4. ASSUME NEW s \in Slots, NextLease(s) PROVE TypeOK'
      <3> DEFINE r == ActiveRun
                 now == calls[s].now
                 rows == Swept(r, now)
      <3>1. /\ r \in Runs /\ now \in Nat /\ calls[s].worker \in Workers
            /\ calls' \in [Slots -> Calls]
        BY <2>4, CallTypes, ActiveRunIsRun DEF NextLease
      <3>2. rows \in [Runs -> [Units -> Rows]]
        BY <3>1, SweptType
      <3>3. PICK batch \in Prefixes(Queued(rows[r])) :
              LET t == [run |-> r, worker |-> calls[s].worker, at |-> now,
                        units |-> batch]
              IN units' = [rows EXCEPT ![r] =
                            [u \in Units |-> IF u \in batch
                                             THEN Leased(t, now + LeaseTime)
                                             ELSE rows[r][u]]]
        BY <2>4 DEF NextLease
      <3> DEFINE t == [run |-> r, worker |-> calls[s].worker, at |-> now,
                       units |-> batch]
      <3>4. t \in Tokens
        BY <3>1 DEF Tokens, Prefixes, Queued
      <3>5. Leased(t, now + LeaseTime) \in Rows
        BY <3>1, <3>4, LeasedType, CatalogWorkConstants
      <3>6. units' \in [Runs -> [Units -> Rows]]
        BY <3>1, <3>2, <3>3, <3>5
      <3>. QED  BY <2>4, <3>1, <3>6 DEF NextLease, TypeOK
    <2>5. ASSUME NEW s \in Slots, NextNothing(s) PROVE TypeOK'
      BY <2>5, CallTypes, ActiveRunIsRun, SweptType DEF NextNothing, TypeOK
    <2>6. ASSUME NEW s \in Slots, CallFails(s) PROVE TypeOK'
      BY <2>6, CallTypes DEF CallFails, TypeOK
    <2>7. ASSUME NEW s \in Slots, NEW w \in Workers, NEW t \in Handles,
                 SaveClock(s, w, t)
          PROVE  TypeOK'
      <3>1. t \in Tokens
        BY DEF Handles, TypeOK, Rows
      <3>. QED  BY <2>7, <3>1 DEF SaveClock, TypeOK, Calls
    <2>8. ASSUME NEW s \in Slots, NEW r \in Runs, NEW batch \in SUBSET Units,
                 NEW answer \in Answers, SaveBatch(s, r, batch, answer)
          PROVE  TypeOK'
      <3>1. /\ calls[s].worker \in Workers /\ calls[s].token \in Tokens
            /\ calls' \in [Slots -> Calls]
        BY <2>8, CallTypes DEF SaveBatch
      <3>2. outputs' \subseteq OutputRows
        BY <2>8, <3>1 DEF SaveBatch, Replace, TypeOK, OutputRows
      <3>3. \A u \in Units : Done(units[r][u]) \in Rows
        BY UnleasedType DEF Done, Statuses, Canonical
      <3>4. units' \in [Runs -> [Units -> Rows]]
        BY <2>8, <3>3 DEF SaveBatch, TypeOK
      <3>. QED  BY <2>8, <3>1, <3>2, <3>4 DEF SaveBatch, TypeOK
    <2>9. ASSUME NEW s \in Slots, NEW r \in Runs, NEW seed \in Seeds,
                 ReseedCheck(s, r, seed)
          PROVE  TypeOK'
      BY <2>9, CatalogWorkConstants DEF ReseedCheck, TypeOK, Calls
    <2>10. ASSUME NEW s \in Slots, ReseedCommit(s) PROVE TypeOK'
      BY <2>10, CallTypes, StartRunType DEF ReseedCommit, TypeOK
    <2>11. ASSUME NEW r \in Runs, NEW u \in Units, NEW st \in OperatorStatuses,
                  OperatorSetsStatus(r, u, st)
           PROVE  TypeOK'
      <3>1. [units[r][u] EXCEPT !.status = st] \in Rows
        <4>1. st \in Statuses /\ units[r][u] \in Rows
          BY CatalogWorkConstants DEF TypeOK, CatalogWorkConstants
        <4>. QED  BY <4>1 DEF Rows
      <3>2. units' = [units EXCEPT ![r] = [units[r] EXCEPT ![u] =
                        [units[r][u] EXCEPT !.status = st]]]
        BY <2>11 DEF OperatorSetsStatus, TypeOK
      <3>3. units' \in [Runs -> [Units -> Rows]]
        BY <3>1, <3>2 DEF TypeOK
      <3>. QED  BY <2>11, <3>3 DEF OperatorSetsStatus, TypeOK
    <2>12. ASSUME Tick PROVE TypeOK'
      BY <2>12 DEF Tick, TypeOK
    <2>13. ASSUME UNCHANGED vars PROVE TypeOK'
      BY <2>13 DEF vars, TypeOK
    <2>. QED
      BY <2>1, <2>2, <2>3, <2>4, <2>5, <2>6, <2>7, <2>8, <2>9, <2>10, <2>11,
         <2>12, <2>13 DEF Next, NextCall, SaveCall, ReseedCall
  <1>. QED  BY <1>1, <1>2, PTL DEF Spec

-----------------------------------------------------------------------------
\* The inductive invariant.  SavedOnce alone is not inductive: that a save adds
\* a first output has to be known from the row it completes.  A row that carries
\* a handle belongs to the worker of the handle, and no output is stored yet:
\* the sweep has completed every row with an output before a lease is made, and
\* nothing but that lease can save the unit.

LeasedRowInv(row, r, u) ==
    /\ row.token = None <=> row.lockedBy = None
    /\ row.token = None <=> row.expires = None
    /\ row.token # None => /\ row.token.run = r
                           /\ row.token.worker = row.lockedBy
                           /\ u \in row.token.units
                           /\ ~HasOutput(r, u)

LeasesInv == \A r \in Runs, u \in Units : LeasedRowInv(units[r][u], r, u)

IInv ==
    /\ TypeOK
    /\ AtMostOneActiveRun
    /\ LeasesInv
    /\ SavedOnce
    /\ SavedUnderOwnLease

LEMMA UnleasedInv ==
    ASSUME NEW st, NEW r, NEW u
    PROVE  LeasedRowInv(Unleased(st), r, u)
  BY DEF LeasedRowInv, Unleased

LEMMA SweptInv ==
    ASSUME IInv, NEW r \in Runs, NEW now \in Nat
    PROVE  \A x \in Runs, u \in Units :
             /\ LeasedRowInv(Swept(r, now)[x][u], x, u)
             /\ x = r /\ Swept(r, now)[x][u].status = "queued" => ~HasOutput(x, u)
  <1> SUFFICES ASSUME NEW x \in Runs, NEW u \in Units
               PROVE  /\ LeasedRowInv(Swept(r, now)[x][u], x, u)
                      /\ x = r /\ Swept(r, now)[x][u].status = "queued"
                         => ~HasOutput(x, u)
    OBVIOUS
  <1> DEFINE mid == Reclaimed(units[x][u], now)
  <1>1. LeasedRowInv(mid, x, u)
    BY UnleasedInv DEF IInv, LeasesInv, Reclaimed
  <1>2. Swept(r, now)[x][u] = IF x = r THEN Repaired(mid, HasOutput(x, u)) ELSE mid
    BY DEF Swept
  <1>3. LeasedRowInv(Repaired(mid, HasOutput(x, u)), x, u)
    BY <1>1, UnleasedInv DEF Repaired
  <1>4. Repaired(mid, HasOutput(x, u)).status = "queued" => ~HasOutput(x, u)
    BY DEF Repaired, Unleased, Canonical
  <1>. QED  BY <1>1, <1>2, <1>3, <1>4

\* Rows that were replaced by rows without a lease, or kept, keep the invariant.
LEMMA StartRunInv ==
    ASSUME IInv, TypeOK', UNCHANGED outputs,
           NEW r \in Runs, NEW seed \in SUBSET Units, StartRun(r, seed)
    PROVE  IInv'
  <1>1. AtMostOneActiveRun'
    BY DEF IInv, TypeOK, StartRun, AtMostOneActiveRun
  <1>2. LeasesInv'
    <2> SUFFICES ASSUME NEW x \in Runs, NEW u \in Units
                 PROVE  LeasedRowInv(units[x][u], x, u)'
      BY DEF LeasesInv
    <2>1. units'[x][u] = units[x][u] \/ units'[x][u] = Unleased("queued")
      BY DEF StartRun, IInv, TypeOK
    <2>. QED  BY <2>1, UnleasedInv DEF IInv, LeasesInv, LeasedRowInv, HasOutput,
                                       Unleased
  <1>. QED  BY <1>1, <1>2 DEF IInv, SavedOnce, SavedUnderOwnLease

LEMMA SaveBatchInv ==
    ASSUME IInv, TypeOK', NEW s \in Slots, NEW r \in Runs,
           NEW batch \in SUBSET Units, NEW answer \in Answers,
           SaveBatch(s, r, batch, answer)
    PROVE  IInv'
  <1> DEFINE w == calls[s].worker
             t == calls[s].token
             out(u) == [run |-> r, unit |-> u, worker |-> w, token |-> t,
                        answer |-> answer]
             new == {out(u) : u \in batch}
  <1>1. w \in Workers /\ t \in Tokens /\ t # None
    BY CallTypes, CatalogWorkConstants DEF SaveBatch, IInv, CatalogWorkConstants
  <1>2. ASSUME NEW u \in batch
        PROVE  units[r][u].token = t /\ units[r][u].lockedBy = w
    <2>1. {r} \X batch = LeasedRows(w, t)
      BY DEF SaveBatch, Complete
    <2>2. <<r, u>> \in LeasedRows(w, t)
      BY <2>1
    <2>. QED  BY <2>2 DEF LeasedRows
  <1>3. \A u \in batch : /\ ~HasOutput(r, u)
                         /\ t.run = r /\ t.worker = w /\ u \in t.units
    BY <1>1, <1>2 DEF IInv, LeasesInv, LeasedRowInv
  <1>4. \A o \in outputs' : o \in outputs \/ o \in new
    BY DEF SaveBatch, Replace
  <1>5. \A o \in new : \E u \in batch : o = out(u)
    OBVIOUS
  <1>6. SavedUnderOwnLease'
    BY <1>3, <1>4, <1>5 DEF SavedUnderOwnLease, IInv
  <1>7. SavedOnce'
    <2> SUFFICES ASSUME NEW o \in outputs', NEW p \in outputs',
                        o.run = p.run, o.unit = p.unit
                 PROVE  o = p
      BY DEF SavedOnce
    <2>1. CASE o \in outputs /\ p \in outputs
      BY <2>1 DEF IInv, SavedOnce
    <2>2. CASE o \in new /\ p \in new
      BY <2>2, <1>5
    <2>3. CASE o \in outputs /\ p \in new
      BY <2>3, <1>3, <1>5 DEF HasOutput
    <2>4. CASE o \in new /\ p \in outputs
      BY <2>4, <1>3, <1>5 DEF HasOutput
    <2>. QED  BY <1>4, <2>1, <2>2, <2>3, <2>4
  <1>8. LeasesInv'
    <2> SUFFICES ASSUME NEW x \in Runs, NEW u \in Units
                 PROVE  LeasedRowInv(units[x][u], x, u)'
      BY DEF LeasesInv
    <2>1. CASE x = r /\ u \in batch
      <3>1. units'[x][u] = Unleased("completed")
        BY <2>1 DEF SaveBatch, Done, IInv, TypeOK
      <3>. QED  BY <3>1 DEF LeasedRowInv, Unleased
    <2>2. CASE ~(x = r /\ u \in batch)
      <3>1. units'[x][u] = units[x][u]
        BY <2>2 DEF SaveBatch, IInv, TypeOK
      <3>2. HasOutput(x, u)' => HasOutput(x, u)
        BY <2>2, <1>4, <1>5 DEF HasOutput
      <3>. QED  BY <3>1, <3>2 DEF IInv, LeasesInv, LeasedRowInv
    <2>. QED  BY <2>1, <2>2
  <1>9. AtMostOneActiveRun'
    BY DEF SaveBatch, IInv, AtMostOneActiveRun
  <1>. QED  BY <1>6, <1>7, <1>8, <1>9 DEF IInv

\* The rows after a step that leaves the outputs and the runs alone.
LEMMA RowsInv ==
    ASSUME IInv, TypeOK', UNCHANGED <<runs, outputs>>,
           \A x \in Runs, u \in Units : LeasedRowInv(units'[x][u], x, u)
    PROVE  IInv'
  <1>1. LeasesInv'
    <2> SUFFICES ASSUME NEW x \in Runs, NEW u \in Units
                 PROVE  LeasedRowInv(units[x][u], x, u)'
      BY DEF LeasesInv
    <2>. QED  BY DEF LeasedRowInv, HasOutput
  <1>. QED  BY <1>1 DEF IInv, AtMostOneActiveRun, SavedOnce, SavedUnderOwnLease

LEMMA NextLeaseInv ==
    ASSUME IInv, TypeOK', NEW s \in Slots, NextLease(s)
    PROVE  IInv'
  <1> DEFINE r == ActiveRun
             w == calls[s].worker
             now == calls[s].now
             rows == Swept(r, now)
  <1>1. r \in Runs /\ now \in Nat /\ w \in Workers
    BY CallTypes, ActiveRunIsRun DEF NextLease, IInv
  <1>2. PICK batch \in Prefixes(Queued(rows[r])) :
          LET t == [run |-> r, worker |-> w, at |-> now, units |-> batch]
          IN units' = [rows EXCEPT ![r] =
                        [u \in Units |-> IF u \in batch
                                         THEN Leased(t, now + LeaseTime)
                                         ELSE rows[r][u]]]
    BY DEF NextLease
  <1> DEFINE t == [run |-> r, worker |-> w, at |-> now, units |-> batch]
  <1>3. \A u \in batch : rows[r][u].status = "queued"
    BY DEF Prefixes, Queued
  <1>4. t \in Tokens /\ t # None /\ w # None /\ now + LeaseTime # None
    BY <1>1, CatalogWorkConstants DEF Tokens, Prefixes, Queued, CatalogWorkConstants
  <1>5. \A x \in Runs, u \in Units : LeasedRowInv(units'[x][u], x, u)
    <2> SUFFICES ASSUME NEW x \in Runs, NEW u \in Units
                 PROVE  LeasedRowInv(units'[x][u], x, u)
      OBVIOUS
    <2>1. CASE x = r /\ u \in batch
      <3>1. units'[x][u] = Leased(t, now + LeaseTime)
        BY <1>1, <1>2, <2>1 DEF Swept
      <3>2. ~HasOutput(x, u)
        BY <1>1, <1>3, <2>1, SweptInv
      <3>. QED  BY <3>1, <3>2, <2>1, <1>4 DEF LeasedRowInv, Leased
    <2>2. CASE ~(x = r /\ u \in batch)
      <3>1. units'[x][u] = rows[x][u]
        BY <1>1, <1>2, <2>2 DEF Swept
      <3>. QED  BY <3>1, <1>1, SweptInv
    <2>. QED  BY <2>1, <2>2
  <1>. QED  BY <1>5, RowsInv DEF NextLease

LEMMA Invariance == IInv /\ TypeOK' /\ [Next]_vars => IInv'
  <1> SUFFICES ASSUME IInv, TypeOK', [Next]_vars PROVE IInv'
    OBVIOUS
  <1>1. ASSUME UNCHANGED <<runs, units, outputs>> PROVE IInv'
    BY <1>1, RowsInv DEF IInv, LeasesInv
  <1>2. ASSUME NEW s \in Slots, NEW w \in Workers, NEW i \in BOOLEAN,
               NextEnsure(s, w, i)
        PROVE  IInv'
    BY <1>1, <1>2, StartRunInv, CatalogWorkConstants
       DEF NextEnsure, CatalogWorkConstants
  <1>3. ASSUME NEW s \in Slots, NextReplay(s) \/ NextNothing(s) PROVE IInv'
    <2>1. /\ ActiveRun \in Runs /\ calls[s].now \in Nat
          /\ units' = Swept(ActiveRun, calls[s].now)
          /\ UNCHANGED <<runs, outputs>>
      BY <1>3, CallTypes, ActiveRunIsRun DEF NextReplay, NextNothing, IInv
    <2>. QED  BY <2>1, SweptInv, RowsInv
  <1>4. ASSUME NEW s \in Slots, ReseedCommit(s) PROVE IInv'
    BY <1>4, CallTypes, StartRunInv DEF ReseedCommit, IInv
  <1>5. ASSUME NEW r \in Runs, NEW u \in Units, NEW st \in OperatorStatuses,
               OperatorSetsStatus(r, u, st)
        PROVE  IInv'
    <2>1. ASSUME NEW x \in Runs, NEW v \in Units
          PROVE  LeasedRowInv(units'[x][v], x, v)
      <3>1. \/ units'[x][v] = units[x][v]
            \/ units'[x][v] = [units[x][v] EXCEPT !.status = st]
        <4>. DEFINE new == [units[r][u] EXCEPT !.status = st]
        <4>1. /\ units' = [units EXCEPT ![r] = [units[r] EXCEPT ![u] = new]]
              /\ units \in [Runs -> [Units -> Rows]]
          BY <1>5 DEF OperatorSetsStatus, IInv, TypeOK
        <4>. HIDE DEF new
        <4>2. units'[x][v] = IF x = r /\ v = u THEN new ELSE units[x][v]
          BY <4>1
        <4>. QED  BY <4>2 DEF new
      <3>2. units[x][v] \in Rows /\ LeasedRowInv(units[x][v], x, v)
        BY DEF IInv, TypeOK, LeasesInv
      <3>3. LET new == [units[x][v] EXCEPT !.status = st]
            IN  /\ new.lockedBy = units[x][v].lockedBy
                /\ new.token = units[x][v].token
                /\ new.expires = units[x][v].expires
        BY <3>2 DEF Rows
      <3>4. LeasedRowInv([units[x][v] EXCEPT !.status = st], x, v)
        BY <3>2, <3>3 DEF LeasedRowInv
      <3>. QED  BY <3>1, <3>2, <3>4
    <2>. QED  BY <2>1, <1>5, RowsInv DEF OperatorSetsStatus
  <1>. QED
    BY <1>1, <1>2, <1>3, <1>4, <1>5, NextLeaseInv, SaveBatchInv
       DEF Next, NextCall, SaveCall, ReseedCall, NextClock, CallFails, SaveClock,
           ReseedCheck, Tick, vars

THEOREM Inductive == Spec => []IInv
  <1>1. Init => IInv
    <2>1. ASSUME Init PROVE LeasesInv
      BY <2>1, UnleasedInv DEF Init, LeasesInv, Absent
    <2>2. ASSUME Init PROVE AtMostOneActiveRun
      BY <2>2, CatalogWorkConstants DEF Init, AtMostOneActiveRun, CatalogWorkConstants
    <2>3. ASSUME Init PROVE SavedOnce /\ SavedUnderOwnLease
      BY <2>3 DEF Init, SavedOnce, SavedUnderOwnLease
    <2>4. ASSUME Init PROVE TypeOK
      BY <2>4, InitType
    <2>. QED  BY <2>1, <2>2, <2>3, <2>4 DEF IInv
  <1>. QED  BY <1>1, Invariance, TypeCorrect, PTL DEF Spec

\* No unit of a run is ever saved twice (SavedOnce), whatever an operator writes
\* and however stale the clock of a call is.
THEOREM OutputsAreSavedOnce == Spec => []SavedOnce
  BY Inductive, PTL DEF IInv

\* What is stored was leased to the worker that saved it (SavedUnderOwnLease).
THEOREM OutputsAreLeased == Spec => []SavedUnderOwnLease
  BY Inductive, PTL DEF IInv

\* At most one run is active (AtMostOneActiveRun).
THEOREM OneActiveRun == Spec => []AtMostOneActiveRun
  BY Inductive, PTL DEF IInv

\* A save drains the batch of its handle (SaveDrainsBatch): the handle belongs to
\* one worker and one run, so the rows the save completes are all that carry it.
THEOREM SavesDrainTheirBatch == Spec => SaveDrainsBatch
  <1> DEFINE Drains ==
        \A o \in outputs' \ outputs : \A r \in Runs, u \in Units :
          units'[r][u].status = "working" => units'[r][u].token # o.token
  <1>1. ASSUME IInv, IInv', NEW s \in Slots, NEW r \in Runs,
               NEW batch \in SUBSET Units, NEW answer \in Answers,
               SaveBatch(s, r, batch, answer)
        PROVE  Drains
    <2> DEFINE w == calls[s].worker
               t == calls[s].token
    <2>1. t # None
      BY <1>1, CallTypes, CatalogWorkConstants
         DEF SaveBatch, IInv, CatalogWorkConstants
    <2>2. {r} \X batch = LeasedRows(w, t) /\ batch # {}
      BY <1>1 DEF SaveBatch, Complete
    <2>3. PICK v \in batch : TRUE
      BY <2>2
    <2>4. t.worker = w
      <3>1. <<r, v>> \in LeasedRows(w, t)
        BY <2>2
      <3>2. units[r][v].token = t /\ units[r][v].lockedBy = w
        BY <3>1 DEF LeasedRows
      <3>. QED  BY <2>1, <3>2, <1>1 DEF IInv, LeasesInv, LeasedRowInv
    <2>5. \A o \in outputs' \ outputs : o.token = t
      BY <1>1 DEF SaveBatch, Replace
    <2>6. ASSUME NEW x \in Runs, NEW u \in Units,
                 units'[x][u].status = "working", units'[x][u].token = t
          PROVE  FALSE
      <3>1. ~(x = r /\ u \in batch)
        <4>1. Unleased("completed").status # "working"
          BY DEF Unleased
        <4>. QED  BY <2>6, <4>1, <1>1 DEF SaveBatch, Done, IInv, TypeOK
      <3>2. units'[x][u] = units[x][u]
        BY <3>1, <1>1 DEF SaveBatch, IInv, TypeOK
      <3>3. units[x][u].lockedBy = w
        BY <2>1, <2>4, <2>6, <3>2, <1>1 DEF IInv, LeasesInv, LeasedRowInv
      <3>4. <<x, u>> \in LeasedRows(w, t)
        BY <2>6, <3>2, <3>3 DEF LeasedRows
      <3>. QED  BY <3>1, <3>4, <2>2
    <2>. QED  BY <2>5, <2>6
  <1>2. ASSUME UNCHANGED outputs PROVE Drains
    BY <1>2
  <1>3. IInv /\ IInv' /\ [Next]_vars => Drains
    <2>. HIDE DEF Drains
    <2>. QED
      BY <1>1, <1>2
         DEF Next, NextCall, SaveCall, ReseedCall, NextEnsure, NextClock, NextReplay,
             NextLease, NextNothing, CallFails, SaveClock, ReseedCheck, ReseedCommit,
             OperatorSetsStatus, Tick, vars
  <1>4. IInv /\ IInv' /\ [Next]_vars => [Drains]_vars
    BY <1>3
  <1>. QED  BY <1>4, Inductive, PTL DEF Spec, SaveDrainsBatch

-----------------------------------------------------------------------------
\* A call's clock reading is never ahead of the clock.
ClockInv ==
    \A s \in Slots : calls[s].op \in {"next", "save"} => calls[s].now <= clock

LEMMA ClockInductive == Spec => []ClockInv
  <1>1. Init => ClockInv
    BY DEF Init, ClockInv, IdleCall
  <1>2. TypeOK /\ ClockInv /\ [Next]_vars => ClockInv'
    <2> SUFFICES ASSUME TypeOK, ClockInv, [Next]_vars, NEW s \in Slots,
                        calls'[s].op \in {"next", "save"}
                 PROVE  calls'[s].now <= clock'
      BY DEF ClockInv
    <2>1. clock \in Nat /\ clock' \in Nat /\ clock <= clock'
      <3>1. Tick \/ clock' = clock
        <4>1. ASSUME NEW x \in Slots, ReseedCommit(x) PROVE clock' = clock
          BY <4>1 DEF ReseedCommit
        <4>2. ASSUME NEW x \in Slots,
                     NextReplay(x) \/ NextLease(x) \/ NextNothing(x)
              PROVE  clock' = clock
          BY <4>2 DEF NextReplay, NextLease, NextNothing
        <4>. QED
          BY <4>1, <4>2
             DEF Next, NextCall, SaveCall, ReseedCall, NextEnsure, NextClock,
                 CallFails, SaveClock, SaveBatch, ReseedCheck,
                 OperatorSetsStatus, vars
      <3>2. clock \in Nat
        BY DEF TypeOK
      <3>3. Tick => clock' = clock + 1
        BY DEF Tick
      <3>. QED  BY <3>1, <3>2, <3>3
    <2>2. calls'[s] = calls[s] \/ calls'[s].now = clock
      <3>1. ASSUME NEW x \in Slots, NEW e, e.op \notin {"next", "save"},
                   calls' = [calls EXCEPT ![x] = e]
            PROVE  calls'[s] = calls[s]
        BY <3>1 DEF TypeOK
      <3>2. ASSUME NEW x \in Slots, NEW e, e.now = clock,
                   calls' = [calls EXCEPT ![x] = e]
            PROVE  calls'[s] = calls[s] \/ calls'[s].now = clock
        BY <3>2 DEF TypeOK
      <3>3. ASSUME NEW x \in Slots, Return(x) PROVE calls'[s] = calls[s]
        BY <3>1, <3>3 DEF Return, IdleCall
      <3>4. ASSUME NEW x \in Slots, NEW w \in Workers, NEW i \in BOOLEAN,
                   NextEnsure(x, w, i)
            PROVE  calls'[s] = calls[s]
        BY <3>1, <3>4 DEF NextEnsure
      <3>5. ASSUME NEW x \in Slots, NEW r \in Runs, NEW seed \in Seeds,
                   ReseedCheck(x, r, seed)
            PROVE  calls'[s] = calls[s]
        BY <3>1, <3>5 DEF ReseedCheck
      <3>6. ASSUME NEW x \in Slots, NextClock(x)
            PROVE  calls'[s] = calls[s] \/ calls'[s].now = clock
        BY <3>2, <3>6 DEF NextClock
      <3>7. ASSUME NEW x \in Slots, NEW w \in Workers, NEW t \in Handles,
                   SaveClock(x, w, t)
            PROVE  calls'[s] = calls[s] \/ calls'[s].now = clock
        BY <3>2, <3>7 DEF SaveClock
      <3>8. ASSUME UNCHANGED calls PROVE calls'[s] = calls[s]
        BY <3>8
      <3>. QED
        BY <3>3, <3>4, <3>5, <3>6, <3>7, <3>8
           DEF Next, NextCall, SaveCall, ReseedCall, NextReplay, NextLease,
               NextNothing, CallFails, SaveBatch, ReseedCommit,
               OperatorSetsStatus, Tick, vars
    <2>3. CASE calls'[s] = calls[s]
      <3>1. calls[s].now \in Nat
        BY <2>3, CallTypes
      <3>2. calls[s].now <= clock
        BY <2>3 DEF ClockInv
      <3>. QED  BY <2>1, <2>3, <3>1, <3>2
    <2>4. CASE calls'[s].now = clock
      BY <2>1, <2>4
    <2>. QED  BY <2>2, <2>3, <2>4
  <1>. QED  BY <1>1, <1>2, TypeCorrect, PTL DEF Spec

\* A live lease survives every sweep, however early the clock was read.
LEMMA SweptKeepsLive ==
    ASSUME IInv, NEW r \in Runs, NEW now \in Nat, now <= clock,
           NEW x \in Runs, NEW u \in Units,
           units[x][u].status = "working", ~Expired(units[x][u], clock)
    PROVE  Swept(r, now)[x][u] = units[x][u]
  <1> DEFINE row == units[x][u]
  <1>1. row \in Rows /\ LeasedRowInv(row, x, u) /\ clock \in Nat
    BY DEF IInv, TypeOK, LeasesInv
  <1>2. row.expires # None /\ row.expires > clock /\ row.expires \in Nat
    BY <1>1 DEF Expired, Rows
  <1>3. ~HasOutput(x, u)
    BY <1>1, <1>2 DEF LeasedRowInv
  <1>4. ~Expired(row, now)
    BY <1>1, <1>2 DEF Expired
  <1>5. Reclaimed(row, now) = row
    BY <1>4 DEF Reclaimed
  <1>6. Repaired(row, HasOutput(x, u)) = row
    BY <1>3 DEF Repaired, Canonical
  <1>. QED  BY <1>5, <1>6 DEF Swept

\* A lease that is live on the wall clock ends only in a save under it or because
\* a run was started (LeaseHonoured), unless an operator writes statuses by hand:
\* a call that read its clock long ago reclaims too little, never too much.
THEOREM LeasesAreHonoured ==
    ASSUME OperatorStatuses = {}
    PROVE  Spec => LeaseHonoured
  <1> DEFINE Honours(r, u) ==
        LET row == units[r][u]
        IN  /\ row.status = "working" /\ ~Expired(row, clock)
            /\ units'[r][u] # row
            => \/ reseeds' # reseeds
               \/ \E o \in outputs' \ outputs :
                    o.run = r /\ o.unit = u /\ o.token = row.token
  <1>1. IInv /\ IInv' /\ ClockInv /\ [Next]_vars
          => \A r \in Runs, u \in Units : Honours(r, u)
    <2> SUFFICES ASSUME IInv, IInv', ClockInv, [Next]_vars,
                        NEW x \in Runs, NEW u \in Units
                 PROVE  Honours(x, u)
      OBVIOUS
    <2> DEFINE row == units[x][u]
    <2>1. ASSUME UNCHANGED units PROVE Honours(x, u)
      BY <2>1
    <2>2. ASSUME NEW r \in Runs, NEW seed, StartRun(r, seed) PROVE Honours(x, u)
      BY <2>2 DEF StartRun, IInv, TypeOK
    <2>3. ASSUME NEW s \in Slots, calls[s].op = "next"
          PROVE  calls[s].now \in Nat /\ calls[s].now <= clock
      BY <2>3, CallTypes DEF IInv, ClockInv
    <2>4. ASSUME NEW s \in Slots, NextReplay(s) \/ NextNothing(s)
          PROVE  Honours(x, u)
      <3>1. /\ ActiveRun \in Runs /\ calls[s].op = "next"
            /\ units' = Swept(ActiveRun, calls[s].now)
        BY <2>4, ActiveRunIsRun DEF NextReplay, NextNothing
      <3>. QED  BY <3>1, <2>3, SweptKeepsLive
    <2>5. ASSUME NEW s \in Slots, NextLease(s) PROVE Honours(x, u)
      <3> DEFINE rows == Swept(ActiveRun, calls[s].now)
      <3>1. ActiveRun \in Runs /\ calls[s].op = "next"
        BY <2>5, ActiveRunIsRun DEF NextLease
      <3>2. PICK batch \in Prefixes(Queued(rows[ActiveRun])) :
              LET t == [run |-> ActiveRun, worker |-> calls[s].worker,
                        at |-> calls[s].now, units |-> batch]
              IN units' = [rows EXCEPT ![ActiveRun] =
                            [v \in Units |-> IF v \in batch
                                             THEN Leased(t, calls[s].now + LeaseTime)
                                             ELSE rows[ActiveRun][v]]]
        BY <2>5 DEF NextLease
      <3>3. \A v \in batch : rows[ActiveRun][v].status = "queued"
        BY DEF Prefixes, Queued
      <3>4. \/ units'[x][u] = rows[x][u]
            \/ rows[x][u].status = "queued"
        BY <3>1, <3>2, <3>3 DEF Swept
      <3>5. row.status = "working" /\ ~Expired(row, clock) => rows[x][u] = row
        BY <3>1, <2>3, SweptKeepsLive
      <3>. QED  BY <3>4, <3>5
    <2>6. ASSUME NEW s \in Slots, NEW r \in Runs, NEW batch \in SUBSET Units,
                 NEW answer \in Answers, SaveBatch(s, r, batch, answer),
                 units'[x][u] # row
          PROVE  \E o \in outputs' \ outputs :
                   o.run = x /\ o.unit = u /\ o.token = row.token
      <3> DEFINE t == calls[s].token
                 o == [run |-> r, unit |-> u, worker |-> calls[s].worker,
                       token |-> t, answer |-> answer]
      <3>1. x = r /\ u \in batch
        BY <2>6 DEF SaveBatch, IInv, TypeOK
      <3>2. row.token = t /\ t # None
        <4>1. {r} \X batch = LeasedRows(calls[s].worker, t)
          BY <2>6 DEF SaveBatch, Complete
        <4>2. <<r, u>> \in LeasedRows(calls[s].worker, t)
          BY <3>1, <4>1
        <4>. QED  BY <3>1, <4>2, <2>6, CallTypes, CatalogWorkConstants
                  DEF LeasedRows, SaveBatch, IInv, CatalogWorkConstants
      <3>3. ~HasOutput(r, u)
        BY <3>1, <3>2 DEF IInv, LeasesInv, LeasedRowInv
      <3>4. o \in outputs'
        BY <2>6, <3>1 DEF SaveBatch, Replace
      <3>5. o \notin outputs
        BY <3>3 DEF HasOutput
      <3>. QED  BY <3>1, <3>2, <3>4, <3>5
    <2>7. ASSUME NEW s \in Slots, NEW r \in Runs, NEW batch \in SUBSET Units,
                 NEW answer \in Answers, SaveBatch(s, r, batch, answer)
          PROVE  Honours(x, u)
      BY <2>6, <2>7
    <2>. HIDE DEF Honours
    <2>. QED
      BY <2>1, <2>2, <2>4, <2>5, <2>7, CatalogWorkConstants, CallTypes
         DEF CatalogWorkConstants, IInv, Next, NextCall, SaveCall, ReseedCall,
             NextEnsure, NextClock, CallFails, SaveClock, ReseedCheck,
             ReseedCommit, Tick, vars
  <1>2. IInv /\ IInv' /\ ClockInv /\ [Next]_vars
          => [\A r \in Runs, u \in Units : Honours(r, u)]_vars
    BY <1>1
  <1>. QED  BY <1>2, Inductive, ClockInductive, PTL DEF Spec, LeaseHonoured

-----------------------------------------------------------------------------
\* CatalogWork implements BatchLedger as long as no operator writes a status by hand.
\* The refinement rests on two more invariants: a row is "working" exactly when it
\* carries a handle, and the working rows of a worker in one run carry the same handle.

QueueRow(row, r, u) ==
    /\ row.status \in Canonical \cup {"absent"}
    /\ row.status = "working" <=> row.token # None
    /\ row.status = "completed" => HasOutput(r, u)

QueueInv == \A r \in Runs, u \in Units : QueueRow(units[r][u], r, u)

QInv == IInv /\ QueueInv /\ OneBatchPerWorker

-----------------------------------------------------------------------------
\* Rows after a sweep: what is still working was not touched and has not
\* expired on the clock of the call.
LEMMA SweptQueue ==
    ASSUME QInv, NEW r \in Runs, NEW now \in Nat, NEW x \in Runs, NEW u \in Units
    PROVE  LET row == Swept(r, now)[x][u]
           IN  /\ QueueRow(row, x, u)
               /\ row.status = "working" =>
                    /\ row = units[x][u]
                    /\ row.expires # None
                    /\ row.expires > now
  <1> DEFINE old == units[x][u]
             mid == Reclaimed(old, now)
             row == Swept(r, now)[x][u]
  <1>1. row = IF x = r THEN Repaired(mid, HasOutput(x, u)) ELSE mid
    BY DEF Swept
  <1>2. QueueRow(old, x, u) /\ LeasedRowInv(old, x, u) /\ old \in Rows
    BY DEF QInv, IInv, QueueInv, LeasesInv, TypeOK
  <1>3. old.status = "working" => old.expires # None /\ old.expires \in Nat
    BY <1>2 DEF QueueRow, LeasedRowInv, Rows
  <1>4. /\ QueueRow(mid, x, u)
        /\ mid.status = "working" => /\ mid = old /\ ~HasOutput(x, u)
                                     /\ old.expires > now
    <2>1. CASE mid = Unleased("queued")
      BY <2>1 DEF QueueRow, Unleased, Canonical
    <2>2. CASE mid = old /\ ~(old.status = "working" /\ old.expires # None
                                /\ Expired(old, now))
      <3>1. old.status = "working" => old.expires > now
        BY <2>2, <1>3 DEF Expired
      <3>2. old.status = "working" => ~HasOutput(x, u)
        BY <1>2 DEF QueueRow, LeasedRowInv
      <3>. QED  BY <2>2, <1>2, <3>1, <3>2
    <2>. QED  BY <2>1, <2>2 DEF Reclaimed
  <1>5. CASE row = mid
    BY <1>5, <1>4, <1>3
  <1>6. CASE x = r /\ row # mid
    <2>1. row = Unleased("completed") /\ HasOutput(x, u)
      BY <1>6, <1>1, <1>4 DEF Repaired, QueueRow
    <2>. QED  BY <2>1 DEF QueueRow, Unleased, Canonical
  <1>. QED  BY <1>1, <1>5, <1>6

\* A step that replaces rows by rows without a handle, or keeps them.
LEMMA FewerRows ==
    ASSUME QInv, IInv',
           \A x \in Runs, u \in Units :
             /\ QueueRow(units'[x][u], x, u)
             /\ units'[x][u].status = "working" => units'[x][u] = units[x][u],
           \A x \in Runs, u \in Units : HasOutput(x, u) => HasOutput(x, u)'
    PROVE  QInv'
  <1>1. QueueInv'
    BY DEF QueueInv, QueueRow
  <1>2. OneBatchPerWorker'
    BY DEF QInv, OneBatchPerWorker
  <1>. QED  BY <1>1, <1>2 DEF QInv

LEMMA StartRunQueue ==
    ASSUME QInv, IInv', NEW r \in Runs, NEW seed \in SUBSET Units,
           StartRun(r, seed), UNCHANGED outputs
    PROVE  QInv'
  <1>1. ASSUME NEW x \in Runs, NEW u \in Units
        PROVE  units'[x][u] = units[x][u] \/ units'[x][u] = Unleased("queued")
    BY DEF StartRun, QInv, IInv, TypeOK
  <1>2. \A x \in Runs, u \in Units : QueueRow(Unleased("queued"), x, u)
    BY DEF QueueRow, Unleased, Canonical
  <1>3. \A x \in Runs, u \in Units : QueueRow(units[x][u], x, u)
    BY DEF QInv, QueueInv
  <1>4. Unleased("queued").status # "working"
    BY DEF Unleased
  <1>5. \A x \in Runs, u \in Units : HasOutput(x, u) => HasOutput(x, u)'
    BY DEF HasOutput
  <1>. QED  BY <1>1, <1>2, <1>3, <1>4, <1>5, FewerRows

-----------------------------------------------------------------------------
\* A lease on the clock reading now: the batch was queued, and the worker held
\* nothing else in the run once the expired leases were taken back.
LeaseOf(r, w, now, batch) ==
    LET t == [run |-> r, worker |-> w, at |-> now, units |-> batch]
        rows == Swept(r, now)
    IN  /\ t # None /\ w # None
        /\ \A u \in batch : rows[r][u].status = "queued" /\ ~HasOutput(r, u)
        /\ \A u \in Units : rows[r][u].status = "working" => rows[r][u].lockedBy # w
        /\ \A x \in Runs, u \in Units :
             units'[x][u] = IF x = r /\ u \in batch
                            THEN Leased(t, now + LeaseTime)
                            ELSE rows[x][u]

LEMMA LeaseStep ==
    ASSUME QInv, NEW s \in Slots, NextLease(s)
    PROVE  \E r \in Runs, w \in Workers, now \in Nat, batch \in SUBSET Units :
             LeaseOf(r, w, now, batch)
  <1> DEFINE r == ActiveRun
             w == calls[s].worker
             now == calls[s].now
             rows == Swept(r, now)
  <1>1. r \in Runs /\ now \in Nat /\ w \in Workers /\ IInv
    BY CallTypes, ActiveRunIsRun DEF NextLease, IInv, QInv
  <1>2. PICK batch \in Prefixes(Queued(rows[r])) :
          LET t == [run |-> r, worker |-> w, at |-> now, units |-> batch]
          IN units' = [rows EXCEPT ![r] =
                        [u \in Units |-> IF u \in batch
                                         THEN Leased(t, now + LeaseTime)
                                         ELSE rows[r][u]]]
    BY DEF NextLease
  <1> DEFINE t == [run |-> r, worker |-> w, at |-> now, units |-> batch]
  <1>3. batch \in SUBSET Units /\ \A u \in batch : rows[r][u].status = "queued"
    BY DEF Prefixes, Queued
  <1>4. \A u \in batch : ~HasOutput(r, u)
    BY <1>1, <1>3, SweptInv
  <1>5. t # None /\ w # None
    BY <1>1, <1>3, CatalogWorkConstants DEF Tokens, CatalogWorkConstants
  <1>6. ASSUME NEW u \in Units, rows[r][u].status = "working"
        PROVE  rows[r][u].lockedBy # w
    <2>1. rows[r][u].expires # None /\ rows[r][u].expires > now
      BY <1>1, <1>6, SweptQueue
    <2>2. ActiveUnits(rows[r], w, now) = {}
      BY DEF NextLease
    <2>. QED  BY <1>6, <2>1, <2>2 DEF ActiveUnits
  <1>7. ASSUME NEW x \in Runs, NEW u \in Units
        PROVE  units'[x][u] = IF x = r /\ u \in batch
                              THEN Leased(t, now + LeaseTime) ELSE rows[x][u]
    BY <1>1, <1>2 DEF Swept
  <1>8. LeaseOf(r, w, now, batch)
    BY <1>3, <1>4, <1>5, <1>6, <1>7 DEF LeaseOf
  <1> HIDE DEF r, w, now
  <1>. QED  BY <1>1, <1>3, <1>8

LEMMA LeaseQueue ==
    ASSUME QInv, IInv', UNCHANGED outputs, NEW r \in Runs, NEW w \in Workers,
           NEW now \in Nat, NEW batch \in SUBSET Units, LeaseOf(r, w, now, batch)
    PROVE  QInv'
  <1> DEFINE t == [run |-> r, worker |-> w, at |-> now, units |-> batch]
             rows == Swept(r, now)
             mine(x, u) == x = r /\ u \in batch
  <1>1. \A x \in Runs, u \in Units :
          /\ mine(x, u) => units'[x][u] = Leased(t, now + LeaseTime)
          /\ ~mine(x, u) => units'[x][u] = rows[x][u]
    BY DEF LeaseOf
  <1>2. /\ t # None
        /\ \A u \in Units : rows[r][u].status = "working" => rows[r][u].lockedBy # w
    BY DEF LeaseOf
  <1>3. \A x \in Runs, u \in Units :
          /\ QueueRow(rows[x][u], x, u)
          /\ rows[x][u].status = "working" => rows[x][u] = units[x][u]
    BY SweptQueue
  <1>4. /\ Leased(t, now + LeaseTime).status = "working"
        /\ Leased(t, now + LeaseTime).lockedBy = w
        /\ Leased(t, now + LeaseTime).token = t
    BY DEF Leased
  <1> HIDE DEF t, rows
  <1>5. QueueInv'
    <2> SUFFICES ASSUME NEW x \in Runs, NEW u \in Units
                 PROVE  QueueRow(units[x][u], x, u)'
      BY DEF QueueInv
    <2>1. QueueRow(units'[x][u], x, u)
      BY <1>1, <1>2, <1>3, <1>4 DEF QueueRow, Canonical
    <2>. QED  BY <2>1 DEF QueueRow, HasOutput
  <1>6. OneBatchPerWorker'
    <2> SUFFICES ASSUME NEW x \in Runs, NEW u \in Units, NEW v \in Units,
                        units'[x][u].status = "working",
                        units'[x][v].status = "working",
                        units'[x][u].lockedBy = units'[x][v].lockedBy
                 PROVE  units'[x][u].token = units'[x][v].token
      BY DEF OneBatchPerWorker
    <2>1. CASE mine(x, u) /\ mine(x, v)
      BY <2>1, <1>1
    <2>2. CASE ~mine(x, u) /\ ~mine(x, v)
      BY <2>2, <1>1, <1>3 DEF QInv, OneBatchPerWorker
    <2>3. CASE mine(x, u) /\ ~mine(x, v)
      BY <2>3, <1>1, <1>2, <1>4
    <2>4. CASE ~mine(x, u) /\ mine(x, v)
      BY <2>4, <1>1, <1>2, <1>4
    <2>. QED  BY <2>1, <2>2, <2>3, <2>4
  <1>. QED  BY <1>5, <1>6 DEF QInv

-----------------------------------------------------------------------------
\* A save: the batch is everything the worker holds in the run, nothing that
\* is stored is replaced, and the rows of the batch are completed.
SaveOf(r, w, batch) ==
    /\ batch = {u \in Units : /\ units[r][u].status = "working"
                              /\ units[r][u].lockedBy = w}
    /\ \A x \in Runs, u \in Units :
         units'[x][u] = IF x = r /\ u \in batch THEN Unleased("completed")
                                                ELSE units[x][u]
    /\ \A o \in outputs' \ outputs : o.run = r /\ o.unit \in batch /\ o.worker = w
    /\ outputs \subseteq outputs'
    /\ \A u \in batch : \E o \in outputs' :
         o.run = r /\ o.unit = u /\ o.worker = w

LEMMA SaveStep ==
    ASSUME QInv, NEW s \in Slots, NEW r \in Runs, NEW batch \in SUBSET Units,
           NEW answer \in Answers, SaveBatch(s, r, batch, answer)
    PROVE  calls[s].worker \in Workers /\ SaveOf(r, calls[s].worker, batch)
  <1> DEFINE w == calls[s].worker
             t == calls[s].token
             out(u) == [run |-> r, unit |-> u, worker |-> w, token |-> t,
                        answer |-> answer]
             new == {out(u) : u \in batch}
  <1>1. w \in Workers /\ t \in Tokens /\ t # None
    BY CallTypes, CatalogWorkConstants
       DEF SaveBatch, QInv, IInv, CatalogWorkConstants
  <1>2. {r} \X batch = LeasedRows(w, t)
    BY DEF SaveBatch, Complete
  <1>3. ASSUME NEW u \in batch
        PROVE  /\ units[r][u].status = "working"
               /\ units[r][u].lockedBy = w
               /\ units[r][u].token = t
    <2>1. <<r, u>> \in LeasedRows(w, t)
      BY <1>2
    <2>. QED  BY <2>1 DEF LeasedRows
  <1>4. ASSUME NEW v \in Units, units[r][v].status = "working",
               units[r][v].lockedBy = w
        PROVE  v \in batch
    <2>1. PICK u \in batch : TRUE
      BY DEF SaveBatch
    <2>2. units[r][v].token = t
      BY <1>3, <1>4, <2>1 DEF QInv, OneBatchPerWorker
    <2>3. <<r, v>> \in LeasedRows(w, t)
      BY <1>4, <2>2 DEF LeasedRows
    <2>. QED  BY <1>2, <2>3
  <1>5. \A u \in batch : ~HasOutput(r, u)
    BY <1>1, <1>3 DEF QInv, IInv, LeasesInv, LeasedRowInv
  <1>6. outputs' = outputs \cup new
    <2>1. outputs' = Replace(new)
      BY DEF SaveBatch
    <2>2. \A o \in outputs, n \in new : ~(n.run = o.run /\ n.unit = o.unit)
      BY <1>5 DEF HasOutput
    <2>. HIDE DEF new
    <2>. QED  BY <2>1, <2>2 DEF Replace
  <1>7. \A x \in Runs, u \in Units :
          units'[x][u] = IF x = r /\ u \in batch THEN Unleased("completed")
                                                 ELSE units[x][u]
    BY DEF SaveBatch, Done, QInv, IInv, TypeOK
  <1>8. batch = {u \in Units : units[r][u].status = "working"
                                 /\ units[r][u].lockedBy = w}
    BY <1>3, <1>4
  <1>9. /\ \A o \in outputs' \ outputs : o.run = r /\ o.unit \in batch /\ o.worker = w
        /\ outputs \subseteq outputs'
        /\ \A u \in batch : out(u) \in outputs'
    BY <1>6
  <1>10. SaveOf(r, w, batch)
    BY <1>7, <1>8, <1>9 DEF SaveOf
  <1>. QED  BY <1>1, <1>10

LEMMA SaveQueue ==
    ASSUME QInv, IInv', NEW r \in Runs, NEW w \in Workers,
           NEW batch \in SUBSET Units, SaveOf(r, w, batch)
    PROVE  QInv'
  <1>1. \A x \in Runs, u \in Units : HasOutput(x, u) => HasOutput(x, u)'
    BY DEF HasOutput, SaveOf
  <1>2. \A u \in batch : HasOutput(r, u)'
    BY DEF HasOutput, SaveOf
  <1>3. /\ Unleased("completed").status = "completed"
        /\ Unleased("completed").token = None
    BY DEF Unleased
  <1>4. \A x \in Runs, u \in Units :
          \/ units'[x][u] = Unleased("completed") /\ HasOutput(x, u)'
          \/ units'[x][u] = units[x][u]
    BY <1>2 DEF SaveOf
  <1>5. QueueInv'
    BY <1>1, <1>3, <1>4 DEF QInv, QueueInv, QueueRow, Canonical
  <1>6. OneBatchPerWorker'
    BY <1>3, <1>4 DEF QInv, OneBatchPerWorker
  <1>. QED  BY <1>5, <1>6 DEF QInv

-----------------------------------------------------------------------------
\* What a step does to the rows and the outputs, seen from the abstract queue:
\* nothing, letting go of units, a lease, or a save.
LetsGo ==
    /\ UNCHANGED outputs
    /\ \A x \in Runs, u \in Units :
         units'[x][u].status = "working" => units'[x][u] = units[x][u]

Leases ==
    /\ UNCHANGED outputs
    /\ \E r \in Runs, w \in Workers, now \in Nat, batch \in SUBSET Units :
         LeaseOf(r, w, now, batch)

Saves ==
    \E r \in Runs, w \in Workers, batch \in SUBSET Units : SaveOf(r, w, batch)

LEMMA StartRunLetsGo ==
    ASSUME QInv, NEW r \in Runs, NEW seed \in SUBSET Units, StartRun(r, seed),
           UNCHANGED outputs
    PROVE  LetsGo
  BY DEF LetsGo, StartRun, Unleased, QInv, IInv, TypeOK

\* Without operator writes, every step keeps QInv and is one of these.
LEMMA Steps ==
    ASSUME OperatorStatuses = {}, QInv, IInv', [Next]_vars
    PROVE  QInv' /\ (UNCHANGED <<units, outputs>> \/ LetsGo \/ Leases \/ Saves)
  <1>1. ASSUME UNCHANGED <<units, outputs>> PROVE QInv'
    BY <1>1 DEF QInv, QueueInv, QueueRow, HasOutput, OneBatchPerWorker
  <1>2. ASSUME NEW s \in Slots, NEW w \in Workers, NEW i \in BOOLEAN,
               NextEnsure(s, w, i)
        PROVE  QInv' /\ (UNCHANGED <<units, outputs>> \/ LetsGo)
    <2>1. CASE UNCHANGED <<units, outputs>>
      BY <2>1, <1>1
    <2>2. CASE UNCHANGED outputs /\ \E seed \in Seeds : StartRun(DefaultRun, seed)
      BY <2>2, StartRunQueue, StartRunLetsGo, CatalogWorkConstants
         DEF CatalogWorkConstants
    <2>. QED  BY <1>2, <2>1, <2>2 DEF NextEnsure
  <1>3. ASSUME NEW s \in Slots, NextReplay(s) \/ NextNothing(s)
        PROVE  QInv' /\ LetsGo
    <2>1. /\ ActiveRun \in Runs /\ calls[s].now \in Nat
          /\ units' = Swept(ActiveRun, calls[s].now)
          /\ UNCHANGED outputs
      BY <1>3, CallTypes, ActiveRunIsRun DEF NextReplay, NextNothing, IInv, QInv
    <2>2. \A x \in Runs, u \in Units :
            /\ QueueRow(units'[x][u], x, u)
            /\ units'[x][u].status = "working" => units'[x][u] = units[x][u]
      BY <2>1, SweptQueue
    <2>3. \A x \in Runs, u \in Units : HasOutput(x, u) => HasOutput(x, u)'
      BY <2>1 DEF HasOutput
    <2>. QED  BY <2>1, <2>2, <2>3, FewerRows DEF LetsGo
  <1>4. ASSUME NEW s \in Slots, NextLease(s) PROVE QInv' /\ Leases
    <2>1. UNCHANGED outputs
      BY <1>4 DEF NextLease
    <2>. QED  BY <1>4, <2>1, LeaseStep, LeaseQueue DEF Leases
  <1>5. ASSUME NEW s \in Slots, NEW r \in Runs, NEW batch \in SUBSET Units,
               NEW answer \in Answers, SaveBatch(s, r, batch, answer)
        PROVE  QInv' /\ Saves
    BY <1>5, SaveStep, SaveQueue DEF Saves
  <1>6. ASSUME NEW s \in Slots, ReseedCommit(s) PROVE QInv' /\ LetsGo
    BY <1>6, CallTypes, StartRunQueue, StartRunLetsGo DEF ReseedCommit, QInv, IInv
  <1>. QED
    BY <1>1, <1>2, <1>3, <1>4, <1>5, <1>6
       DEF Next, NextCall, SaveCall, ReseedCall, NextClock, CallFails, SaveClock,
           ReseedCheck, Tick, vars

LEMMA QueueInductive ==
    ASSUME OperatorStatuses = {}
    PROVE  Spec => []QInv
  <1>1. Init /\ IInv => QInv
    BY DEF Init, QInv, QueueInv, QueueRow, OneBatchPerWorker, Absent, Unleased,
           Canonical
  <1>2. QInv /\ IInv' /\ [Next]_vars => QInv'
    BY Steps
  <1>. QED  BY <1>1, <1>2, Inductive, PTL DEF Spec

\* The live rows of a worker in one run carry one handle (OneBatchPerWorker):
\* catalog.work.next never meets "inconsistent lease tokens" unless an operator
\* moved a status by hand.
THEOREM OneBatchIsReplayed ==
    ASSUME OperatorStatuses = {}
    PROVE  Spec => []OneBatchPerWorker
  BY QueueInductive, PTL DEF QInv

\* A completed unit has an output and a unit being worked on has none
\* (CompletedWasSaved), unless an operator moved a status by hand.
THEOREM CompletedUnitsWereSaved ==
    ASSUME OperatorStatuses = {}
    PROVE  Spec => []CompletedWasSaved
  <1>1. QInv => CompletedWasSaved
    BY DEF QInv, IInv, QueueInv, QueueRow, LeasesInv, LeasedRowInv,
           CompletedWasSaved
  <1>. QED  BY <1>1, QueueInductive, PTL

-----------------------------------------------------------------------------
\* The refinement.

Held == [r \in Runs |-> [u \in Units |->
          IF units[r][u].status = "working" THEN units[r][u].lockedBy ELSE None]]

SavedUnits == {<<o.run, o.unit, o.worker>> : o \in outputs}

LEMMA LetsGoReleases ==
    ASSUME LetsGo
    PROVE  Ledger!Next
  <1>1. PICK drop \in SUBSET (Runs \X Units) :
          drop = {p \in Runs \X Units : units'[p[1]][p[2]].status # "working"}
    OBVIOUS
  <1>2. \A x \in Runs, u \in Units :
          <<x, u>> \in drop <=> units'[x][u].status # "working"
    BY <1>1
  <1>3. Held' = [x \in Runs |-> [u \in Units |->
                   IF <<x, u>> \in drop THEN None ELSE Held[x][u]]]
    BY <1>2 DEF LetsGo, Held
  <1>4. SavedUnits' = SavedUnits
    BY DEF LetsGo, SavedUnits
  <1>5. Ledger!Release(drop)
    BY <1>3, <1>4 DEF Ledger!Release, Ledger!Without, Held, SavedUnits
  <1>. QED  BY <1>5 DEF Ledger!Next

LEMMA LeasesGrant ==
    ASSUME QInv, Leases
    PROVE  Ledger!Next
  <1>1. PICK r \in Runs, w \in Workers, now \in Nat, batch \in SUBSET Units :
          LeaseOf(r, w, now, batch)
    BY DEF Leases
  <1> DEFINE t == [run |-> r, worker |-> w, at |-> now, units |-> batch]
             rows == Swept(r, now)
             drop == {p \in Runs \X Units : rows[p[1]][p[2]].status # "working"}
             left == [x \in Runs |-> [u \in Units |->
                        IF <<x, u>> \in drop THEN None ELSE Held[x][u]]]
  <1>2. /\ w # None
        /\ \A u \in batch : rows[r][u].status = "queued" /\ ~HasOutput(r, u)
        /\ \A u \in Units : rows[r][u].status = "working" => rows[r][u].lockedBy # w
        /\ \A x \in Runs, u \in Units :
             units'[x][u] = IF x = r /\ u \in batch
                            THEN Leased(t, now + LeaseTime) ELSE rows[x][u]
    BY <1>1 DEF LeaseOf
  <1>3. Leased(t, now + LeaseTime).status = "working"
        /\ Leased(t, now + LeaseTime).lockedBy = w
    BY DEF Leased
  <1>4. \A x \in Runs, u \in Units :
          rows[x][u].status = "working" => rows[x][u] = units[x][u]
    BY SweptQueue
  <1> HIDE DEF rows, t
  <1>5. \A x \in Runs, u \in Units :
          left[x][u] = IF rows[x][u].status = "working" THEN rows[x][u].lockedBy
                                                        ELSE None
    BY <1>4 DEF Held
  <1>6. drop \in SUBSET (Runs \X Units)
    OBVIOUS
  <1>7. \A u \in Units : left[r][u] # w
    BY <1>2, <1>5
  <1>8. \A u \in batch : left[r][u] = None /\ ~Ledger!Saved(r, u)
    <2>1. ASSUME NEW u \in batch PROVE left[r][u] = None
      BY <1>2, <1>5
    <2>2. ASSUME NEW u \in batch PROVE ~Ledger!Saved(r, u)
      BY <1>2 DEF Ledger!Saved, HasOutput
    <2>. QED  BY <2>1, <2>2
  <1>9. Held' = [left EXCEPT ![r] = [u \in Units |-> IF u \in batch THEN w
                                                                ELSE left[r][u]]]
    <2>1. ASSUME NEW x \in Runs, NEW u \in Units
          PROVE  Held'[x][u] = IF x = r /\ u \in batch THEN w ELSE left[x][u]
      BY <1>2, <1>3, <1>5 DEF Held
    <2>2. Held' = [x \in Runs |-> [u \in Units |-> Held'[x][u]]]
      BY DEF Held
    <2>3. left = [x \in Runs |-> [u \in Units |-> left[x][u]]]
      OBVIOUS
    <2>. HIDE DEF left
    <2>. QED  BY <2>1, <2>2, <2>3
  <1>10. SavedUnits' = SavedUnits
    BY DEF Leases, SavedUnits
  <1>11. Ledger!Grant(drop, r, w, batch)
    <2>. HIDE DEF drop
    <2>. QED  BY <1>7, <1>8, <1>9, <1>10
              DEF Ledger!Grant, Ledger!Without, Held, SavedUnits
  <1>. HIDE DEF drop
  <1>. QED  BY <1>6, <1>11 DEF Ledger!Next

LEMMA SavesSaveAll ==
    ASSUME QInv, Saves
    PROVE  Ledger!Next
  <1>1. PICK r \in Runs, w \in Workers, batch \in SUBSET Units : SaveOf(r, w, batch)
    BY DEF Saves
  <1>2. w # None
    BY CatalogWorkConstants DEF CatalogWorkConstants
  <1>3. batch = {u \in Units : Held[r][u] = w}
    BY <1>1, <1>2 DEF SaveOf, Held
  <1>4. Held' = [x \in Runs |-> [u \in Units |->
                   IF <<x, u>> \in {r} \X batch THEN None ELSE Held[x][u]]]
    <2>1. Unleased("completed").status # "working"
      BY DEF Unleased
    <2>2. \A x \in Runs, u \in Units : <<x, u>> \in {r} \X batch
                                         <=> x = r /\ u \in batch
      OBVIOUS
    <2>. QED  BY <1>1, <2>1, <2>2 DEF SaveOf, Held
  <1>5. SavedUnits' = SavedUnits \cup {<<r, u, w>> : u \in batch}
    <2>1. \A o \in outputs' \ outputs :
            <<o.run, o.unit, o.worker>> \in {<<r, u, w>> : u \in batch}
      BY <1>1 DEF SaveOf
    <2>2. \A u \in batch : <<r, u, w>> \in SavedUnits'
      BY <1>1 DEF SaveOf, SavedUnits
    <2>3. outputs \subseteq outputs'
      BY <1>1 DEF SaveOf
    <2>. QED  BY <2>1, <2>2, <2>3 DEF SavedUnits
  <1>6. Ledger!SaveAll(r, w)
    BY <1>3, <1>4, <1>5 DEF Ledger!SaveAll, Ledger!Without, Held, SavedUnits
  <1>. QED  BY <1>6 DEF Ledger!Next

\* The work queue implements BatchLedger (KeepsLedger): whatever the clocks read,
\* the calls that fail, the repeated requests and the restarts of runs, units are
\* handed out to one worker at a time and saved once, a whole batch at a time.
THEOREM ImplementsLedger ==
    ASSUME OperatorStatuses = {}
    PROVE  Spec => KeepsLedger
  <1>1. Init => Ledger!Init
    BY DEF Init, Ledger!Init, Absent, Unleased
  <1>2. QInv /\ IInv' /\ [Next]_vars => [Ledger!Next]_Ledger!vars
    <2> SUFFICES ASSUME QInv, IInv', [Next]_vars
                 PROVE  Ledger!Next \/ UNCHANGED Ledger!vars
      OBVIOUS
    <2>1. CASE UNCHANGED <<units, outputs>>
      BY <2>1 DEF Ledger!vars
    <2>2. CASE LetsGo \/ Leases \/ Saves
      BY <2>2, LetsGoReleases, LeasesGrant, SavesSaveAll
    <2>. QED  BY <2>1, <2>2, Steps
  <1>. QED
    BY <1>1, <1>2, QueueInductive, Inductive, PTL DEF Spec, KeepsLedger, Ledger!Spec
=============================================================================
