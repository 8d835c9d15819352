----------------------------- MODULE CatalogWork -----------------------------
(***************************************************************************)
(* The catalog work queue: catalog.work.next / catalog.work.save           *)
(* (mcp/inactive_catalog_work.py), the command-line catalog reset          *)
(* (catalog/knowledge/__main__.py, catalog_quality_reset.py) and the       *)
(* operator's update_unit_status (mcp/catalog_mutation.py), all of them    *)
(* processes or threads sharing one SQLite file.                           *)
(*                                                                         *)
(* SQLite runs one write transaction at a time, so a transaction is one    *)
(* action.  What a call reads before it holds the write lock (the wall     *)
(* clock, the reset's "may I reseed?" query) is an earlier action: the     *)
(* busy timeout is 24 days, so any amount of other work fits in between.   *)
(*                                                                         *)
(* A definition named X_..., next to a definition X, is a slip in X that   *)
(* one of the properties catches; Next uses none of them.                  *)
(***************************************************************************)
EXTENDS Naturals, FiniteSets

CONSTANTS
    Runs,           \* run ids
    DefaultRun,     \* DEFAULT_CATALOG_RESET_RUN_ID
    LegacyRuns,     \* old default run ids present in the database at start
    Units,          \* catalog unit ids
    BatchUnits,     \* the units of type operation_batch
    Order,          \* priority_order: an injection from Units to Nat
    Seeds,          \* unit sets the raw-spec tables may yield
    Workers,        \* worker ids
    Answers,        \* semantic outputs (their sha256)
    Slots,          \* calls in flight at one time
    OperatorStatuses, \* statuses an operator writes with update_unit_status
    LeaseTime,      \* CATALOG_WORK_LEASE_SECONDS, in clock ticks
    MaxTime,        \* bound on the clock
    MaxReseeds,     \* bound on the number of (re)started runs
    None            \* SQL NULL

Canonical == {"queued", "working", "completed"}
Statuses == Canonical \cup {"failed"}    \* "failed" stands for any other text

Tokens == [run: Runs, worker: Workers, at: Nat, units: SUBSET Units]

ASSUME CatalogWorkConstants ==
    /\ DefaultRun \in Runs
    /\ LegacyRuns \subseteq Runs \ {DefaultRun}
    /\ \A r, x \in LegacyRuns : r = x
    /\ BatchUnits \subseteq Units
    /\ Order \in [Units -> Nat]
    /\ \A u, v \in Units : Order[u] = Order[v] => u = v
    /\ Seeds \subseteq SUBSET Units
    /\ OperatorStatuses \subseteq Statuses
    /\ LeaseTime \in Nat \ {0}
    /\ MaxTime \in Nat
    /\ MaxReseeds \in Nat
    /\ None \notin Nat
    /\ None \notin Workers
    /\ None \notin Tokens

VARIABLES
    clock,      \* datetime.now(UTC), common to every process
    runs,       \* catalog_runs.run_status
    units,      \* catalog_units: one row per run and unit
    outputs,    \* catalog_unit_outputs
    calls,      \* what each call in flight has read so far
    reseeds     \* how many runs were (re)started

vars == <<clock, runs, units, outputs, calls, reseeds>>

-----------------------------------------------------------------------------
\* Rows of catalog_units.

Unleased(status) ==
    [status |-> status, lockedBy |-> None, expires |-> None, token |-> None]

Absent == Unleased("absent")

Leased(t, expires) ==
    [status |-> "working", lockedBy |-> t.worker, expires |-> expires,
     token |-> t]

HasOutput(r, u) == \E o \in outputs : o.run = r /\ o.unit = u

Expired(row, now) == row.expires # None => row.expires <= now

-----------------------------------------------------------------------------
\* Runs.

HasActiveRun == \E r \in Runs : runs[r] = "active"

\* The code takes the newest active run; AtMostOneActiveRun makes it the only one.
ActiveRun == CHOOSE r \in Runs : runs[r] = "active"

DefaultRunIsCurrent ==
    /\ runs[DefaultRun] = "active"
    /\ \E u \in BatchUnits : units[DefaultRun][u] # Absent

\* Renaming an old default run raises: its UPDATE text starts with "# noqa",
\* which SQLite does not parse, and the transaction is rolled back.
LegacyMigrationFails ==
    /\ runs[DefaultRun] = "absent"
    /\ \E r \in LegacyRuns : runs[r] # "absent"

\* start_catalog_quality_reset_run_in_transaction: every other active run is
\* superseded, the rows of the seed are replaced by fresh queued rows.  Rows
\* outside the seed, and every output, stay.
StartRun_KeepsOthers(r, seed) ==
    /\ reseeds < MaxReseeds
    /\ reseeds' = reseeds + 1
    /\ runs' = [runs EXCEPT ![r] = "active"]
    /\ units' = [units EXCEPT ![r] =
                   [u \in Units |-> IF u \in seed THEN Unleased("queued")
                                                  ELSE units[r][u]]]

StartRun(r, seed) ==
    /\ reseeds < MaxReseeds
    /\ reseeds' = reseeds + 1
    /\ runs' = [x \in Runs |->
                  IF x = r THEN "active"
                  ELSE IF runs[x] = "active" THEN "superseded"
                  ELSE runs[x]]
    /\ units' = [units EXCEPT ![r] =
                   [u \in Units |-> IF u \in seed THEN Unleased("queued")
                                                  ELSE units[r][u]]]

-----------------------------------------------------------------------------
\* Calls in flight.

IdleCall == [op |-> "idle"]

Idle(s) == calls[s] = IdleCall

Return(s) == calls' = [calls EXCEPT ![s] = IdleCall]

-----------------------------------------------------------------------------
\* catalog.work.next

\* _ensure_active_reset_run_if_raw_specs_exist, a transaction of its own.
NextEnsure(s, w, initialize) ==
    /\ Idle(s)
    /\ calls' = [calls EXCEPT ![s] = [op |-> "ensured", worker |-> w]]
    /\ \/ DefaultRunIsCurrent /\ UNCHANGED <<runs, units, reseeds>>
       \/ /\ ~DefaultRunIsCurrent /\ ~LegacyMigrationFails
          /\ \/ ~initialize /\ HasActiveRun /\ UNCHANGED <<runs, units, reseeds>>
             \/ initialize /\ \E seed \in Seeds :
                  IF seed # {} THEN StartRun(DefaultRun, seed)
                  ELSE HasActiveRun /\ UNCHANGED <<runs, units, reseeds>>
    /\ UNCHANGED <<clock, outputs>>

\* The clock is read before BEGIN IMMEDIATE waits for the write lock.
NextClock(s) ==
    /\ calls[s].op = "ensured"
    /\ calls' = [calls EXCEPT ![s] =
                   [op |-> "next", worker |-> calls[s].worker, now |-> clock]]
    /\ UNCHANGED <<clock, runs, units, outputs, reseeds>>

\* _reclaim_expired_leases: every run, rows with an expiry only.
Reclaimed_BeforeExpiry(row, now) ==
    IF row.status = "working" THEN Unleased("queued") ELSE row

Reclaimed_Never(row, now) == row

Reclaimed(row, now) ==
    IF row.status = "working" /\ row.expires # None /\ Expired(row, now)
    THEN Unleased("queued") ELSE row

\* _repair_stranded_units, on one row of the active run.
Repaired_WithoutOutput(row, hasOutput) ==
    IF row.status \notin {"absent", "completed"}
    THEN Unleased("completed") ELSE row

Repaired(row, hasOutput) ==
    IF row.status \notin {"absent", "completed"} /\ hasOutput
    THEN Unleased("completed")
    ELSE IF row.status \notin Canonical \cup {"absent"} /\ ~hasOutput
    THEN Unleased("queued")
    ELSE row

\* The table after both, as the rest of the transaction sees it.
Swept_NotRepaired(r, now) ==
    [x \in Runs |-> [u \in Units |-> Reclaimed(units[x][u], now)]]

Swept(r, now) ==
    [x \in Runs |-> [u \in Units |->
       IF x = r THEN Repaired(Reclaimed(units[x][u], now), HasOutput(x, u))
                ELSE Reclaimed(units[x][u], now)]]

\* _active_units_for_worker, on the swept rows.
ActiveUnits_NotNearExpiry(rows, w, now) ==
    {u \in Units : /\ rows[u].status = "working"
                   /\ rows[u].lockedBy = w
                   /\ rows[u].expires # None
                   /\ rows[u].expires > now + 1}

ActiveUnits(rows, w, now) ==
    {u \in Units : /\ rows[u].status = "working"
                   /\ rows[u].lockedBy = w
                   /\ rows[u].expires # None
                   /\ rows[u].expires > now}

Queued(rows) == {u \in Units : rows[u].status = "queued"}

\* _select_payload_budget_units: a nonempty prefix of the queue in priority
\* order; how long a prefix depends on the payload sizes and on the budget.
Prefixes(queue) ==
    {{u \in queue : Order[u] <= Order[last]} : last \in queue}

\* The call replays the worker's live batch, ...
NextReplay(s) ==
    /\ calls[s].op = "next" /\ HasActiveRun
    /\ LET r == ActiveRun
           rows == Swept(r, calls[s].now)
           mine == ActiveUnits(rows[r], calls[s].worker, calls[s].now)
       IN /\ Cardinality({rows[r][u].token : u \in mine} \ {None}) = 1
          /\ units' = rows
    /\ Return(s)
    /\ UNCHANGED <<clock, runs, outputs, reseeds>>

\* ... or raises because the batch carries several handles, or the worker
\* process dies, or SQLite fails: the transaction is rolled back.
CallFails(s) ==
    /\ ~Idle(s)
    /\ Return(s)
    /\ UNCHANGED <<clock, runs, units, outputs, reseeds>>

\* ... or leases a new batch, ...
NextLease(s) ==
    /\ calls[s].op = "next" /\ HasActiveRun
    /\ LET r == ActiveRun
           w == calls[s].worker
           now == calls[s].now
           rows == Swept(r, now)
       IN /\ ActiveUnits(rows[r], w, now) = {}
          /\ \E batch \in Prefixes(Queued(rows[r])) :
               LET t == [run |-> r, worker |-> w, at |-> now, units |-> batch]
               IN units' = [rows EXCEPT ![r] =
                              [u \in Units |-> IF u \in batch
                                               THEN Leased(t, now + LeaseTime)
                                               ELSE rows[r][u]]]
    /\ Return(s)
    /\ UNCHANGED <<clock, runs, outputs, reseeds>>

\* ... or finds the queue empty and keeps what the sweep did.
NextNothing(s) ==
    /\ calls[s].op = "next" /\ HasActiveRun
    /\ LET r == ActiveRun
           rows == Swept(r, calls[s].now)
       IN /\ ActiveUnits(rows[r], calls[s].worker, calls[s].now) = {}
          /\ Queued(rows[r]) = {}
          /\ units' = rows
    /\ Return(s)
    /\ UNCHANGED <<clock, runs, outputs, reseeds>>

-----------------------------------------------------------------------------
\* catalog.work.save

\* The handles a row carries.  A handle hashes the clock reading it was made
\* at, so one that has left the table never returns to it, and a request that
\* starts with such a handle is rejected whatever happens.
Handles == {units[r][u].token : r \in Runs, u \in Units} \ {None}

\* Any worker id with any handle: a late or repeated request, or the handle
\* of somebody else.
SaveClock(s, w, t) ==
    /\ Idle(s) /\ HasActiveRun
    /\ calls' = [calls EXCEPT ![s] =
                   [op |-> "save", worker |-> w, token |-> t, now |-> clock]]
    /\ UNCHANGED <<clock, runs, units, outputs, reseeds>>

\* _leased_rows_for_save: the rows of every run under this worker and handle.
LeasedRows_AnyHandle(w, t) ==
    {p \in Runs \X Units : LET row == units[p[1]][p[2]]
                           IN row.status = "working" /\ row.lockedBy = w}

LeasedRows(w, t) ==
    {p \in Runs \X Units : LET row == units[p[1]][p[2]]
                           IN /\ row.status = "working"
                              /\ row.lockedBy = w
                              /\ row.token = t}

\* INSERT OR REPLACE on the key (run, unit, sha256).
Replace(new) ==
    {o \in outputs : ~\E n \in new : /\ n.run = o.run /\ n.unit = o.unit
                                     /\ n.answer = o.answer} \cup new

\* _reject_incomplete_batch_save: the saved units must be the leased ones, no
\* more and no fewer.
Complete_OrFewer(w, t, r, batch) == {r} \X batch \subseteq LeasedRows(w, t)

Complete(w, t, r, batch) == {r} \X batch = LeasedRows(w, t)

Done(row) == Unleased("completed")

\* Any other request is rejected, which leaves the tables alone (CallFails).
SaveBatch(s, r, batch, answer) ==
    /\ calls[s].op = "save"
    /\ batch # {}
    /\ LET w == calls[s].worker
           t == calls[s].token
           now == calls[s].now
       IN /\ Complete(w, t, r, batch)
          /\ \A u \in batch : ~Expired(units[r][u], now)
          /\ outputs' = Replace({[run |-> r, unit |-> u, worker |-> w,
                                  token |-> t, answer |-> answer] : u \in batch})
          /\ units' = [units EXCEPT ![r] =
                         [u \in Units |-> IF u \in batch
                                          THEN Done(units[r][u])
                                          ELSE units[r][u]]]
    /\ Return(s)
    /\ UNCHANGED <<clock, runs, reseeds>>

-----------------------------------------------------------------------------
\* The command-line reset and the operator.

\* _reset_payload reads the active run and its non-queued units outside any
\* transaction: with --reseed-active it goes on only over an untouched run.
ReseedCheck(s, r, seed) ==
    /\ Idle(s) /\ seed # {}
    /\ \A x \in Runs : runs[x] = "active" =>
         \A u \in Units : units[x][u].status \in {"absent", "queued"}
    /\ calls' = [calls EXCEPT ![s] = [op |-> "reseed", run |-> r, seed |-> seed]]
    /\ UNCHANGED <<clock, runs, units, outputs, reseeds>>

ReseedCommit(s) ==
    /\ calls[s].op = "reseed"
    /\ StartRun(calls[s].run, calls[s].seed)
    /\ Return(s)
    /\ UNCHANGED <<clock, outputs>>

\* catalog.modify update_unit_status: the status alone, the lease columns stay.
OperatorSetsStatus(r, u, status) ==
    /\ units[r][u] # Absent
    /\ units' = [units EXCEPT ![r][u].status = status]
    /\ UNCHANGED <<clock, runs, outputs, calls, reseeds>>

Tick ==
    /\ clock < MaxTime
    /\ clock' = clock + 1
    /\ UNCHANGED <<runs, units, outputs, calls, reseeds>>

-----------------------------------------------------------------------------
Init ==
    /\ clock = 0
    /\ runs = [r \in Runs |-> IF r \in LegacyRuns THEN "active" ELSE "absent"]
    /\ units = [r \in Runs |-> [u \in Units |->
                  IF r \in LegacyRuns THEN Unleased("queued") ELSE Absent]]
    /\ outputs = {}
    /\ calls = [s \in Slots |-> IdleCall]
    /\ reseeds = 0

NextCall(s) ==
    \/ \E w \in Workers, initialize \in BOOLEAN : NextEnsure(s, w, initialize)
    \/ NextClock(s)
    \/ NextReplay(s)
    \/ NextLease(s)
    \/ NextNothing(s)

SaveCall(s) ==
    \/ \E w \in Workers, t \in Handles : SaveClock(s, w, t)
    \/ \E r \in Runs, batch \in SUBSET Units, answer \in Answers :
         SaveBatch(s, r, batch, answer)

ReseedCall(s) ==
    \/ \E r \in Runs, seed \in Seeds : ReseedCheck(s, r, seed)
    \/ ReseedCommit(s)

Next ==
    \/ \E s \in Slots : NextCall(s) \/ SaveCall(s) \/ ReseedCall(s) \/ CallFails(s)
    \/ \E r \in Runs, u \in Units, status \in OperatorStatuses :
         OperatorSetsStatus(r, u, status)
    \/ Tick

Spec == Init /\ [][Next]_vars

-----------------------------------------------------------------------------
\* Properties.

Rows ==
    [status: Statuses \cup {"absent"}, lockedBy: Workers \cup {None},
     expires: Nat \cup {None}, token: Tokens \cup {None}]

OutputRows ==
    [run: Runs, unit: Units, worker: Workers, token: Tokens, answer: Answers]

Calls ==
    {IdleCall}
    \cup [op: {"ensured"}, worker: Workers]
    \cup [op: {"next"}, worker: Workers, now: Nat]
    \cup [op: {"save"}, worker: Workers, token: Tokens, now: Nat]
    \cup [op: {"reseed"}, run: Runs, seed: SUBSET Units]

\* The type invariant.
TypeOK ==
    /\ clock \in Nat
    /\ runs \in [Runs -> {"absent", "active", "superseded"}]
    /\ units \in [Runs -> [Units -> Rows]]
    /\ outputs \subseteq OutputRows
    /\ calls \in [Slots -> Calls]
    /\ reseeds \in Nat

\* At most one run is active, so "the newest active run" is unambiguous and
\* every worker leases from the same queue, whoever started the last run.
AtMostOneActiveRun ==
    \A r, x \in Runs : runs[r] = "active" /\ runs[x] = "active" => r = x

\* No unit of a run is ever saved twice: not by a worker whose lease expired
\* and was given to another, not after the run was started afresh, and not
\* through any status an operator writes.
SavedOnce ==
    \A o, p \in outputs : o.run = p.run /\ o.unit = p.unit => o = p

\* What is stored was leased: the output names a handle that was made for
\* that very worker, for that run, for a batch with that unit.
SavedUnderOwnLease ==
    \A o \in outputs : /\ o.token.run = o.run
                       /\ o.token.worker = o.worker
                       /\ o.unit \in o.token.units

\* "One active batch is replayed per worker": the live rows of a worker in one
\* run carry one handle, so the replay never raises "inconsistent lease tokens".
\* Only where no operator moves statuses by hand.
OneBatchPerWorker ==
    \A r \in Runs, u, v \in Units :
        /\ units[r][u].status = "working"
        /\ units[r][v].status = "working"
        /\ units[r][u].lockedBy = units[r][v].lockedBy
        => units[r][u].token = units[r][v].token

\* The progress counters are honest: a unit counts as completed exactly when
\* a semantic output of it is stored (a restarted run may hold queued rows of
\* saved units until the next sweep).  Only without operator writes.
CompletedWasSaved ==
    \A r \in Runs, u \in Units :
        /\ units[r][u].status = "completed" => HasOutput(r, u)
        /\ units[r][u].status = "working" => ~HasOutput(r, u)

\* The queue keeps the promise of BatchLedger: a row is held by the worker that
\* locked it while its status is "working", and saved once an output is stored.
Ledger == INSTANCE BatchLedger WITH
    held <- [r \in Runs |-> [u \in Units |->
               IF units[r][u].status = "working" THEN units[r][u].lockedBy
                                                 ELSE None]],
    saved <- {<<o.run, o.unit, o.worker>> : o \in outputs}

KeepsLedger == Ledger!Spec

\* "Full leased batches must be saved atomically": when a save stores an output
\* under a handle, no row is left working under that handle.
SaveDrainsBatch ==
    [][\A o \in outputs' \ outputs : \A r \in Runs, u \in Units :
         units'[r][u].status = "working" => units'[r][u].token # o.token]_vars

\* A lease holds until it is saved or expires: a row leaves the hands of a
\* worker whose lease is live on the wall clock only because an output of it is
\* stored under that lease, or because a run was started afresh.
LeaseHonoured ==
    [][\A r \in Runs, u \in Units :
         LET row == units[r][u]
         IN  /\ row.status = "working" /\ ~Expired(row, clock)
             /\ units'[r][u] # row
             => \/ reseeds' # reseeds
                \/ \E o \in outputs' \ outputs :
                     o.run = r /\ o.unit = u /\ o.token = row.token]_vars

\* "Refusing to reseed an active catalog run after units were leased or saved":
\* the command-line reset replaces no row that is being worked on or is done.
ReseedSparesStartedWork ==
    [][\A s \in Slots : calls[s].op = "reseed" /\ reseeds' # reseeds =>
         \A r \in Runs, u \in Units :
            runs[r] = "active" => units[r][u].status \in {"absent", "queued"}]_vars
=============================================================================
