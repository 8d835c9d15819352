--------------------------- MODULE LinterRuleEditor ---------------------------
(***************************************************************************)
(* The linter rule editor: linter.rule.next leases a quarantined           *)
(* candidate, linter.rule.merge_canonical and linter.rule.reject_invalid   *)
(* dispose of it, linter.rule.rollback reverts the commit of a disposition *)
(* (mcp/linter_rule_editor.py, with the snapshot export of                 *)
(* mcp/linter_quarantine.py).                                              *)
(*                                                                         *)
(* A disposition spans three stores: the SQLite file, the snapshot files   *)
(* derived from it (quarantine manifest and review coverage, written       *)
(* together, here one function) and git.  When a step fails the code writes *)
(* the bytes it saved earlier back over the files.  Each store is touched  *)
(* by a step of its own; other dispositions, calls of the other tools, the *)
(* operator and a crash come in between.                                   *)
(*                                                                         *)
(* Every connection is in WAL mode: a transaction is written to the -wal   *)
(* file, and folded into the database file when the last connection closes. *)
(* SQLite reads the frames of the -wal over the bytes of the file; backup, *)
(* restore and git know the file alone.  A table is in the -wal as a whole *)
(* or not at all.  Two equal contents stand for equal bytes.               *)
(*                                                                         *)
(* Beyond this model: what a connection still has in its page cache when   *)
(* the file is written under it, the checkpoint SQLite does on its own at a *)
(* thousand pages of -wal, and the file written while a transaction is open *)
(* (such a step waits here for the transaction to end).                    *)
(*                                                                         *)
(* A definition named X_..., next to a definition X, is a slip in X that   *)
(* one of the properties catches; Next uses none of them.                  *)
(***************************************************************************)
EXTENDS Naturals, Sequences, FiniteSets

CONSTANTS
    Candidates,       \* candidate ids, numbered in the order of the queue
    Requests,         \* what next asks for: a mode and a family filter
    Matches,          \* the candidates of the family a request filters on
    Workers,          \* worker ids
    Dispositions,     \* the statuses dispositions write
    Slots,            \* dispositions in flight at one time
    Tools,            \* other calls that have the database open for a while
    Checkouts,        \* may .gitignore name the SQLite file, as the repository's does?
    MayFail,          \* git or SQLite may fail for reasons of their own
    RollsBack,        \* linter.rule.rollback is called
    LeaseTime,        \* EDITOR_LEASE_SECONDS, in clock ticks
    MaxTime,          \* bound on the clock
    MaxCommits,       \* bound on the length of the history
    None              \* SQL NULL, no file, nothing staged

Records == [status : {"open"} \cup Dispositions, stamped : BOOLEAN]
Tables == [Candidates -> Records]
Leases == [cand : Candidates, worker : Workers, request : Requests, at : Nat]

ASSUME LinterRuleEditorConstants ==
    /\ Candidates \subseteq Nat /\ IsFiniteSet(Candidates)
    /\ Matches \in [Requests -> SUBSET Candidates]
    /\ Dispositions \subseteq {"implemented", "rejected"}
    /\ Checkouts \subseteq BOOLEAN
    /\ {MayFail, RollsBack} \subseteq BOOLEAN
    /\ LeaseTime \in Nat \ {0} /\ MaxTime \in Nat /\ MaxCommits \in Nat
    /\ None \notin Candidates \cup Slots \cup Leases

VARIABLES
    clock,      \* datetime.now(UTC)
    records,    \* linter_quarantine_records: status and "commit hash filled in"
    leases,     \* active rows of linter_rule_editor_leases, by candidate
    disk,       \* both tables as the database file has them without the -wal
    frames,     \* the tables of which the -wal has frames
    tools,      \* the other calls that have the database open
    snapshot,   \* the records as exported to the snapshot files
    staged,     \* the tree in git's index when it differs from HEAD, or None
    history,    \* the commits of the branch: [tree, cand]
    lock,       \* the call that has a write transaction open
    calls,      \* the dispositions in flight
    held,       \* history: the leases workers were given
    receipts,   \* candidates with a "committed" receipt that was not rolled back
    clobbered   \* history: the file was written over frames, or over what others
                \* wrote, or taken for what SQLite holds when it was not

file == <<disk, frames>>
stores == <<records, leases, file, snapshot>>
git == <<staged, history>>
given == <<held, receipts>>
vars == <<clock, stores, tools, git, lock, calls, given, clobbered>>

-----------------------------------------------------------------------------
\* The database file.

\* A connection that wrote the tables ts closes (after lock' and the tables have
\* their values).
Closes(ts) ==
    IF tools' = {} /\ lock' = None
    THEN disk' = [records |-> records', leases |-> leases'] /\ frames' = {}
    ELSE frames' = frames \cup ts /\ UNCHANGED disk

\* What is read when the bytes b are put under the -wal.
Under(b) ==
    /\ disk' = b /\ UNCHANGED frames
    /\ records' = IF "records" \in frames THEN records ELSE b.records
    /\ leases' = IF "leases" \in frames THEN leases ELSE b.leases

\* Another call opens the database, as linter.rule.status does for its reads; it
\* closes it, or dies and leaves the -wal where it is.
OpenDb(t) ==
    /\ t \notin tools /\ tools' = tools \cup {t}
    /\ UNCHANGED <<clock, stores, git, lock, calls, given, clobbered>>

CloseDb(t) ==
    /\ t \in tools /\ tools' = tools \ {t}
    /\ UNCHANGED <<clock, records, leases, snapshot, git, lock, calls, given, clobbered>>
    /\ Closes({})

KillTool(t) ==
    /\ t \in tools /\ tools' = tools \ {t}
    /\ UNCHANGED <<clock, stores, git, lock, calls, given, clobbered>>

-----------------------------------------------------------------------------
\* Git.

\* Git tracks the database from the first commit on, or never.
DatabaseIgnored == history[1].tree.db = None

Database == IF DatabaseIgnored THEN None ELSE disk
Tree == [db |-> Database, snapshot |-> snapshot]
HeadCommit == history[Len(history)]

\* git takes the file for what SQLite holds.
Misread == ~DatabaseIgnored /\ disk.records # records

\* _require_clean_git_worktree: git status names no path.
Clean == staged = None /\ Tree = HeadCommit.tree

-----------------------------------------------------------------------------
\* linter.rule.next.  Its clock is read before its transaction gets the write
\* lock, so now may be long past.

\* _expire_stale_leases
Swept(now) ==
    [c \in Candidates |->
        IF leases[c] # None /\ leases[c].at + LeaseTime <= now
        THEN None ELSE leases[c]]

\* _active_worker_lease
Own_NotNearExpiry(w, q, now) ==
    {c \in Candidates : /\ Swept(now)[c] # None
                        /\ Swept(now)[c].worker = w /\ Swept(now)[c].request = q
                        /\ Swept(now)[c].at + LeaseTime > now + 1}

Own(w, q, now) ==
    {c \in Candidates : /\ Swept(now)[c] # None
                        /\ Swept(now)[c].worker = w /\ Swept(now)[c].request = q}

\* _select_next_candidate: of these, the first in the order of the queue.
Free(q, now) ==
    {c \in Matches[q] : Swept(now)[c] = None /\ records[c].status = "open"}

NextRule(w, q, now) ==
    /\ lock = None /\ now <= clock
    /\ UNCHANGED <<clock, records, snapshot, tools, git, lock, calls, receipts, clobbered>>
    /\ \/ Own(w, q, now) # {} /\ leases' = Swept(now) /\ UNCHANGED held
       \/ /\ Own(w, q, now) = {}
          /\ \E c \in Free(q, now) :
               LET lease == [cand |-> c, worker |-> w, request |-> q, at |-> now]
               IN  /\ \A d \in Free(q, now) : c <= d
                   /\ leases' = [Swept(now) EXCEPT ![c] = lease]
                   /\ held' = held \cup {lease}
       \/ /\ Own(w, q, now) = {} /\ Free(q, now) = {}
          /\ leases' = Swept(now) /\ UNCHANGED held
    /\ Closes(IF leases' = leases THEN {} ELSE {"leases"})

\* linter.rule.status expires stale leases too.
Status(now) ==
    /\ lock = None /\ now <= clock
    /\ leases' = Swept(now)
    /\ UNCHANGED <<clock, records, snapshot, tools, git, lock, calls, given, clobbered>>
    /\ Closes(IF leases' = leases THEN {} ELSE {"leases"})

-----------------------------------------------------------------------------
\* A disposition, step by step (_apply_disposition).

IdleCall == [at |-> "idle"]

LaterSteps == {"backedUp", "writing", "written", "added", "committed", "stamping",
               "stamped", "readded", "failed", "restored"}

Goto(s, step) == calls' = [calls EXCEPT ![s].at = step]

\* The calls when s has written to a store: what the others backed up is stale.
Overtaken(s) ==
    [t \in Slots |-> IF t # s /\ calls[t].at \in LaterSteps
                     THEN [calls[t] EXCEPT !.stale = TRUE] ELSE calls[t]]
Wrote(s, step) == calls' = [Overtaken(s) EXCEPT ![s].at = step]

\* _validate_lease; nothing checks the lease again after this.
ValidateLease(s, c, d) ==
    /\ calls[s] = IdleCall
    /\ leases[c] # None /\ leases[c].at + LeaseTime > clock
    /\ calls' = [calls EXCEPT ![s] = [at |-> "validated", lease |-> leases[c], as |-> d]]
    /\ UNCHANGED <<clock, records, leases, snapshot, tools, git, lock, given, clobbered>>
    /\ Closes({})

\* _require_clean_git_worktree; a dirty worktree refuses the call (Refused).
CheckClean(s) ==
    /\ calls[s].at = "validated" /\ Clean
    /\ Goto(s, "clean")
    /\ UNCHANGED <<clock, stores, tools, git, lock, given, clobbered>>

Refused(s) ==
    /\ calls[s].at = "validated" /\ ~Clean
    /\ calls' = [calls EXCEPT ![s] = IdleCall]
    /\ UNCHANGED <<clock, stores, tools, git, lock, given, clobbered>>

\* _file_backups: the bytes of the database file, without its -wal, and of the
\* snapshot files.
BackUp(s) ==
    /\ calls[s].at = "clean"
    /\ calls' = [calls EXCEPT ![s] =
                   [at |-> "backedUp", lease |-> @.lease, as |-> @.as, db |-> disk,
                    snapshot |-> snapshot, stale |-> disk.records # records]]
    /\ UNCHANGED <<clock, stores, tools, git, lock, given, clobbered>>

\* The rows as a transaction of the call leaves them: the disposition, then (in
\* _stamp_commit_hash_and_amend) the commit hash.
Disposed(s) ==
    [records EXCEPT ![calls[s].lease.cand] =
        IF calls[s].at \in {"backedUp", "writing"}
        THEN [status |-> calls[s].as, stamped |-> FALSE]
        ELSE [@ EXCEPT !.stamped = TRUE]]

\* BEGIN IMMEDIATE, the UPDATE, and the snapshot files written before the commit.
BeginWrite_ExportsOnStampOnly(s) ==
    /\ lock = None /\ lock' = s
    /\ \/ /\ calls[s].at = "backedUp" /\ UNCHANGED snapshot
          /\ Wrote(s, "writing")
       \/ /\ calls[s].at = "committed" /\ snapshot' = Disposed(s)
          /\ Wrote(s, "stamping")
    /\ UNCHANGED <<clock, records, leases, file, tools, git, given, clobbered>>

BeginWrite(s) ==
    /\ lock = None /\ lock' = s
    /\ \/ calls[s].at = "backedUp" /\ Wrote(s, "writing")
       \/ calls[s].at = "committed" /\ Wrote(s, "stamping")
    /\ snapshot' = Disposed(s)
    /\ UNCHANGED <<clock, records, leases, file, tools, git, given, clobbered>>

\* The commit and the close.
CommitWrite_NeverCommits(s) ==
    /\ lock = s /\ lock' = None
    /\ \/ calls[s].at = "writing" /\ Goto(s, "written")
       \/ calls[s].at = "stamping" /\ Goto(s, "stamped")
    /\ UNCHANGED <<clock, records, leases, snapshot, tools, git, given, clobbered>>
    /\ Closes({})

CommitWrite(s) ==
    /\ lock = s /\ lock' = None
    /\ records' = Disposed(s)
    /\ \/ calls[s].at = "writing" /\ Wrote(s, "written")
       \/ calls[s].at = "stamping" /\ Wrote(s, "stamped")
    /\ UNCHANGED <<clock, leases, snapshot, tools, git, given, clobbered>>
    /\ Closes({"records"})

\* git add of the database file and the snapshot files.  A disposition writes the
\* time of the review, so there always is something to stage.  git stages what it
\* can, and fails if .gitignore names one of the paths.
GitAdd(s) ==
    /\ \/ calls[s].at = "written" /\ Goto(s, IF DatabaseIgnored THEN "failed" ELSE "added")
       \/ calls[s].at = "stamped" /\ Goto(s, IF DatabaseIgnored THEN "failed" ELSE "readded")
    /\ staged' = Tree /\ clobbered' = (clobbered \/ Misread)
    /\ UNCHANGED <<clock, stores, tools, history, lock, given>>

GitCommit(s) ==
    /\ calls[s].at = "added" /\ staged # None /\ Len(history) < MaxCommits
    /\ history' = Append(history, [tree |-> staged, cand |-> calls[s].lease.cand])
    /\ staged' = None
    /\ Goto(s, "committed")
    /\ UNCHANGED <<clock, stores, tools, lock, given, clobbered>>

\* git commit --amend replaces whatever commit is HEAD; then the receipt.
Amend(s) ==
    /\ calls[s].at = "readded"
    /\ history' = IF staged = None THEN history
                  ELSE [history EXCEPT ![Len(history)].tree = staged]
    /\ staged' = None
    /\ calls' = [calls EXCEPT ![s] = IdleCall]
    /\ receipts' = receipts \cup {calls[s].lease.cand}
    /\ UNCHANGED <<clock, stores, tools, lock, held, clobbered>>

-----------------------------------------------------------------------------
\* Failure.

\* A git command fails: a hook, a timeout, a whitespace error, another process
\* that holds the index or has committed what was staged.  SQLite fails: the lock
\* is not had in time, the disk is full; an open transaction is rolled back.
Fails(s) ==
    /\ MayFail \/ (calls[s].at = "added" /\ staged = None)
    /\ calls[s].at \in LaterSteps \ {"failed", "restored"}
    /\ Goto(s, "failed")
    /\ lock' = IF lock = s THEN None ELSE lock
    /\ UNCHANGED <<clock, records, leases, snapshot, tools, git, given, clobbered>>
    /\ IF lock = s THEN Closes({}) ELSE UNCHANGED file

\* _restore_file_backups: the database file first, then the snapshot files.  The
\* -wal is left as it is.
RestoreDatabase(s) ==
    /\ calls[s].at = "failed" /\ lock = None
    /\ Under(calls[s].db)
    /\ Wrote(s, "restored")
    /\ clobbered' = (clobbered \/ "records" \in frames \/ calls[s].stale)
    /\ UNCHANGED <<clock, snapshot, tools, git, lock, given>>

RestoreSnapshot(s) ==
    /\ calls[s].at = "restored"
    /\ snapshot' = calls[s].snapshot
    /\ calls' = [Overtaken(s) EXCEPT ![s] = IdleCall]
    /\ clobbered' = (clobbered \/ calls[s].stale)
    /\ UNCHANGED <<clock, records, leases, file, tools, git, lock, given>>

\* The process dies: its transaction is rolled back, nothing else is.
Crash(s) ==
    /\ calls[s] # IdleCall
    /\ calls' = [calls EXCEPT ![s] = IdleCall]
    /\ lock' = IF lock = s THEN None ELSE lock
    /\ UNCHANGED <<clock, stores, tools, git, given, clobbered>>

-----------------------------------------------------------------------------
\* linter.rule.rollback: git revert of the last disposition.  (An older one
\* conflicts, the database being binary, and is left to the operator.  A database
\* file replaced under an open connection is beyond this model.)  It takes the
\* slot of a call, in one step.
Rollback ==
    /\ RollsBack /\ lock = None /\ tools = {} /\ Clean
    /\ \E s \in Slots : calls[s] = IdleCall
    /\ HeadCommit.cand # None /\ Len(history) < MaxCommits
    /\ LET parent == history[Len(history) - 1].tree
       IN  /\ history' = Append(history, [tree |-> parent, cand |-> None])
           /\ snapshot' = parent.snapshot
           /\ IF DatabaseIgnored THEN UNCHANGED <<records, leases, file>>
              ELSE Under(parent.db)
    /\ receipts' = receipts \ {HeadCommit.cand}
    /\ calls' = Overtaken(None)
    /\ clobbered' = (clobbered \/ "records" \in frames
                       \/ \E s \in Slots : calls[s].at \in LaterSteps)
    /\ UNCHANGED <<clock, tools, staged, lock, held>>

\* The operator, between calls, commits what lies in the worktree or empties the
\* index.
Quiet == \A s \in Slots : calls[s] = IdleCall

OperatorCommits ==
    /\ Quiet /\ ~Clean /\ Len(history) < MaxCommits
    /\ history' = IF Tree = HeadCommit.tree THEN history
                  ELSE Append(history, [tree |-> Tree, cand |-> None])
    /\ staged' = None /\ clobbered' = (clobbered \/ Misread)
    /\ UNCHANGED <<clock, stores, tools, lock, calls, given>>

OperatorResets ==
    /\ Quiet /\ staged # None /\ staged' = None
    /\ UNCHANGED <<clock, stores, tools, history, lock, calls, given, clobbered>>

Tick ==
    /\ clock < MaxTime /\ clock' = clock + 1
    /\ UNCHANGED <<stores, tools, git, lock, calls, given, clobbered>>

-----------------------------------------------------------------------------
Init ==
    /\ clock = 0
    /\ records = [c \in Candidates |-> [status |-> "open", stamped |-> FALSE]]
    /\ leases = [c \in Candidates |-> None]
    /\ disk = [records |-> records, leases |-> leases] /\ frames = {} /\ tools = {}
    /\ snapshot = records
    /\ staged = None
    /\ \E ignored \in Checkouts :
         history = <<[tree |-> [db |-> IF ignored THEN None ELSE disk,
                                snapshot |-> snapshot],
                      cand |-> None]>>
    /\ lock = None
    /\ calls = [s \in Slots |-> IdleCall]
    /\ held = {} /\ receipts = {} /\ clobbered = FALSE

ApplyDisposition(s) ==
    \/ \E c \in Candidates, d \in Dispositions : ValidateLease(s, c, d)
    \/ CheckClean(s) \/ Refused(s) \/ BackUp(s) \/ BeginWrite(s) \/ CommitWrite(s)
    \/ GitAdd(s) \/ GitCommit(s) \/ Amend(s)
    \/ Fails(s) \/ RestoreDatabase(s) \/ RestoreSnapshot(s) \/ Crash(s)

Next ==
    \/ \E w \in Workers, q \in Requests, now \in 0 .. clock : NextRule(w, q, now)
    \/ \E now \in 0 .. clock : Status(now)
    \/ \E t \in Tools : OpenDb(t) \/ CloseDb(t) \/ KillTool(t)
    \/ \E s \in Slots : ApplyDisposition(s)
    \/ Rollback \/ OperatorCommits \/ OperatorResets \/ Tick

Spec == Init /\ [][Next]_vars

-----------------------------------------------------------------------------
\* Properties.

Live(l) == l # None /\ l.at + LeaseTime > clock

LeaseTables ==
    {t \in [Candidates -> Leases \cup {None}] :
        \A c \in Candidates : t[c] # None => t[c].cand = c}
Databases == [records : Tables, leases : LeaseTables]
Trees == [db : Databases \cup {None}, snapshot : Tables]
Commits == [tree : Trees, cand : Candidates \cup {None}]

BeforeBackUp ==
    [at : {"validated", "clean"}, lease : Leases, as : Dispositions]
AfterBackUp ==
    [at : LaterSteps, lease : Leases, as : Dispositions,
     db : Databases, snapshot : Tables, stale : BOOLEAN]

\* Every variable has its type, and a call that writes has the write lock.
TypeOK ==
    /\ clock \in 0 .. MaxTime
    /\ records \in Tables /\ leases \in LeaseTables /\ snapshot \in Tables
    /\ disk \in Databases /\ frames \subseteq {"records", "leases"} /\ tools \subseteq Tools
    /\ history \in Seq(Commits) /\ staged \in Trees \cup {None}
    /\ lock \in Slots \cup {None}
    /\ calls \in [Slots -> {IdleCall} \cup BeforeBackUp \cup AfterBackUp]
    /\ held \subseteq Leases /\ receipts \subseteq Candidates /\ clobbered \in BOOLEAN
    /\ \A s \in Slots : calls[s].at \in {"writing", "stamping"} <=> lock = s

\* What SQLite holds of dispositions is in the snapshot files, whatever step calls
\* crashed or failed at, and however they overlap: evidence is never in the
\* ignored database alone.  Until the code undoes too little or too much: the
\* database file restored under the -wal of an open connection, or a backup
\* restored over what another call wrote.
SnapshotCoversSQLite ==
    ~clobbered => \A c \in Candidates :
        records[c].status # "open" => snapshot[c].status # "open"

\* A worker that asks for the same mode and family again gets the lease it has:
\* it never holds two live ones, whatever clocks its calls read and whatever
\* bytes a failed disposition put back.
OneLeasePerRequest ==
    \A c, d \in Candidates :
        /\ Live(leases[c]) /\ Live(leases[d])
        /\ leases[c].worker = leases[d].worker
        /\ leases[c].request = leases[d].request
        => c = d

\* "The same worker replays its lease; another worker cannot take the same
\* candidate": no lease is given on a candidate while another worker was given
\* one that still runs.
LiveLeaseExclusive ==
    [][\A new \in held' \ held, old \in held :
         (new.cand = old.cand /\ Live(old)) => new.worker = old.worker]_vars

\* A candidate with a "committed" receipt is disposed of in SQLite for good,
\* unless its commit is rolled back: no failure of another call undoes it.  Until
\* a backup or a commit takes the file without its -wal for the database, a
\* backup is restored over what another call wrote, or a rollback comes between
\* the steps of a disposition.
ReceiptsHold ==
    ~clobbered => \A c \in receipts : records[c].status # "open"
=============================================================================
