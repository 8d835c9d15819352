------------------------ MODULE LinterRuleEditorProofs ------------------------
(***************************************************************************)
(* Proofs about LinterRuleEditor, for any candidates, workers, requests    *)
(* and bounds.                                                             *)
(***************************************************************************)
EXTENDS LinterRuleEditor, TLAPS

-----------------------------------------------------------------------------
\* What holds of the history and of the steps of a call besides the types.

Committed == {"committed", "stamping", "stamped", "readded"}

Fits ==
    /\ history # <<>> /\ history[1].cand = None
    /\ \A s \in Slots :
         /\ calls[s].at \in Committed \cup {"added"} => ~DatabaseIgnored
         /\ calls[s].at \in Committed => Len(history) >= 2
    /\ ~DatabaseIgnored =>
         /\ \A i \in 1 .. Len(history) : history[i].tree.db \in Databases
         /\ staged # None => staged.db \in Databases

Base == TypeOK /\ Fits

Calls == {IdleCall} \cup BeforeBackUp \cup AfterBackUp

-----------------------------------------------------------------------------
\* Lemmas on the operators of the model.

\* The fields a call has are those of the step it is at.
LEMMA CallAt ==
    ASSUME NEW call \in Calls
    PROVE  /\ call.at = "idle" <=> call = IdleCall
           /\ call.at \in {"validated", "clean"} => call \in BeforeBackUp
           /\ call.at \in LaterSteps => call \in AfterBackUp
           /\ call.at # "idle" => call.lease \in Leases /\ call.as \in Dispositions
  BY DEF Calls, IdleCall, BeforeBackUp, AfterBackUp, LaterSteps

\* Goto moves one call on and leaves its other fields alone.
LEMMA GotoMoves ==
    ASSUME calls \in [Slots -> Calls], NEW s \in Slots, NEW step \in LaterSteps,
           calls[s].at \in LaterSteps, Goto(s, step)
    PROVE  /\ calls' \in [Slots -> Calls]
           /\ calls'[s].at = step /\ calls'[s] \in AfterBackUp
           /\ calls'[s].lease = calls[s].lease /\ calls'[s].as = calls[s].as
           /\ calls'[s].db = calls[s].db /\ calls'[s].snapshot = calls[s].snapshot
           /\ calls'[s].stale = calls[s].stale
           /\ \A t \in Slots \ {s} : calls'[t] = calls[t]
  <1>1. calls[s] \in AfterBackUp
    BY CallAt
  <1>2. calls' = [calls EXCEPT ![s] = [calls[s] EXCEPT !.at = step]]
    BY DEF Goto
  <1>3. [calls[s] EXCEPT !.at = step] \in AfterBackUp
    BY <1>1 DEF AfterBackUp
  <1>4. /\ [calls[s] EXCEPT !.at = step].at = step
        /\ [calls[s] EXCEPT !.at = step].lease = calls[s].lease
        /\ [calls[s] EXCEPT !.at = step].as = calls[s].as
        /\ [calls[s] EXCEPT !.at = step].db = calls[s].db
        /\ [calls[s] EXCEPT !.at = step].snapshot = calls[s].snapshot
        /\ [calls[s] EXCEPT !.at = step].stale = calls[s].stale
    BY <1>1 DEF AfterBackUp
  <1>. QED  BY <1>2, <1>3, <1>4 DEF Calls

\* What a step of another call leaves of call t.
Untouched(t) ==
    /\ calls'[t].at = calls[t].at
    /\ calls[t].at \in LaterSteps =>
         /\ calls'[t].lease = calls[t].lease /\ calls'[t].as = calls[t].as
         /\ calls'[t].db = calls[t].db /\ calls'[t].snapshot = calls[t].snapshot
    /\ calls[t].at \notin LaterSteps => calls'[t] = calls[t]

LEMMA SameUntouched ==
    ASSUME NEW t, calls'[t] = calls[t] PROVE Untouched(t)
  BY DEF Untouched

\* A write of s makes the backups of the other calls stale.
LEMMA OvertakenIs ==
    ASSUME calls \in [Slots -> Calls], NEW s
    PROVE  /\ Overtaken(s) \in [Slots -> Calls]
           /\ s \in Slots => Overtaken(s)[s] = calls[s]
           /\ \A t \in Slots \ {s} :
                /\ calls[t].at \in LaterSteps =>
                     /\ Overtaken(s)[t] = [calls[t] EXCEPT !.stale = TRUE]
                     /\ calls[t] \in AfterBackUp
                /\ calls[t].at \notin LaterSteps => Overtaken(s)[t] = calls[t]
  <1>1. \A t \in Slots : calls[t].at \in LaterSteps =>
           calls[t] \in AfterBackUp /\ [calls[t] EXCEPT !.stale = TRUE] \in Calls
    <2>. SUFFICES ASSUME NEW t \in Slots, calls[t].at \in LaterSteps
                  PROVE  /\ calls[t] \in AfterBackUp
                         /\ [calls[t] EXCEPT !.stale = TRUE] \in AfterBackUp
      BY DEF Calls
    <2>1. calls[t] \in AfterBackUp
      BY CallAt
    <2>. QED  BY <2>1 DEF AfterBackUp
  <1>2. \A t \in Slots : Overtaken(s)[t] =
           IF t # s /\ calls[t].at \in LaterSteps
           THEN [calls[t] EXCEPT !.stale = TRUE] ELSE calls[t]
    BY DEF Overtaken
  <1>3. Overtaken(s) \in [Slots -> Calls]
    BY <1>1 DEF Overtaken
  <1>. QED  BY <1>1, <1>2, <1>3

LEMMA OvertakenUntouched ==
    ASSUME calls \in [Slots -> Calls], NEW s, NEW t \in Slots \ {s},
           calls'[t] = Overtaken(s)[t]
    PROVE  /\ Untouched(t) /\ calls'[t].at = calls[t].at
           /\ calls[t].at \in LaterSteps => calls'[t].stale
  <1>1. CASE calls[t].at \in LaterSteps
    <2>1. calls'[t] = [calls[t] EXCEPT !.stale = TRUE] /\ calls[t] \in AfterBackUp
      BY <1>1, OvertakenIs
    <2>. QED  BY <1>1, <2>1 DEF AfterBackUp, Untouched
  <1>2. CASE calls[t].at \notin LaterSteps
    BY <1>2, OvertakenIs DEF Untouched
  <1>. QED  BY <1>1, <1>2

\* A call that writes and moves on.
LEMMA WriterMoves ==
    ASSUME calls \in [Slots -> Calls], NEW s \in Slots, NEW step \in LaterSteps,
           calls[s].at \in LaterSteps, Wrote(s, step)
    PROVE  /\ calls' \in [Slots -> Calls]
           /\ calls'[s].at = step /\ calls'[s] \in AfterBackUp
           /\ calls'[s].lease = calls[s].lease /\ calls'[s].as = calls[s].as
           /\ calls'[s].db = calls[s].db /\ calls'[s].snapshot = calls[s].snapshot
           /\ calls'[s].stale = calls[s].stale
           /\ \A t \in Slots \ {s} : /\ Untouched(t) /\ calls'[t].at = calls[t].at
                                     /\ calls[t].at \in LaterSteps => calls'[t].stale
  <1>. DEFINE moved == [calls[s] EXCEPT !.at = step]
  <1>1. calls[s] \in AfterBackUp /\ Overtaken(s) \in [Slots -> Calls]
    BY CallAt, OvertakenIs
  <1>2. Overtaken(s)[s] = calls[s]
    BY OvertakenIs
  <1>3. calls' = [Overtaken(s) EXCEPT ![s] = moved]
    BY <1>2 DEF Wrote
  <1>4. /\ moved \in AfterBackUp /\ moved.at = step /\ moved.lease = calls[s].lease
        /\ moved.as = calls[s].as /\ moved.db = calls[s].db
        /\ moved.snapshot = calls[s].snapshot /\ moved.stale = calls[s].stale
    BY <1>1 DEF AfterBackUp
  <1>. HIDE DEF moved
  <1>5. /\ calls' \in [Slots -> Calls] /\ calls'[s] = moved
        /\ \A t \in Slots \ {s} : calls'[t] = Overtaken(s)[t]
    BY <1>1, <1>3, <1>4 DEF Calls
  <1>. QED  BY <1>4, <1>5, OvertakenUntouched

\* The types of what a close, or bytes under the -wal, leave.
LEMMA ClosesType ==
    ASSUME TypeOK, records' \in Tables, leases' \in LeaseTables,
           NEW ts \in SUBSET {"records", "leases"}, Closes(ts)
    PROVE  disk' \in Databases /\ frames' \subseteq {"records", "leases"}
  <1>1. [records |-> records', leases |-> leases'] \in Databases
    BY DEF Databases
  <1>. QED  BY <1>1 DEF Closes, TypeOK

LEMMA UnderType ==
    ASSUME TypeOK, NEW b \in Databases, Under(b)
    PROVE  /\ records' \in Tables /\ leases' \in LeaseTables
           /\ disk' \in Databases /\ frames' \subseteq {"records", "leases"}
  BY DEF Under, TypeOK, Databases

LEMMA SweptType ==
    ASSUME leases \in LeaseTables, NEW now \in Nat
    PROVE  /\ Swept(now) \in LeaseTables
           /\ \A c \in Candidates :
                Swept(now)[c] = IF leases[c] # None /\ leases[c].at + LeaseTime <= now
                                THEN None ELSE leases[c]
  BY DEF Swept, LeaseTables

\* The rows a transaction leaves are rows.
LEMMA DisposedType ==
    ASSUME TypeOK, NEW s \in Slots, calls[s].at \in LaterSteps
    PROVE  /\ Disposed(s) \in Tables
           /\ \A c \in Candidates \ {calls[s].lease.cand} : Disposed(s)[c] = records[c]
           /\ calls[s].at \in {"backedUp", "writing"} =>
                Disposed(s)[calls[s].lease.cand].status = calls[s].as
           /\ calls[s].at \notin {"backedUp", "writing"} =>
                Disposed(s)[calls[s].lease.cand].status
                  = records[calls[s].lease.cand].status
  <1>. DEFINE c == calls[s].lease.cand
  <1>1. calls[s].lease \in Leases /\ calls[s].as \in Dispositions
    BY CallAt DEF TypeOK, Calls, LaterSteps
  <1>2. c \in Candidates /\ records[c] \in Records
    BY <1>1 DEF TypeOK, Tables, Leases
  <1>3. [status |-> calls[s].as, stamped |-> FALSE] \in Records
    BY <1>1 DEF Records
  <1>4. /\ [records[c] EXCEPT !.stamped = TRUE] \in Records
        /\ [records[c] EXCEPT !.stamped = TRUE].status = records[c].status
    BY <1>2 DEF Records
  <1>5. Disposed(s) = [records EXCEPT ![c] =
                         IF calls[s].at \in {"backedUp", "writing"}
                         THEN [status |-> calls[s].as, stamped |-> FALSE]
                         ELSE [records[c] EXCEPT !.stamped = TRUE]]
    BY DEF Disposed
  <1>. HIDE DEF c
  <1>6. records \in [Candidates -> Records]
    BY DEF TypeOK, Tables
  <1>7. /\ Disposed(s) \in [Candidates -> Records]
        /\ \A d \in Candidates \ {c} : Disposed(s)[d] = records[d]
        /\ Disposed(s)[c] = IF calls[s].at \in {"backedUp", "writing"}
                            THEN [status |-> calls[s].as, stamped |-> FALSE]
                            ELSE [records[c] EXCEPT !.stamped = TRUE]
    BY <1>2, <1>3, <1>4, <1>5, <1>6
  <1>. QED  BY <1>4, <1>7 DEF c, Tables

LEMMA TreeType ==
    ASSUME TypeOK
    PROVE  /\ Tree \in Trees /\ Tree.snapshot = snapshot /\ Tree.db = Database
           /\ ~DatabaseIgnored => Database \in Databases /\ Database = disk
           /\ DatabaseIgnored => Database = None
  BY DEF Tree, Trees, Database, Databases, TypeOK

\* A commit is added at the end.
LEMMA AppendIs ==
    ASSUME NEW C, NEW h \in Seq(C), NEW c \in C
    PROVE  /\ Append(h, c) \in Seq(C) /\ Append(h, c) # <<>>
           /\ Len(Append(h, c)) = Len(h) + 1
           /\ \A i \in 1 .. Len(h) : Append(h, c)[i] = h[i]
           /\ Append(h, c)[Len(h) + 1] = c
  OBVIOUS

LEMMA HistoryIs ==
    ASSUME TypeOK, history # <<>>
    PROVE  /\ Len(history) \in Nat \ {0}
           /\ \A i \in 1 .. Len(history) :
                /\ history[i] \in Commits /\ history[i].tree \in Trees
                /\ history[i].tree.snapshot \in Tables
                /\ history[i].cand \in Candidates \cup {None}
           /\ HeadCommit = history[Len(history)]
  <1>1. history \in Seq(Commits) /\ Len(history) \in Nat \ {0}
    BY DEF TypeOK
  <1>2. \A i \in 1 .. Len(history) : history[i] \in Commits
    BY <1>1
  <1>. QED  BY <1>1, <1>2 DEF Commits, Trees, HeadCommit

\* The first commit decides whether git ignores the database.
LEMMA SameFirstCommit ==
    ASSUME history'[1] = history[1]
    PROVE  (DatabaseIgnored' <=> DatabaseIgnored)
  BY DEF DatabaseIgnored

-----------------------------------------------------------------------------
\* Types.

USE LinterRuleEditorConstants

LEMMA InitTypes == Init => Base
  <1>. SUFFICES ASSUME Init PROVE Base
    OBVIOUS
  <1>1. records \in Tables /\ leases \in LeaseTables /\ snapshot \in Tables
    BY DEF Init, Tables, Records, LeaseTables
  <1>2. PICK ignored \in Checkouts :
          history = <<[tree |-> [db |-> IF ignored THEN None ELSE disk,
                                 snapshot |-> snapshot],
                       cand |-> None]>>
    BY DEF Init
  <1>3. disk \in Databases
    <2>1. disk = [records |-> records, leases |-> leases]
      BY DEF Init
    <2>. QED  BY <1>1, <2>1 DEF Databases
  <1>. DEFINE db == IF ignored THEN None ELSE disk
              first == [tree |-> [db |-> db, snapshot |-> snapshot], cand |-> None]
  <1>4. first \in Commits /\ first.tree.db = db /\ first.cand = None
    BY <1>1, <1>3 DEF Commits, Trees
  <1>5. history = <<first>>
    BY <1>2
  <1>6. db # None => db \in Databases
    BY <1>3
  <1>. HIDE DEF first, db
  <1>7. /\ history \in Seq(Commits) /\ history # <<>> /\ Len(history) = 1
        /\ history[1] = first
    BY <1>4, <1>5
  <1>8. calls = [s \in Slots |-> IdleCall] /\ IdleCall.at = "idle"
    BY DEF Init, IdleCall
  <1>9. calls \in [Slots -> Calls] /\ \A s \in Slots : calls[s].at = "idle"
    BY <1>8 DEF Calls
  <1>10. TypeOK
    <2>1. /\ clock = 0 /\ frames = {} /\ tools = {} /\ staged = None
          /\ lock = None /\ held = {} /\ receipts = {} /\ clobbered = FALSE
      BY DEF Init
    <2>2. None \notin Slots /\ 0 \in 0 .. MaxTime
      OBVIOUS
    <2>. QED  BY <1>1, <1>3, <1>7, <1>9, <2>1, <2>2 DEF TypeOK, Calls
  <1>11. ~DatabaseIgnored => \A i \in 1 .. Len(history) : history[i].tree.db \in Databases
    <2>1. \A i \in 1 .. Len(history) : i = 1
      BY <1>7
    <2>2. ~DatabaseIgnored => history[1].tree.db \in Databases
      BY <1>4, <1>6, <1>7 DEF DatabaseIgnored
    <2>. QED  BY <2>1, <2>2
  <1>12. history # <<>> /\ history[1].cand = None /\ staged = None
    BY <1>4, <1>7 DEF Init
  <1>13. Fits
    BY <1>9, <1>11, <1>12 DEF Fits, Committed
  <1>. QED  BY <1>10, <1>13 DEF Base

\* linter.rule.next and linter.rule.status.
LEMMA NextRuleTypes ==
    ASSUME TypeOK, NEW w \in Workers, NEW q \in Requests, NEW now \in 0 .. clock,
           NextRule(w, q, now)
    PROVE  TypeOK' /\ leases' \in LeaseTables
  <1>1. now \in Nat /\ Swept(now) \in LeaseTables
    BY SweptType DEF TypeOK
  <1>2. leases' \in LeaseTables /\ held' \subseteq Leases
    <2>1. CASE leases' = Swept(now) /\ UNCHANGED held
      BY <1>1, <2>1 DEF TypeOK
    <2>2. ASSUME NEW c \in Free(q, now),
                 leases' = [Swept(now) EXCEPT
                              ![c] = [cand |-> c, worker |-> w, request |-> q, at |-> now]],
                 held' = held \cup {[cand |-> c, worker |-> w, request |-> q, at |-> now]}
          PROVE  leases' \in LeaseTables /\ held' \subseteq Leases
      <3>1. c \in Candidates
        BY DEF Free
      <3>. DEFINE lease == [cand |-> c, worker |-> w, request |-> q, at |-> now]
      <3>2. lease \in Leases /\ lease.cand = c
        BY <1>1, <3>1 DEF Leases
      <3>. HIDE DEF lease
      <3>3. leases' = [Swept(now) EXCEPT ![c] = lease] /\ held' = held \cup {lease}
        BY <2>2 DEF lease
      <3>. QED  BY <1>1, <3>1, <3>2, <3>3 DEF TypeOK, LeaseTables
    <2>. QED  BY <2>1, <2>2 DEF NextRule
  <1>3. /\ UNCHANGED <<clock, records, snapshot, tools, git, lock, calls, receipts, clobbered>>
        /\ Closes(IF leases' = leases THEN {} ELSE {"leases"})
    BY DEF NextRule
  <1>4. records' \in Tables /\ (IF leases' = leases THEN {} ELSE {"leases"})
                                 \in SUBSET {"records", "leases"}
    BY <1>3 DEF TypeOK
  <1>5. disk' \in Databases /\ frames' \subseteq {"records", "leases"}
    BY <1>2, <1>3, <1>4, ClosesType
  <1>. QED  BY <1>2, <1>3, <1>5 DEF TypeOK, git

LEMMA StatusTypes ==
    ASSUME TypeOK, NEW now \in 0 .. clock, Status(now)
    PROVE  TypeOK'
  <1>1. leases' \in LeaseTables
    BY SweptType DEF Status, TypeOK
  <1>2. /\ UNCHANGED <<clock, records, snapshot, tools, git, lock, calls, given, clobbered>>
        /\ Closes(IF leases' = leases THEN {} ELSE {"leases"})
    BY DEF Status
  <1>3. records' \in Tables /\ (IF leases' = leases THEN {} ELSE {"leases"})
                                 \in SUBSET {"records", "leases"}
    BY <1>2 DEF TypeOK
  <1>4. disk' \in Databases /\ frames' \subseteq {"records", "leases"}
    BY <1>1, <1>2, <1>3, ClosesType
  <1>. QED  BY <1>1, <1>2, <1>4 DEF TypeOK, git, given

\* The other calls that have the database open.
LEMMA ToolTypes ==
    ASSUME TypeOK, NEW t \in Tools, OpenDb(t) \/ CloseDb(t) \/ KillTool(t)
    PROVE  TypeOK'
  <1>1. /\ UNCHANGED <<clock, records, leases, snapshot, git, lock, calls, given, clobbered>>
        /\ tools' \subseteq Tools
    BY DEF TypeOK, OpenDb, CloseDb, KillTool, stores
  <1>2. disk' \in Databases /\ frames' \subseteq {"records", "leases"}
    <2>1. CASE CloseDb(t)
      <3>1. records' \in Tables /\ leases' \in LeaseTables /\ Closes({})
        BY <1>1, <2>1 DEF TypeOK, CloseDb
      <3>. QED  BY <3>1, ClosesType
    <2>2. CASE OpenDb(t) \/ KillTool(t)
      BY <2>2 DEF OpenDb, KillTool, stores, file, TypeOK
    <2>. QED  BY <2>1, <2>2
  <1>. QED  BY <1>1, <1>2 DEF TypeOK, git, given

\* A step of a call that leaves the history, the index and the tables alone.
LEMMA CallTypes ==
    ASSUME TypeOK, NEW s \in Slots,
           \/ \E c \in Candidates, d \in Dispositions : ValidateLease(s, c, d)
           \/ CheckClean(s) \/ Refused(s) \/ BackUp(s) \/ Fails(s) \/ Crash(s)
    PROVE  TypeOK'
  <1>1. calls \in [Slots -> Calls]
    BY DEF Calls, TypeOK
  <1>2. UNCHANGED <<clock, records, leases, snapshot, tools, staged, history, held,
                    receipts, clobbered>>
    BY DEF ValidateLease, CheckClean, Refused, BackUp, Fails, Crash, Goto, stores, git, given
  <1>3. disk' \in Databases /\ frames' \subseteq {"records", "leases"}
    <2>1. CASE Closes({})
      <3>1. records' \in Tables /\ leases' \in LeaseTables
        BY <1>2 DEF TypeOK
      <3>. QED  BY <2>1, <3>1, ClosesType
    <2>2. CASE UNCHANGED file
      BY <2>2 DEF file, TypeOK
    <2>. QED  BY <2>1, <2>2 DEF ValidateLease, CheckClean, Refused, BackUp, Fails, Crash,
                               stores, file
  <1>4. SUFFICES /\ calls' \in [Slots -> Calls] /\ lock' \in Slots \cup {None}
                 /\ \A t \in Slots : calls'[t].at \in {"writing", "stamping"} <=> lock' = t
    BY <1>2, <1>3 DEF Calls, TypeOK
  <1>5. IdleCall.at = "idle" /\ IdleCall \in Calls
    BY DEF IdleCall, Calls
  <1>6. ASSUME NEW call \in Calls, calls' = [calls EXCEPT ![s] = call],
               call.at \notin {"writing", "stamping"},
               \/ calls[s].at \notin {"writing", "stamping"} /\ lock' = lock
               \/ lock' = IF lock = s THEN None ELSE lock
        PROVE  /\ calls' \in [Slots -> Calls] /\ lock' \in Slots \cup {None}
               /\ \A t \in Slots : calls'[t].at \in {"writing", "stamping"} <=> lock' = t
    BY <1>1, <1>6 DEF TypeOK
  <1>7. CASE \E c \in Candidates, d \in Dispositions : ValidateLease(s, c, d)
    <2>1. PICK c \in Candidates, d \in Dispositions : ValidateLease(s, c, d)
      BY <1>7
    <2>. DEFINE call == [at |-> "validated", lease |-> leases[c], as |-> d]
    <2>2. leases[c] \in Leases
      <3>1. leases \in [Candidates -> Leases \cup {None}] /\ leases[c] # None
        BY <2>1 DEF ValidateLease, TypeOK, LeaseTables
      <3>. HIDE LinterRuleEditorConstants
      <3>. QED  BY <3>1
    <2>3. call \in Calls /\ call.at = "validated"
      BY <2>2 DEF Calls, BeforeBackUp
    <2>. QED  BY <1>5, <1>6, <2>1, <2>3 DEF ValidateLease
  <1>8. CASE CheckClean(s)
    <2>1. calls[s] \in BeforeBackUp
      BY <1>1, <1>8, CallAt DEF CheckClean
    <2>2. /\ [calls[s] EXCEPT !.at = "clean"] \in Calls
          /\ [calls[s] EXCEPT !.at = "clean"].at = "clean"
      BY <2>1 DEF BeforeBackUp, Calls
    <2>. QED  BY <1>6, <1>8, <2>2 DEF CheckClean, Goto
  <1>9. CASE Refused(s)
    BY <1>5, <1>6, <1>9 DEF Refused
  <1>10. CASE BackUp(s)
    <2>1. calls[s] \in BeforeBackUp /\ calls[s].at = "clean"
      BY <1>1, <1>10, CallAt DEF BackUp
    <2>. DEFINE call == [at |-> "backedUp", lease |-> calls[s].lease, as |-> calls[s].as,
                         db |-> disk, snapshot |-> snapshot,
                         stale |-> disk.records # records]
    <2>2. call \in Calls /\ call.at = "backedUp"
      BY <2>1 DEF TypeOK, Calls, AfterBackUp, LaterSteps, BeforeBackUp
    <2>3. calls' = [calls EXCEPT ![s] = call]
      BY <1>10 DEF BackUp
    <2>. HIDE DEF call
    <2>. QED  BY <1>6, <1>10, <2>1, <2>2, <2>3 DEF BackUp
  <1>11. CASE Fails(s)
    <2>1. /\ calls[s].at \in LaterSteps /\ Goto(s, "failed") /\ "failed" \in LaterSteps
          /\ lock' = IF lock = s THEN None ELSE lock
      BY <1>11 DEF Fails, LaterSteps
    <2>2. /\ calls' \in [Slots -> Calls] /\ calls'[s].at = "failed"
          /\ \A t \in Slots \ {s} : calls'[t] = calls[t]
      BY <1>1, <2>1, GotoMoves
    <2>. QED  BY <2>1, <2>2 DEF TypeOK
  <1>12. CASE Crash(s)
    BY <1>5, <1>6, <1>12 DEF Crash
  <1>. QED  BY <1>7, <1>8, <1>9, <1>10, <1>11, <1>12

\* A transaction begins, or commits.
LEMMA WriteMoves ==
    ASSUME TypeOK, NEW s \in Slots, BeginWrite(s) \/ CommitWrite(s)
    PROVE  /\ calls[s].at \in LaterSteps
           /\ \E step \in {"writing", "stamping", "written", "stamped"} :
                /\ step \in LaterSteps
                /\ Wrote(s, step)
                /\ BeginWrite(s) => \/ calls[s].at = "backedUp" /\ step = "writing"
                                    \/ calls[s].at = "committed" /\ step = "stamping"
                /\ CommitWrite(s) => \/ calls[s].at = "writing" /\ step = "written"
                                     \/ calls[s].at = "stamping" /\ step = "stamped"
  <1>1. \/ calls[s].at = "backedUp" /\ Wrote(s, "writing")
        \/ calls[s].at = "committed" /\ Wrote(s, "stamping")
        \/ calls[s].at = "writing" /\ Wrote(s, "written")
        \/ calls[s].at = "stamping" /\ Wrote(s, "stamped")
    BY DEF BeginWrite, CommitWrite
  <1>2. /\ BeginWrite(s) => calls[s].at \in {"backedUp", "committed"}
        /\ CommitWrite(s) => calls[s].at \in {"writing", "stamping"}
    BY DEF BeginWrite, CommitWrite
  <1>. QED  BY <1>1, <1>2 DEF LaterSteps

LEMMA WriteTypes ==
    ASSUME TypeOK, NEW s \in Slots, BeginWrite(s) \/ CommitWrite(s)
    PROVE  TypeOK'
  <1>1. calls \in [Slots -> Calls]
    BY DEF TypeOK, Calls
  <1>2. PICK step \in {"writing", "stamping", "written", "stamped"} :
          /\ step \in LaterSteps /\ calls[s].at \in LaterSteps
          /\ Wrote(s, step)
          /\ BeginWrite(s) => step \in {"writing", "stamping"}
          /\ CommitWrite(s) => step \in {"written", "stamped"}
    BY WriteMoves
  <1>3. /\ calls' \in [Slots -> Calls] /\ calls'[s].at = step
        /\ \A t \in Slots \ {s} : calls'[t].at = calls[t].at
    BY <1>1, <1>2, WriterMoves
  <1>4. Disposed(s) \in Tables
    BY <1>2, DisposedType
  <1>5. CASE BeginWrite(s)
    BY <1>2, <1>3, <1>4, <1>5 DEF BeginWrite, TypeOK, Calls, git, given, file
  <1>6. CASE CommitWrite(s)
    <2>1. records' \in Tables /\ leases' \in LeaseTables /\ Closes({"records"})
      BY <1>4, <1>6 DEF CommitWrite, TypeOK
    <2>2. disk' \in Databases /\ frames' \subseteq {"records", "leases"}
      BY <2>1, ClosesType
    <2>. QED  BY <1>2, <1>3, <1>6, <2>1, <2>2 DEF CommitWrite, TypeOK, Calls, git, given
  <1>. QED  BY <1>5, <1>6

LEMMA GitAddTypes ==
    ASSUME TypeOK, NEW s \in Slots, GitAdd(s)
    PROVE  TypeOK'
  <1>1. PICK step \in {"failed", "added", "readded"} :
          calls[s].at \in {"written", "stamped"} /\ Goto(s, step)
    BY DEF GitAdd
  <1>2. step \in LaterSteps /\ calls[s].at \in LaterSteps /\ calls \in [Slots -> Calls]
    BY <1>1 DEF LaterSteps, TypeOK, Calls
  <1>3. /\ calls' \in [Slots -> Calls] /\ calls'[s].at = step
        /\ \A t \in Slots \ {s} : calls'[t] = calls[t]
    BY <1>1, <1>2, GotoMoves
  <1>. QED  BY <1>1, <1>3, TreeType DEF GitAdd, TypeOK, Calls, stores, file, given

\* The disposition is committed on top of the history.
LEMMA GitCommitTypes ==
    ASSUME TypeOK, NEW s \in Slots, GitCommit(s)
    PROVE  /\ TypeOK' /\ staged \in Trees /\ calls[s].lease.cand \in Candidates
           /\ [tree |-> staged, cand |-> calls[s].lease.cand] \in Commits
           /\ calls'[s].at = "committed" /\ calls'[s] \in AfterBackUp
           /\ calls'[s].lease = calls[s].lease
           /\ calls'[s].db = calls[s].db /\ calls'[s].snapshot = calls[s].snapshot
           /\ calls'[s].stale = calls[s].stale
           /\ \A t \in Slots \ {s} : calls'[t] = calls[t]
  <1>1. calls[s].at = "added" /\ Goto(s, "committed")
    BY DEF GitCommit
  <1>2. "committed" \in LaterSteps /\ calls[s].at \in LaterSteps /\ calls \in [Slots -> Calls]
    BY <1>1 DEF LaterSteps, TypeOK, Calls
  <1>3. /\ calls' \in [Slots -> Calls]
        /\ calls'[s].at = "committed" /\ calls'[s] \in AfterBackUp
        /\ calls'[s].lease = calls[s].lease
        /\ calls'[s].db = calls[s].db /\ calls'[s].snapshot = calls[s].snapshot
        /\ calls'[s].stale = calls[s].stale
        /\ \A t \in Slots \ {s} : calls'[t] = calls[t]
    BY <1>1, <1>2, GotoMoves
  <1>4. calls[s].lease \in Leases
    BY <1>1, <1>2, CallAt
  <1>5. staged \in Trees /\ calls[s].lease.cand \in Candidates
    BY <1>4 DEF GitCommit, TypeOK, Leases
  <1>. DEFINE commit == [tree |-> staged, cand |-> calls[s].lease.cand]
  <1>6. commit \in Commits
    BY <1>5 DEF Commits
  <1>. HIDE DEF commit
  <1>7. history' = Append(history, commit)
    BY DEF GitCommit, commit
  <1>8. history' \in Seq(Commits)
    BY <1>6, <1>7, AppendIs DEF TypeOK
  <1>9. TypeOK'
    BY <1>1, <1>3, <1>8 DEF GitCommit, TypeOK, Calls, stores, file, given
  <1>. QED  BY <1>3, <1>5, <1>6, <1>9 DEF commit

\* The last commit gets the tree in the index.
LEMMA AmendIs ==
    ASSUME TypeOK, history # <<>>, NEW s \in Slots, Amend(s)
    PROVE  /\ history' \in Seq(Commits) /\ Len(history') = Len(history)
           /\ \A i \in 1 .. Len(history) :
                /\ history'[i].cand = history[i].cand
                /\ i # Len(history) \/ staged = None => history'[i] = history[i]
           /\ staged # None => history'[Len(history)].tree = staged
  <1>. DEFINE head == [history[Len(history)] EXCEPT !.tree = staged]
  <1>1. CASE staged = None
    BY <1>1, HistoryIs DEF Amend, TypeOK
  <1>2. CASE staged # None
    <2>1. history[Len(history)] \in Commits /\ Len(history) \in 1 .. Len(history)
      BY HistoryIs
    <2>2. staged \in Trees
      BY <1>2 DEF TypeOK
    <2>3. head \in Commits /\ head.tree = staged /\ head.cand = history[Len(history)].cand
      BY <2>1, <2>2 DEF Commits
    <2>4. history' = [history EXCEPT ![Len(history)] = head]
      BY <1>2 DEF Amend
    <2>. HIDE DEF head
    <2>. QED  BY <1>2, <2>1, <2>3, <2>4 DEF TypeOK
  <1>. QED  BY <1>1, <1>2

LEMMA AmendTypes ==
    ASSUME TypeOK, history # <<>>, NEW s \in Slots, Amend(s)
    PROVE  TypeOK' /\ calls[s].lease.cand \in Candidates
  <1>1. calls[s].lease \in Leases
    BY CallAt DEF Amend, TypeOK, Calls
  <1>2. calls[s].lease.cand \in Candidates
    BY <1>1 DEF Leases
  <1>3. IdleCall.at = "idle"
    BY DEF IdleCall
  <1>. QED  BY <1>2, <1>3, AmendIs DEF Amend, TypeOK, stores, file

LEMMA RestoreTypes ==
    ASSUME TypeOK, NEW s \in Slots, RestoreDatabase(s) \/ RestoreSnapshot(s)
    PROVE  TypeOK' /\ calls[s] \in AfterBackUp
  <1>1. calls \in [Slots -> Calls] /\ calls[s].at \in {"failed", "restored"}
    BY DEF TypeOK, Calls, RestoreDatabase, RestoreSnapshot
  <1>2. calls[s] \in AfterBackUp /\ calls[s].at \in LaterSteps
    BY <1>1, CallAt DEF LaterSteps
  <1>3. calls[s].db \in Databases /\ calls[s].snapshot \in Tables /\ calls[s].stale \in BOOLEAN
    BY <1>2 DEF AfterBackUp
  <1>4. CASE RestoreDatabase(s)
    <2>1. Wrote(s, "restored") /\ "restored" \in LaterSteps
      BY <1>4 DEF RestoreDatabase, LaterSteps
    <2>2. /\ calls' \in [Slots -> Calls] /\ calls'[s].at = "restored"
          /\ \A t \in Slots \ {s} : calls'[t].at = calls[t].at
      BY <1>1, <1>2, <2>1, WriterMoves
    <2>3. /\ records' \in Tables /\ leases' \in LeaseTables
          /\ disk' \in Databases /\ frames' \subseteq {"records", "leases"}
      BY <1>3, <1>4, UnderType DEF RestoreDatabase
    <2>4. /\ clobbered' \in BOOLEAN /\ calls[s].at = "failed"
          /\ UNCHANGED <<clock, snapshot, tools, git, lock, given>>
      BY <1>4 DEF RestoreDatabase
    <2>5. TypeOK'
      BY <2>2, <2>3, <2>4 DEF TypeOK, Calls, git, given
    <2>. QED  BY <1>2, <2>5
  <1>5. CASE RestoreSnapshot(s)
    <2>1. /\ IdleCall.at = "idle" /\ IdleCall \in Calls
          /\ Overtaken(s) \in [Slots -> Calls] /\ calls' = [Overtaken(s) EXCEPT ![s] = IdleCall]
      BY <1>1, <1>5, OvertakenIs DEF RestoreSnapshot, IdleCall, Calls
    <2>2. \A t \in Slots \ {s} : calls'[t] = Overtaken(s)[t]
      BY <2>1
    <2>3. /\ calls' \in [Slots -> Calls] /\ calls'[s].at = "idle"
          /\ \A t \in Slots \ {s} : calls'[t].at = calls[t].at
      BY <1>1, <2>1, <2>2, OvertakenUntouched DEF Untouched
    <2>4. /\ clobbered' \in BOOLEAN /\ calls[s].at = "restored" /\ snapshot' = calls[s].snapshot
          /\ UNCHANGED <<clock, records, leases, file, tools, git, lock, given>>
      BY <1>5 DEF RestoreSnapshot
    <2>5. TypeOK'
      BY <1>3, <2>3, <2>4 DEF TypeOK, Calls, git, given, file
    <2>. QED  BY <1>2, <2>5
  <1>. QED  BY <1>4, <1>5

\* The last commit is a disposition, so it has a parent.
LEMMA RollbackIs ==
    ASSUME Base, Rollback
    PROVE  LET parent == history[Len(history) - 1].tree
           IN  /\ Len(history) - 1 \in 1 .. Len(history)
               /\ parent \in Trees /\ [tree |-> parent, cand |-> None] \in Commits
               /\ ~DatabaseIgnored => parent.db \in Databases
  <1>1. HeadCommit.cand # None /\ history[1].cand = None /\ history # <<>>
    BY DEF Rollback, Base, Fits
  <1>2. Len(history) \in Nat \ {0} /\ HeadCommit = history[Len(history)]
    BY <1>1, HistoryIs DEF Base
  <1>3. Len(history) # 1
    BY <1>1, <1>2
  <1>. DEFINE n == Len(history)
  <1>4. n - 1 \in 1 .. n
    <2>1. n \in Nat /\ n # 0 /\ n # 1
      BY <1>2, <1>3
    <2>. HIDE DEF n
    <2>. QED  BY <2>1
  <1>5. history[Len(history) - 1].tree \in Trees
    BY <1>1, <1>4, HistoryIs DEF Base
  <1>6. ~DatabaseIgnored => history[Len(history) - 1].tree.db \in Databases
    BY <1>4 DEF Base, Fits
  <1>. QED  BY <1>4, <1>5, <1>6 DEF Commits

LEMMA RollbackTypes ==
    ASSUME Base, Rollback
    PROVE  TypeOK'
  <1>. DEFINE parent == history[Len(history) - 1].tree
              commit == [tree |-> parent, cand |-> None]
  <1>1. /\ parent \in Trees /\ commit \in Commits
        /\ ~DatabaseIgnored => parent.db \in Databases
    BY RollbackIs
  <1>2. /\ history' = Append(history, commit) /\ snapshot' = parent.snapshot
        /\ IF DatabaseIgnored THEN UNCHANGED <<records, leases, file>> ELSE Under(parent.db)
    BY DEF Rollback
  <1>. HIDE DEF commit, parent
  <1>3. history' \in Seq(Commits)
    BY <1>1, <1>2, AppendIs DEF Base, TypeOK
  <1>4. snapshot' \in Tables
    BY <1>1, <1>2 DEF Trees
  <1>5. /\ records' \in Tables /\ leases' \in LeaseTables
        /\ disk' \in Databases /\ frames' \subseteq {"records", "leases"}
    <2>1. CASE DatabaseIgnored
      BY <1>2, <2>1 DEF Base, TypeOK, file
    <2>2. CASE ~DatabaseIgnored
      BY <1>1, <1>2, <2>2, UnderType DEF Base
    <2>. QED  BY <2>1, <2>2
  <1>6. /\ calls' = Overtaken(None) /\ clobbered' \in BOOLEAN
        /\ UNCHANGED <<clock, tools, staged, lock, held>>
        /\ receipts' = receipts \ {HeadCommit.cand}
    BY DEF Rollback
  <1>7. /\ calls' \in [Slots -> Calls]
        /\ \A t \in Slots : calls'[t].at = calls[t].at
    <2>1. calls \in [Slots -> Calls]
      BY DEF Base, TypeOK, Calls
    <2>2. \A t \in Slots : t \in Slots \ {None}
      OBVIOUS
    <2>. QED  BY <1>6, <2>1, <2>2, OvertakenIs, OvertakenUntouched
  <1>. QED  BY <1>3, <1>4, <1>5, <1>6, <1>7 DEF Base, TypeOK, Calls

\* The operator's commit is on top of the history, too.
LEMMA OperatorTypes ==
    ASSUME TypeOK, OperatorCommits \/ OperatorResets \/ Tick
    PROVE  TypeOK' /\ [tree |-> Tree, cand |-> None] \in Commits
  <1>1. [tree |-> Tree, cand |-> None] \in Commits
    BY TreeType DEF Commits
  <1>. DEFINE commit == [tree |-> Tree, cand |-> None]
  <1>2. Append(history, commit) \in Seq(Commits)
    BY <1>1, AppendIs DEF TypeOK
  <1>3. history' \in Seq(Commits)
    BY <1>2 DEF OperatorCommits, OperatorResets, Tick, TypeOK, git
  <1>4. clock' \in 0 .. MaxTime
    BY DEF OperatorCommits, OperatorResets, Tick, TypeOK
  <1>5. staged' \in Trees \cup {None}
    BY DEF OperatorCommits, OperatorResets, Tick, TypeOK, git
  <1>6. /\ UNCHANGED <<stores, tools, lock, calls, given>>
        /\ clobbered' \in BOOLEAN
    BY DEF OperatorCommits, OperatorResets, Tick, TypeOK
  <1>. HIDE DEF commit
  <1>7. TypeOK'
    BY <1>3, <1>4, <1>5, <1>6 DEF TypeOK, stores, file, given
  <1>. QED  BY <1>1, <1>7

-----------------------------------------------------------------------------
\* What a step of a call does to the calls.

\* A call either is done with its copies, makes them, or keeps them; the others
\* keep theirs.
LEMMA CallStep ==
    ASSUME Base, NEW s \in Slots, ApplyDisposition(s)
    PROVE  /\ \A t \in Slots \ {s} : Untouched(t) /\ calls'[t].at = calls[t].at
           /\ \/ calls'[s].at \notin LaterSteps
              \/ /\ BackUp(s) /\ calls'[s].at = "backedUp"
                 /\ calls'[s].lease = calls[s].lease /\ calls'[s].as = calls[s].as
                 /\ calls'[s].db = disk /\ calls'[s].snapshot = snapshot
                 /\ calls'[s].stale = (disk.records # records)
              \/ /\ calls[s].at \in LaterSteps
                 /\ calls'[s].lease = calls[s].lease /\ calls'[s].as = calls[s].as
                 /\ calls'[s].db = calls[s].db
                 /\ calls'[s].snapshot = calls[s].snapshot
                 /\ calls'[s].stale = calls[s].stale
  <1>1. calls \in [Slots -> Calls] /\ IdleCall.at = "idle"
    BY DEF Base, TypeOK, Calls, IdleCall
  <1>0. ASSUME \A t \in Slots \ {s} : calls'[t] = calls[t]
        PROVE  \A t \in Slots \ {s} : Untouched(t) /\ calls'[t].at = calls[t].at
    BY <1>0, SameUntouched
  <1>2. CASE \/ \E c \in Candidates, d \in Dispositions : ValidateLease(s, c, d)
             \/ Refused(s) \/ Crash(s) \/ Amend(s)
    <2>1. PICK call : calls' = [calls EXCEPT ![s] = call] /\ call.at \in {"validated", "idle"}
      BY <1>1, <1>2 DEF ValidateLease, Refused, Crash, Amend
    <2>2. calls'[s].at \notin LaterSteps /\ \A t \in Slots \ {s} : calls'[t] = calls[t]
      BY <1>1, <2>1 DEF LaterSteps
    <2>. QED  BY <1>0, <2>2
  <1>3. CASE CheckClean(s)
    <2>1. calls[s] \in BeforeBackUp
      BY <1>1, <1>3, CallAt DEF CheckClean
    <2>2. calls'[s].at = "clean" /\ \A t \in Slots \ {s} : calls'[t] = calls[t]
      BY <1>1, <1>3, <2>1 DEF CheckClean, Goto, BeforeBackUp
    <2>. QED  BY <1>0, <2>2 DEF LaterSteps
  <1>4. CASE BackUp(s)
    <2>1. /\ calls'[s].at = "backedUp"
          /\ calls'[s].lease = calls[s].lease /\ calls'[s].as = calls[s].as
          /\ calls'[s].db = disk /\ calls'[s].snapshot = snapshot
          /\ calls'[s].stale = (disk.records # records)
          /\ \A t \in Slots \ {s} : calls'[t] = calls[t]
      BY <1>1, <1>4 DEF BackUp
    <2>. QED  BY <1>0, <1>4, <2>1
  <1>5. CASE GitAdd(s) \/ GitCommit(s) \/ Fails(s)
    <2>1. PICK step \in LaterSteps : Goto(s, step) /\ calls[s].at \in LaterSteps
      BY <1>5 DEF GitAdd, GitCommit, Fails, LaterSteps
    <2>. QED  BY <1>0, <1>1, <2>1, GotoMoves
  <1>6. CASE BeginWrite(s) \/ CommitWrite(s) \/ RestoreDatabase(s)
    <2>1. PICK step \in LaterSteps : Wrote(s, step) /\ calls[s].at \in LaterSteps
      BY <1>6 DEF BeginWrite, CommitWrite, RestoreDatabase, LaterSteps
    <2>. QED  BY <1>1, <2>1, WriterMoves
  <1>7. CASE RestoreSnapshot(s)
    <2>1. Overtaken(s) \in [Slots -> Calls] /\ calls' = [Overtaken(s) EXCEPT ![s] = IdleCall]
      BY <1>1, <1>7, OvertakenIs DEF RestoreSnapshot
    <2>2. calls'[s].at = "idle" /\ \A t \in Slots \ {s} : calls'[t] = Overtaken(s)[t]
      BY <1>1, <2>1
    <2>3. \A t \in Slots \ {s} : Untouched(t) /\ calls'[t].at = calls[t].at
      BY <1>1, <2>2, OvertakenUntouched
    <2>. QED  BY <2>2, <2>3 DEF LaterSteps
  <1>. QED  BY <1>2, <1>3, <1>4, <1>5, <1>6, <1>7 DEF ApplyDisposition

-----------------------------------------------------------------------------
\* Fits is kept.

LEMMA FitsSame ==
    ASSUME Base, history' = history, staged' \in {staged, None},
           \A t \in Slots :
              /\ calls'[t].at \in Committed \cup {"added"} =>
                   calls[t].at \in Committed \cup {"added"}
              /\ calls'[t].at \in Committed => calls[t].at \in Committed
    PROVE  Fits'
  <1>1. (DatabaseIgnored' <=> DatabaseIgnored)
    BY SameFirstCommit
  <1>. QED  BY <1>1 DEF Base, Fits

LEMMA FitsAppend ==
    ASSUME Base, NEW c \in Commits, history' = Append(history, c),
           ~DatabaseIgnored => c.tree.db \in Databases,
           staged' \in {staged, None},
           \A t \in Slots : calls'[t].at \in Committed \cup {"added"} =>
                              calls[t].at \in Committed \cup {"added"}
    PROVE  /\ Fits' /\ (DatabaseIgnored' <=> DatabaseIgnored)
           /\ Len(history') = Len(history) + 1 /\ history'[Len(history')] = c
           /\ \A i \in 1 .. Len(history) : history'[i] = history[i]
  <1>1. history \in Seq(Commits) /\ Len(history) \in Nat \ {0}
    BY HistoryIs DEF Base, TypeOK, Fits
  <1>2. /\ history' # <<>> /\ Len(history') = Len(history) + 1
        /\ \A i \in 1 .. Len(history) : history'[i] = history[i]
        /\ history'[Len(history) + 1] = c
    BY <1>1, AppendIs
  <1>3. history'[1] = history[1] /\ Len(history') >= 2
    BY <1>1, <1>2
  <1>4. (DatabaseIgnored' <=> DatabaseIgnored)
    BY <1>3, SameFirstCommit
  <1>5. ~DatabaseIgnored => \A i \in 1 .. Len(history') : history'[i].tree.db \in Databases
    BY <1>1, <1>2 DEF Base, Fits
  <1>. QED  BY <1>2, <1>3, <1>4, <1>5 DEF Base, Fits, Committed

LEMMA BaseOfCalls ==
    ASSUME Base, NEW s \in Slots,
           \/ \E c \in Candidates, d \in Dispositions : ValidateLease(s, c, d)
           \/ CheckClean(s) \/ Refused(s) \/ BackUp(s) \/ Fails(s) \/ Crash(s)
           \/ BeginWrite(s) \/ CommitWrite(s) \/ RestoreDatabase(s) \/ RestoreSnapshot(s)
    PROVE  Base'
  <1>1. TypeOK'
    BY CallTypes, WriteTypes, RestoreTypes DEF Base
  <1>2. history' = history /\ staged' = staged
    BY DEF ValidateLease, CheckClean, Refused, BackUp, Fails, Crash, BeginWrite,
           CommitWrite, RestoreDatabase, RestoreSnapshot, git
  <1>3. calls \in [Slots -> Calls] /\ IdleCall.at = "idle"
    BY DEF Base, TypeOK, Calls, IdleCall
  <1>4. \A t \in Slots \ {s} : calls'[t].at = calls[t].at
    BY CallStep DEF ApplyDisposition
  <1>5. calls'[s].at \in Committed \cup {"added"} =>
          calls[s].at \in Committed /\ calls'[s].at \in Committed
    <2>1. CASE \E c \in Candidates, d \in Dispositions : ValidateLease(s, c, d)
      BY <1>3, <2>1 DEF ValidateLease, Committed
    <2>2. CASE CheckClean(s)
      <3>1. calls[s] \in BeforeBackUp
        BY <1>3, <2>2, CallAt DEF CheckClean
      <3>2. calls'[s].at = "clean"
        BY <1>3, <2>2, <3>1 DEF CheckClean, Goto, BeforeBackUp
      <3>. QED  BY <3>2 DEF Committed
    <2>3. CASE Refused(s) \/ Crash(s) \/ RestoreSnapshot(s)
      <3>1. Overtaken(s) \in [Slots -> Calls]
        BY <1>3, OvertakenIs
      <3>. QED  BY <1>3, <2>3, <3>1 DEF Refused, Crash, RestoreSnapshot, Committed
    <2>4. CASE BackUp(s)
      BY <1>3, <2>4 DEF BackUp, Committed
    <2>5. CASE Fails(s)
      <3>1. calls[s].at \in LaterSteps /\ Goto(s, "failed") /\ "failed" \in LaterSteps
        BY <2>5 DEF Fails, LaterSteps
      <3>2. calls'[s].at = "failed"
        BY <1>3, <3>1, GotoMoves
      <3>. QED  BY <3>2 DEF Committed
    <2>6. CASE RestoreDatabase(s)
      <3>1. calls[s].at \in LaterSteps /\ Wrote(s, "restored") /\ "restored" \in LaterSteps
        BY <2>6 DEF RestoreDatabase, LaterSteps
      <3>2. calls'[s].at = "restored"
        BY <1>3, <3>1, WriterMoves
      <3>. QED  BY <3>2 DEF Committed
    <2>7. CASE BeginWrite(s) \/ CommitWrite(s)
      <3>1. PICK step \in {"writing", "stamping", "written", "stamped"} :
              /\ step \in LaterSteps /\ calls[s].at \in LaterSteps /\ Wrote(s, step)
              /\ step \in {"stamping", "stamped"} => calls[s].at \in Committed
        BY <2>7, WriteMoves DEF Base, Committed
      <3>2. calls'[s].at = step
        BY <1>3, <3>1, WriterMoves
      <3>. QED  BY <3>1, <3>2 DEF Committed
    <2>. QED  BY <2>1, <2>2, <2>3, <2>4, <2>5, <2>6, <2>7
  <1>6. Fits'
    BY <1>2, <1>4, <1>5, FitsSame
  <1>. QED  BY <1>1, <1>6 DEF Base

LEMMA BaseOfGitAdd ==
    ASSUME Base, NEW s \in Slots, GitAdd(s)
    PROVE  Base' /\ history' = history /\ (DatabaseIgnored' <=> DatabaseIgnored)
  <1>1. TypeOK'
    BY GitAddTypes DEF Base
  <1>2. /\ history' = history /\ staged' = Tree
        /\ (DatabaseIgnored' <=> DatabaseIgnored)
    BY SameFirstCommit DEF GitAdd
  <1>3. calls \in [Slots -> Calls]
    BY DEF Base, TypeOK, Calls
  <1>4. \/ calls[s].at = "written" /\ Goto(s, IF DatabaseIgnored THEN "failed" ELSE "added")
        \/ calls[s].at = "stamped" /\ Goto(s, IF DatabaseIgnored THEN "failed" ELSE "readded")
    BY DEF GitAdd
  <1>5. PICK step \in {"failed", "added", "readded"} :
          /\ Goto(s, step) /\ calls[s].at \in LaterSteps
          /\ step # "failed" => ~DatabaseIgnored
          /\ step = "readded" => calls[s].at \in Committed
    BY <1>4 DEF LaterSteps, Committed
  <1>6. step \in LaterSteps
    BY DEF LaterSteps
  <1>7. calls'[s].at = step /\ \A t \in Slots \ {s} : calls'[t] = calls[t]
    BY <1>3, <1>5, <1>6, GotoMoves
  <1>8. ~DatabaseIgnored => staged'.db \in Databases
    BY <1>2, TreeType DEF Base
  <1>9. Fits'
    BY <1>2, <1>5, <1>7, <1>8 DEF Base, Fits, Committed
  <1>. QED  BY <1>1, <1>2, <1>9 DEF Base

LEMMA BaseOfGitCommit ==
    ASSUME Base, NEW s \in Slots, GitCommit(s)
    PROVE  /\ Base' /\ (DatabaseIgnored' <=> DatabaseIgnored) /\ ~DatabaseIgnored
           /\ Len(history') = Len(history) + 1
           /\ history'[Len(history')]
                = [tree |-> staged, cand |-> calls[s].lease.cand]
           /\ \A i \in 1 .. Len(history) : history'[i] = history[i]
  <1>. DEFINE c == [tree |-> staged, cand |-> calls[s].lease.cand]
  <1>1. TypeOK' /\ c \in Commits /\ c.tree = staged
    BY GitCommitTypes DEF Base
  <1>2. /\ calls'[s].at = "committed" /\ calls[s].at = "added"
        /\ \A t \in Slots \ {s} : calls'[t] = calls[t]
        /\ staged # None /\ staged' = None /\ history' = Append(history, c)
    BY GitCommitTypes DEF Base, GitCommit
  <1>3. ~DatabaseIgnored /\ staged.db \in Databases
    BY <1>2 DEF Base, Fits
  <1>. HIDE DEF c
  <1>4. /\ Fits' /\ (DatabaseIgnored' <=> DatabaseIgnored)
        /\ Len(history') = Len(history) + 1 /\ history'[Len(history')] = c
        /\ \A i \in 1 .. Len(history) : history'[i] = history[i]
    BY <1>1, <1>2, <1>3, FitsAppend
  <1>. QED  BY <1>1, <1>3, <1>4 DEF Base, c

LEMMA BaseOfAmend ==
    ASSUME Base, NEW s \in Slots, Amend(s)
    PROVE  /\ Base' /\ (DatabaseIgnored' <=> DatabaseIgnored) /\ ~DatabaseIgnored
           /\ Len(history) \in Nat /\ Len(history) >= 2
           /\ Len(history') = Len(history)
           /\ \A i \in 1 .. Len(history) :
                /\ history'[i].cand = history[i].cand
                /\ i # Len(history) \/ staged = None => history'[i] = history[i]
           /\ staged # None => history'[Len(history)].tree = staged
  <1>1. /\ history' \in Seq(Commits) /\ Len(history') = Len(history)
        /\ \A i \in 1 .. Len(history) :
             /\ history'[i].cand = history[i].cand
             /\ i # Len(history) \/ staged = None => history'[i] = history[i]
        /\ staged # None => history'[Len(history)].tree = staged
    BY AmendIs DEF Base, Fits
  <1>2. TypeOK'
    BY AmendTypes DEF Base, Fits
  <1>3. calls[s].at = "readded" /\ calls' = [calls EXCEPT ![s] = IdleCall] /\ staged' = None
    BY DEF Amend
  <1>4. ~DatabaseIgnored /\ Len(history) >= 2 /\ Len(history) \in Nat
    BY <1>3, HistoryIs DEF Base, Fits, Committed
  <1>5. history'[1] = history[1] /\ history' # <<>>
    BY <1>1, <1>4
  <1>6. (DatabaseIgnored' <=> DatabaseIgnored)
    BY <1>5, SameFirstCommit
  <1>7. \A t \in Slots : calls'[t] = calls[t] \/ calls'[t].at = "idle"
    BY <1>3 DEF IdleCall, Base, TypeOK
  <1>8. \A i \in 1 .. Len(history') : history'[i].tree.db \in Databases
    <2>1. SUFFICES ASSUME NEW i \in 1 .. Len(history)
                   PROVE  history'[i].tree.db \in Databases
      BY <1>1
    <2>2. CASE history'[i] = history[i]
      BY <1>4, <2>2 DEF Base, Fits
    <2>3. CASE i = Len(history) /\ staged # None
      BY <1>1, <1>4, <2>3 DEF Base, Fits
    <2>. QED  BY <1>1, <2>2, <2>3
  <1>9. Fits'
    BY <1>1, <1>3, <1>4, <1>5, <1>6, <1>7, <1>8 DEF Base, Fits, Committed
  <1>. QED  BY <1>1, <1>2, <1>4, <1>6, <1>9 DEF Base

LEMMA BaseOfRollback ==
    ASSUME Base, Rollback
    PROVE  /\ Base' /\ (DatabaseIgnored' <=> DatabaseIgnored)
           /\ Len(history) \in Nat /\ Len(history) >= 2
           /\ Len(history') = Len(history) + 1
           /\ history'[Len(history')]
                = [tree |-> history[Len(history) - 1].tree, cand |-> None]
           /\ \A i \in 1 .. Len(history) : history'[i] = history[i]
  <1>. DEFINE c == [tree |-> history[Len(history) - 1].tree, cand |-> None]
  <1>1. /\ c \in Commits /\ Len(history) - 1 \in 1 .. Len(history)
        /\ ~DatabaseIgnored => c.tree.db \in Databases
    BY RollbackIs
  <1>2. /\ history' = Append(history, c) /\ staged' = staged
        /\ \A t \in Slots : calls'[t].at = calls[t].at
    <2>1. /\ calls \in [Slots -> Calls] /\ calls' = Overtaken(None)
          /\ \A t \in Slots : t \in Slots \ {None}
      BY DEF Rollback, Base, TypeOK, Calls
    <2>2. \A t \in Slots : calls'[t].at = calls[t].at
      BY <2>1, OvertakenUntouched
    <2>. QED  BY <2>2 DEF Rollback
  <1>3. Len(history) \in Nat
    BY DEF Base, TypeOK
  <1>4. Len(history) >= 2
    BY <1>1, <1>3
  <1>. HIDE DEF c
  <1>5. /\ Fits' /\ (DatabaseIgnored' <=> DatabaseIgnored)
        /\ Len(history') = Len(history) + 1 /\ history'[Len(history')] = c
        /\ \A i \in 1 .. Len(history) : history'[i] = history[i]
    BY <1>1, <1>2, FitsAppend
  <1>. QED  BY <1>3, <1>4, <1>5, RollbackTypes DEF Base, c

LEMMA BaseOfOperator ==
    ASSUME Base, OperatorCommits
    PROVE  /\ Base' /\ (DatabaseIgnored' <=> DatabaseIgnored)
           /\ \/ history' = history
              \/ /\ Len(history') = Len(history) + 1
                 /\ history'[Len(history')] = [tree |-> Tree, cand |-> None]
                 /\ \A i \in 1 .. Len(history) : history'[i] = history[i]
  <1>. DEFINE c == [tree |-> Tree, cand |-> None]
  <1>1. TypeOK' /\ c \in Commits
    BY OperatorTypes DEF Base
  <1>2. ~DatabaseIgnored => c.tree.db \in Databases
    BY TreeType DEF Base
  <1>3. /\ history' = history \/ history' = Append(history, c)
        /\ staged' = None /\ calls' = calls
    BY DEF OperatorCommits
  <1>. HIDE DEF c
  <1>4. CASE history' = history
    BY <1>1, <1>3, <1>4, FitsSame, SameFirstCommit DEF Base
  <1>5. CASE history' = Append(history, c)
    <2>1. /\ Fits' /\ (DatabaseIgnored' <=> DatabaseIgnored)
          /\ Len(history') = Len(history) + 1 /\ history'[Len(history')] = c
          /\ \A i \in 1 .. Len(history) : history'[i] = history[i]
      BY <1>1, <1>2, <1>3, <1>5, FitsAppend
    <2>. QED  BY <1>1, <2>1 DEF Base, c
  <1>. QED  BY <1>3, <1>4, <1>5

LEMMA BaseOfTables ==
    ASSUME Base,
           \/ \E w \in Workers, q \in Requests, now \in 0 .. clock : NextRule(w, q, now)
           \/ \E now \in 0 .. clock : Status(now)
           \/ \E t \in Tools : OpenDb(t) \/ CloseDb(t) \/ KillTool(t)
           \/ OperatorResets \/ Tick
           \/ UNCHANGED vars
    PROVE  Base' /\ history' = history
  <1>1. TypeOK'
    <2>1. CASE UNCHANGED vars
      BY <2>1 DEF vars, stores, file, git, given, Base, TypeOK
    <2>. QED  BY <2>1, NextRuleTypes, StatusTypes, ToolTypes, OperatorTypes DEF Base
  <1>2. history' = history /\ staged' \in {staged, None} /\ calls' = calls
    BY DEF NextRule, Status, OpenDb, CloseDb, KillTool, OperatorResets, Tick, vars, git
  <1>. QED  BY <1>1, <1>2, FitsSame DEF Base

LEMMA BaseStep == Base /\ [Next]_vars => Base'
  <1>. SUFFICES ASSUME Base, [Next]_vars PROVE Base'
    OBVIOUS
  <1>1. CASE \/ \E w \in Workers, q \in Requests, now \in 0 .. clock : NextRule(w, q, now)
             \/ \E now \in 0 .. clock : Status(now)
             \/ \E t \in Tools : OpenDb(t) \/ CloseDb(t) \/ KillTool(t)
             \/ OperatorResets \/ Tick
             \/ UNCHANGED vars
    BY <1>1, BaseOfTables
  <1>2. ASSUME NEW s \in Slots, ApplyDisposition(s) PROVE Base'
    <2>1. CASE GitAdd(s)
      BY <2>1, BaseOfGitAdd
    <2>2. CASE GitCommit(s)
      BY <2>2, BaseOfGitCommit
    <2>3. CASE Amend(s)
      BY <2>3, BaseOfAmend
    <2>4. CASE \/ \E c \in Candidates, d \in Dispositions : ValidateLease(s, c, d)
               \/ CheckClean(s) \/ Refused(s) \/ BackUp(s) \/ Fails(s) \/ Crash(s)
               \/ BeginWrite(s) \/ CommitWrite(s) \/ RestoreDatabase(s)
               \/ RestoreSnapshot(s)
      BY <2>4, BaseOfCalls
    <2>. QED  BY <1>2, <2>1, <2>2, <2>3, <2>4 DEF ApplyDisposition
  <1>3. CASE Rollback
    BY <1>3, BaseOfRollback
  <1>4. CASE OperatorCommits
    BY <1>4, BaseOfOperator
  <1>. QED  BY <1>1, <1>2, <1>3, <1>4 DEF Next

LEMMA BaseHolds == Spec => []Base
  BY InitTypes, BaseStep, PTL DEF Spec

\* Every variable has its type, and a call that writes has the write lock
\* (_apply_disposition and BEGIN IMMEDIATE): for any number of dispositions in
\* flight and calls of the other tools between their steps.
THEOREM TypeCorrect == Spec => []TypeOK
  <1>1. Base => TypeOK
    BY DEF Base
  <1>. QED  BY <1>1, BaseHolds, PTL

-----------------------------------------------------------------------------
\* One live lease per worker and request: in the table and in every copy of it,
\* since each copy may be written back.

OneLiveAt(t, now) ==
    \A c, d \in Candidates :
        /\ t[c] # None /\ t[c].at + LeaseTime > now
        /\ t[d] # None /\ t[d].at + LeaseTime > now
        /\ t[c].worker = t[d].worker /\ t[c].request = t[d].request
        => c = d

Kept ==
    /\ OneLiveAt(leases, clock) /\ OneLiveAt(disk.leases, clock)
    /\ \A s \in Slots :
         calls[s].at \in LaterSteps => OneLiveAt(calls[s].db.leases, clock)
    /\ ~DatabaseIgnored =>
         /\ \A i \in 1 .. Len(history) : OneLiveAt(history[i].tree.db.leases, clock)
         /\ staged # None => OneLiveAt(staged.db.leases, clock)

\* Time only ends leases.
LEMMA LaterLive ==
    ASSUME NEW t \in LeaseTables, NEW now \in Nat, NEW later \in Nat, now <= later,
           OneLiveAt(t, now)
    PROVE  OneLiveAt(t, later)
  <1>. SUFFICES ASSUME NEW c \in Candidates, NEW d \in Candidates,
                       t[c] # None, t[c].at + LeaseTime > later,
                       t[d] # None, t[d].at + LeaseTime > later,
                       t[c].worker = t[d].worker, t[c].request = t[d].request
                PROVE  c = d
    BY DEF OneLiveAt
  <1>1. t[c].at \in Nat /\ t[d].at \in Nat
    BY DEF LeaseTables, Leases
  <1>2. t[c].at + LeaseTime > now /\ t[d].at + LeaseTime > now
    BY <1>1
  <1>. QED  BY <1>2 DEF OneLiveAt

\* A sweep only takes leases away.
LEMMA SweptOneLive ==
    ASSUME Base, NEW now \in 0 .. clock, OneLiveAt(leases, clock)
    PROVE  OneLiveAt(Swept(now), clock)
  <1>. SUFFICES ASSUME NEW c \in Candidates, NEW d \in Candidates,
                       Swept(now)[c] # None, Swept(now)[c].at + LeaseTime > clock,
                       Swept(now)[d] # None, Swept(now)[d].at + LeaseTime > clock,
                       Swept(now)[c].worker = Swept(now)[d].worker,
                       Swept(now)[c].request = Swept(now)[d].request
                PROVE  c = d
    BY DEF OneLiveAt
  <1>1. Swept(now)[c] = leases[c] /\ Swept(now)[d] = leases[d]
    BY SweptType DEF Base, TypeOK
  <1>. QED  BY <1>1 DEF OneLiveAt

\* A lease is given only to a worker that has none for the request: what its
\* call swept had run out by then, so the worker has no other that still runs.
LEMMA NextRuleOneLive ==
    ASSUME Base, NEW w \in Workers, NEW q \in Requests, NEW now \in 0 .. clock,
           NextRule(w, q, now), OneLiveAt(leases, clock)
    PROVE  OneLiveAt(leases', clock)
  <1>1. OneLiveAt(Swept(now), clock) /\ now \in Nat /\ clock \in Nat /\ now <= clock
    BY SweptOneLive DEF Base, TypeOK
  <1>2. Swept(now) \in LeaseTables
    BY <1>1, SweptType DEF Base, TypeOK
  <1>3. CASE leases' = Swept(now)
    BY <1>1, <1>3
  <1>4. ASSUME Own(w, q, now) = {}, NEW c \in Free(q, now),
               leases' = [Swept(now) EXCEPT
                            ![c] = [cand |-> c, worker |-> w, request |-> q, at |-> now]]
        PROVE  OneLiveAt(leases', clock)
    <2>1. c \in Candidates
      BY DEF Free
    <2>. DEFINE lease == [cand |-> c, worker |-> w, request |-> q, at |-> now]
    <2>2. lease.worker = w /\ lease.request = q
      OBVIOUS
    <2>3. leases' = [Swept(now) EXCEPT ![c] = lease]
      BY <1>4
    <2>. HIDE DEF lease
    <2>4. /\ leases'[c] = lease
          /\ \A d \in Candidates \ {c} : leases'[d] = Swept(now)[d]
      BY <1>2, <2>1, <2>3 DEF LeaseTables
    <2>5. ASSUME NEW d \in Candidates, d # c, leases'[d] # None,
                 leases'[d].at + LeaseTime > clock
          PROVE  ~(leases'[d].worker = w /\ leases'[d].request = q)
      <3>1. leases'[d] = Swept(now)[d]
        BY <2>4, <2>5
      <3>2. d \notin Own(w, q, now)
        BY <1>4
      <3>. QED  BY <2>5, <3>1, <3>2 DEF Own
    <2>6. SUFFICES ASSUME NEW d \in Candidates, NEW e \in Candidates,
                          leases'[d] # None, leases'[d].at + LeaseTime > clock,
                          leases'[e] # None, leases'[e].at + LeaseTime > clock,
                          leases'[d].worker = leases'[e].worker,
                          leases'[d].request = leases'[e].request
                   PROVE  d = e
      BY DEF OneLiveAt
    <2>7. CASE d # c /\ e # c
      BY <1>1, <2>4, <2>6, <2>7 DEF OneLiveAt
    <2>8. CASE d = c \/ e = c
      BY <2>2, <2>4, <2>5, <2>6, <2>8
    <2>. QED  BY <2>7, <2>8
  <1>. QED  BY <1>3, <1>4 DEF NextRule

\* What a close writes to the file is kept, too.
LEMMA ClosesKept ==
    ASSUME Base, Kept, NEW ts, Closes(ts), clock' \in Nat, clock <= clock',
           OneLiveAt(leases', clock')
    PROVE  OneLiveAt(disk'.leases, clock')
  <1>1. disk.leases \in LeaseTables /\ clock \in Nat
    BY DEF Base, TypeOK, Databases
  <1>2. OneLiveAt(disk.leases, clock')
    BY <1>1, LaterLive DEF Kept
  <1>. QED  BY <1>2 DEF Closes

\* So is what is read when bytes that were kept are put under the -wal.
LEMMA UnderKept ==
    ASSUME Kept, NEW b, Under(b), OneLiveAt(b.leases, clock)
    PROVE  OneLiveAt(leases', clock) /\ OneLiveAt(disk'.leases, clock)
  BY DEF Under, Kept

\* A step whose tables all come from tables that were kept.
LEMMA KeptBy ==
    ASSUME Base, Kept, clock' \in Nat, clock <= clock',
           OneLiveAt(leases', clock'), OneLiveAt(disk'.leases, clock'),
           \A t \in Slots : calls'[t].at \in LaterSteps =>
              \/ calls'[t].db = disk
              \/ calls[t].at \in LaterSteps /\ calls'[t].db = calls[t].db,
           DatabaseIgnored' <=> DatabaseIgnored,
           ~DatabaseIgnored =>
              /\ \A i \in 1 .. Len(history') :
                   \/ history'[i].tree.db = disk
                   \/ staged # None /\ history'[i].tree.db = staged.db
                   \/ \E j \in 1 .. Len(history) : history'[i].tree = history[j].tree
              /\ staged' # None => staged' = staged \/ staged'.db = disk
    PROVE  Kept'
  <1>1. clock \in Nat /\ disk \in Databases
    BY DEF Base, TypeOK
  <1>2. ASSUME NEW db \in Databases, OneLiveAt(db.leases, clock)
        PROVE  OneLiveAt(db.leases, clock')
    <2>1. db.leases \in LeaseTables
      BY DEF Databases
    <2>. QED  BY <1>1, <1>2, <2>1, LaterLive
  <1>3. OneLiveAt(disk.leases, clock')
    BY <1>1, <1>2 DEF Kept
  <1>4. ASSUME NEW t \in Slots, calls[t].at \in LaterSteps
        PROVE  OneLiveAt(calls[t].db.leases, clock')
    <2>1. calls[t] \in AfterBackUp
      BY <1>4, CallAt DEF Base, TypeOK, Calls
    <2>2. calls[t].db \in Databases
      BY <2>1 DEF AfterBackUp
    <2>. QED  BY <1>2, <1>4, <2>2 DEF Kept
  <1>5. ASSUME ~DatabaseIgnored, NEW i \in 1 .. Len(history)
        PROVE  OneLiveAt(history[i].tree.db.leases, clock')
    <2>1. history[i].tree.db \in Databases
      BY <1>5 DEF Base, Fits
    <2>. QED  BY <1>2, <1>5, <2>1 DEF Kept
  <1>6. ASSUME ~DatabaseIgnored, staged # None
        PROVE  OneLiveAt(staged.db.leases, clock')
    <2>1. staged.db \in Databases
      BY <1>6 DEF Base, Fits
    <2>. QED  BY <1>2, <1>6, <2>1 DEF Kept
  <1>7. \A t \in Slots : calls'[t].at \in LaterSteps => OneLiveAt(calls'[t].db.leases, clock')
    BY <1>3, <1>4
  <1>8. ASSUME ~DatabaseIgnored, NEW i \in 1 .. Len(history')
        PROVE  OneLiveAt(history'[i].tree.db.leases, clock')
    BY <1>3, <1>5, <1>6, <1>8
  <1>9. ~DatabaseIgnored /\ staged' # None => OneLiveAt(staged'.db.leases, clock')
    BY <1>3, <1>6
  <1>. QED  BY <1>7, <1>8, <1>9 DEF Kept

LEMMA KeptOfCalls ==
    ASSUME Base, Base', Kept, NEW s \in Slots, ApplyDisposition(s)
    PROVE  Kept'
  <1>1. clock' = clock /\ clock \in Nat
    BY DEF Base, TypeOK, ApplyDisposition, ValidateLease, CheckClean, Refused, BackUp,
           BeginWrite, CommitWrite, GitAdd, GitCommit, Amend, Fails, RestoreDatabase,
           RestoreSnapshot, Crash
  <1>2. \A t \in Slots : calls'[t].at \in LaterSteps =>
              \/ calls'[t].db = disk
              \/ calls[t].at \in LaterSteps /\ calls'[t].db = calls[t].db
    BY CallStep DEF Untouched
  <1>3. OneLiveAt(leases', clock') /\ OneLiveAt(disk'.leases, clock')
    <2>1. CASE RestoreDatabase(s)
      <3>1. calls[s].at \in LaterSteps /\ Under(calls[s].db)
        BY <2>1 DEF RestoreDatabase, LaterSteps
      <3>2. OneLiveAt(calls[s].db.leases, clock)
        BY <3>1 DEF Kept
      <3>. QED  BY <1>1, <3>1, <3>2, UnderKept
    <2>2. CASE ~RestoreDatabase(s)
      <3>1. leases' = leases
        BY <2>2 DEF ApplyDisposition, ValidateLease, CheckClean, Refused, BackUp,
           BeginWrite, CommitWrite, GitAdd, GitCommit, Amend, Fails,
           RestoreSnapshot, Crash, stores
      <3>2. OneLiveAt(leases', clock')
        BY <1>1, <3>1 DEF Kept
      <3>3. disk' = disk \/ \E ts : Closes(ts)
        BY <2>2 DEF ApplyDisposition, ValidateLease, CheckClean, Refused, BackUp,
           BeginWrite, CommitWrite, GitAdd, GitCommit, Amend, Fails,
           RestoreSnapshot, Crash, stores, file
      <3>4. CASE disk' = disk
        BY <1>1, <3>2, <3>4 DEF Kept
      <3>5. CASE \E ts : Closes(ts)
        BY <1>1, <3>2, <3>5, ClosesKept
      <3>. QED  BY <3>2, <3>3, <3>4, <3>5
    <2>. QED  BY <2>1, <2>2
  <1>4. CASE GitAdd(s)
    <2>1. history' = history /\ (DatabaseIgnored' <=> DatabaseIgnored)
      BY <1>4, BaseOfGitAdd
    <2>2. ~DatabaseIgnored => staged'.db = disk
      BY <1>4, TreeType DEF GitAdd, Base
    <2>3. \A i \in 1 .. Len(history') : history'[i].tree = history[i].tree
      BY <2>1
    <2>. QED  BY <1>1, <1>2, <1>3, <2>1, <2>2, <2>3, KeptBy
  <1>5. CASE GitCommit(s)
    <2>0. /\ (DatabaseIgnored' <=> DatabaseIgnored)
          /\ Len(history') = Len(history) + 1
          /\ history'[Len(history')] = [tree |-> staged, cand |-> calls[s].lease.cand]
          /\ \A i \in 1 .. Len(history) : history'[i] = history[i]
      BY <1>5, BaseOfGitCommit
    <2>1. /\ (DatabaseIgnored' <=> DatabaseIgnored)
          /\ Len(history') = Len(history) + 1
          /\ history'[Len(history')].tree = staged
          /\ \A i \in 1 .. Len(history) : history'[i] = history[i]
      BY <2>0
    <2>2. staged # None /\ staged' = None
      BY <1>5 DEF GitCommit
    <2>3. \A i \in 1 .. Len(history') : i \in 1 .. Len(history) \/ i = Len(history')
      BY <2>1 DEF Base, TypeOK
    <2>4. ASSUME NEW i \in 1 .. Len(history')
          PROVE  \/ history'[i].tree.db = staged.db
                 \/ \E j \in 1 .. Len(history) : history'[i].tree = history[j].tree
      BY <2>1, <2>3
    <2>. QED  BY <1>1, <1>2, <1>3, <2>1, <2>2, <2>4, KeptBy
  <1>6. CASE Amend(s)
    <2>1. /\ (DatabaseIgnored' <=> DatabaseIgnored)
          /\ Len(history') = Len(history)
          /\ \A i \in 1 .. Len(history) :
               i # Len(history) \/ staged = None => history'[i] = history[i]
          /\ staged # None => history'[Len(history)].tree = staged
      BY <1>6, BaseOfAmend
    <2>2. staged' = None
      BY <1>6 DEF Amend
    <2>3. ASSUME NEW i \in 1 .. Len(history')
          PROVE  \/ staged # None /\ history'[i].tree.db = staged.db
                 \/ \E j \in 1 .. Len(history) : history'[i].tree = history[j].tree
      BY <2>1
    <2>. QED  BY <1>1, <1>2, <1>3, <2>1, <2>2, <2>3, KeptBy
  <1>7. CASE UNCHANGED <<staged, history>>
    <2>1. DatabaseIgnored' <=> DatabaseIgnored
      BY <1>7, SameFirstCommit
    <2>2. \A i \in 1 .. Len(history') : history'[i].tree = history[i].tree
      BY <1>7
    <2>. QED  BY <1>1, <1>2, <1>3, <1>7, <2>1, <2>2, KeptBy
  <1>. QED  BY <1>4, <1>5, <1>6, <1>7
            DEF ApplyDisposition, ValidateLease, CheckClean, Refused, BackUp,
                BeginWrite, CommitWrite, Fails, RestoreDatabase, RestoreSnapshot,
                Crash, git

LEMMA KeptStep == Base /\ Kept /\ [Next]_vars => Kept'
  <1>. SUFFICES ASSUME Base, Kept, [Next]_vars PROVE Kept'
    OBVIOUS
  <1>1. Base' /\ clock \in Nat
    BY BaseStep DEF Base, TypeOK
  <1>2. ASSUME NEW s \in Slots, ApplyDisposition(s) PROVE Kept'
    BY <1>1, <1>2, KeptOfCalls
  <1>3. ASSUME history' = history, staged' \in {staged, None}, calls' = calls,
               clock' \in Nat, clock <= clock', OneLiveAt(leases', clock'),
               disk' = disk \/ \E ts : Closes(ts)
        PROVE  Kept'
    <2>1. DatabaseIgnored' <=> DatabaseIgnored
      BY <1>3, SameFirstCommit
    <2>2. \A i \in 1 .. Len(history') : history'[i].tree = history[i].tree
      BY <1>3
    <2>3. OneLiveAt(disk'.leases, clock')
      <3>1. disk.leases \in LeaseTables
        BY DEF Base, TypeOK, Databases
      <3>2. CASE disk' = disk
        BY <1>1, <1>3, <3>1, <3>2, LaterLive DEF Kept
      <3>3. CASE \E ts : Closes(ts)
        BY <1>3, <3>3, ClosesKept
      <3>. QED  BY <1>3, <3>2, <3>3
    <2>. QED  BY <1>3, <2>1, <2>2, <2>3, KeptBy
  <1>4. ASSUME NEW w \in Workers, NEW q \in Requests, NEW now \in 0 .. clock,
               NextRule(w, q, now)
        PROVE  Kept'
    <2>1. OneLiveAt(leases', clock)
      BY <1>4, NextRuleOneLive DEF Kept
    <2>2. /\ UNCHANGED <<clock, records, snapshot, tools, git, lock, calls, receipts, clobbered>>
          /\ Closes(IF leases' = leases THEN {} ELSE {"leases"})
      BY <1>4 DEF NextRule
    <2>. QED  BY <1>1, <1>3, <2>1, <2>2 DEF git
  <1>5. ASSUME NEW now \in 0 .. clock, Status(now) PROVE Kept'
    <2>1. OneLiveAt(Swept(now), clock)
      BY SweptOneLive DEF Kept
    <2>. QED  BY <1>1, <1>3, <1>5, <2>1 DEF Status, git
  <1>6. CASE Tick
    <2>1. clock' \in Nat /\ clock <= clock' /\ leases' = leases /\ disk' = disk
      BY <1>1, <1>6 DEF Tick, stores, file
    <2>2. OneLiveAt(leases', clock')
      BY <1>1, <2>1, LaterLive DEF Kept, Base, TypeOK
    <2>. QED  BY <1>3, <1>6, <2>1, <2>2 DEF Tick, git
  <1>7. CASE \/ \E t \in Tools : OpenDb(t) \/ CloseDb(t) \/ KillTool(t)
             \/ OperatorResets \/ UNCHANGED vars
    <2>1. /\ history' = history /\ staged' \in {staged, None} /\ calls' = calls
          /\ clock' = clock /\ leases' = leases
          /\ disk' = disk \/ Closes({})
      BY <1>7 DEF OpenDb, CloseDb, KillTool, OperatorResets, vars, stores, file, git
    <2>. QED  BY <1>1, <1>3, <2>1 DEF Kept
  <1>8. CASE Rollback
    <2>1. /\ (DatabaseIgnored' <=> DatabaseIgnored)
          /\ Len(history') = Len(history) + 1
          /\ history'[Len(history')].tree = history[Len(history) - 1].tree
          /\ \A i \in 1 .. Len(history) : history'[i] = history[i]
      BY <1>8, BaseOfRollback
    <2>2. Len(history) - 1 \in 1 .. Len(history)
      BY <1>8, RollbackIs
    <2>3. \A i \in 1 .. Len(history') : i \in 1 .. Len(history) \/ i = Len(history')
      BY <2>1 DEF Base, TypeOK
    <2>4. \A i \in 1 .. Len(history') :
             \E j \in 1 .. Len(history) : history'[i].tree = history[j].tree
      BY <2>1, <2>2, <2>3
    <2>5. /\ clock' = clock /\ staged' = staged /\ calls' = Overtaken(None)
          /\ IF DatabaseIgnored THEN UNCHANGED <<records, leases, file>>
             ELSE Under(history[Len(history) - 1].tree.db)
      BY <1>8 DEF Rollback
    <2>6. OneLiveAt(leases', clock') /\ OneLiveAt(disk'.leases, clock')
      <3>1. CASE DatabaseIgnored
        BY <2>5, <3>1 DEF Kept, file
      <3>2. CASE ~DatabaseIgnored
        <4>1. OneLiveAt(history[Len(history) - 1].tree.db.leases, clock)
          BY <2>2, <3>2 DEF Kept
        <4>. QED  BY <2>5, <3>2, <4>1, UnderKept
      <3>. QED  BY <3>1, <3>2
    <2>7. clock' \in Nat /\ clock <= clock'
      BY <1>1, <2>5
    <2>8. \A t \in Slots : calls'[t].at \in LaterSteps =>
              calls[t].at \in LaterSteps /\ calls'[t].db = calls[t].db
      <3>1. calls \in [Slots -> Calls] /\ \A t \in Slots : t \in Slots \ {None}
        BY DEF Base, TypeOK, Calls
      <3>2. \A t \in Slots : Untouched(t)
        BY <2>5, <3>1, OvertakenUntouched
      <3>. QED  BY <3>2 DEF Untouched
    <2>. QED  BY <2>1, <2>4, <2>5, <2>6, <2>7, <2>8, KeptBy
  <1>9. CASE OperatorCommits
    <2>1. /\ clock' = clock /\ staged' = None /\ calls' = calls
          /\ leases' = leases /\ disk' = disk
          /\ (DatabaseIgnored' <=> DatabaseIgnored)
          /\ \/ history' = history
             \/ /\ Len(history') = Len(history) + 1
                /\ history'[Len(history')] = [tree |-> Tree, cand |-> None]
                /\ \A i \in 1 .. Len(history) : history'[i] = history[i]
      BY <1>9, BaseOfOperator DEF OperatorCommits, stores, file
    <2>2. CASE history' = history
      BY <1>1, <1>3, <2>1, <2>2 DEF Kept
    <2>3. CASE /\ Len(history') = Len(history) + 1
               /\ history'[Len(history')] = [tree |-> Tree, cand |-> None]
               /\ \A i \in 1 .. Len(history) : history'[i] = history[i]
      <3>1. \A i \in 1 .. Len(history') : i \in 1 .. Len(history) \/ i = Len(history')
        BY <2>3 DEF Base, TypeOK
      <3>2. ~DatabaseIgnored => history'[Len(history')].tree.db = disk
        BY <2>3, TreeType DEF Base
      <3>3. ~DatabaseIgnored => \A i \in 1 .. Len(history') :
               \/ history'[i].tree.db = disk
               \/ \E j \in 1 .. Len(history) : history'[i].tree = history[j].tree
        BY <2>3, <3>1, <3>2
      <3>. QED  BY <1>1, <2>1, <3>3, KeptBy DEF Kept
    <2>. QED  BY <2>1, <2>2, <2>3
  <1>10. CASE Next
    BY <1>2, <1>4, <1>5, <1>6, <1>7, <1>8, <1>9, <1>10 DEF Next
  <1>. QED  BY <1>7, <1>10

\* A worker never holds two live leases for one mode and family
\* (_active_worker_lease under BEGIN IMMEDIATE), whatever clocks the calls read,
\* whatever a failed disposition or a rollback puts back, and however many
\* dispositions are in flight.
THEOREM OneLeasePerRequestHolds == Spec => []OneLeasePerRequest
  <1>1. Init => Kept
    <2>. SUFFICES ASSUME Init PROVE Kept
      OBVIOUS
    <2>1. \A c \in Candidates : leases[c] = None
      BY DEF Init
    <2>2. \A s \in Slots : calls[s].at = "idle"
      BY DEF Init, IdleCall
    <2>3. PICK ignored \in Checkouts :
            history = <<[tree |-> [db |-> IF ignored THEN None ELSE disk,
                                   snapshot |-> snapshot],
                         cand |-> None]>>
      BY DEF Init
    <2>4. history[1].tree.db = (IF ignored THEN None ELSE disk) /\ disk.leases = leases
      BY <2>3 DEF Init
    <2>5. ~DatabaseIgnored => history[1].tree.db.leases = leases
      BY <2>4 DEF DatabaseIgnored
    <2>6. \A i \in 1 .. Len(history) : i = 1
      BY <2>3
    <2>7. OneLiveAt(leases, clock) /\ OneLiveAt(disk.leases, clock)
      BY <2>1, <2>4 DEF OneLiveAt
    <2>8. staged = None
      BY DEF Init
    <2>9. ~DatabaseIgnored =>
             \A i \in 1 .. Len(history) : OneLiveAt(history[i].tree.db.leases, clock)
      BY <2>5, <2>6, <2>7
    <2>. QED  BY <2>2, <2>7, <2>8, <2>9 DEF Kept, LaterSteps
  <1>2. Kept => OneLeasePerRequest
    BY DEF Kept, OneLiveAt, OneLeasePerRequest, Live
  <1>. QED  BY <1>1, <1>2, KeptStep, BaseHolds, PTL DEF Spec

-----------------------------------------------------------------------------
\* Dispositions.

\* What r disposes of, p disposes of; r disposes of C.
Covers(r, p) == \A c \in Candidates : r[c].status # "open" => p[c].status # "open"
DisposedIn(r, C) == \A c \in C : r[c].status # "open"

\* The steps of a call whose disposition is in SQLite and not undone yet.
Pending == {"written", "added"} \cup Committed

\* HEAD disposes of c, and so does its parent unless HEAD is what disposed of it.
InHead(c) ==
    /\ Len(history) >= 2 /\ HeadCommit.tree.db.records[c].status # "open"
    /\ \/ HeadCommit.cand = c
       \/ history[Len(history) - 1].tree.db.records[c].status # "open"

\* What a call that has backed up has done so far is still there.
Progress(s) ==
    /\ calls[s].at \in {"writing", "stamping"} => Covers(Disposed(s), snapshot)
    /\ calls[s].at \in Pending => records[calls[s].lease.cand].status # "open"
    /\ calls[s].at \in {"added"} \cup Committed /\ staged # None =>
         staged.db.records[calls[s].lease.cand].status # "open"
    /\ calls[s].at \in Committed => InHead(calls[s].lease.cand)

\* What it has backed up takes nothing back that others have done.
Faithful(s) ==
    /\ Covers(calls[s].db.records, calls[s].snapshot)
    /\ Covers(calls[s].db.records, records)
    /\ DisposedIn(calls[s].db.records, receipts)
    /\ \A t \in Slots \ {s} :
         calls[t].at \in Pending => calls[s].db.records[calls[t].lease.cand].status # "open"
    /\ calls[s].at = "restored" => records = calls[s].db.records /\ lock = None

CallSound(s) == Progress(s) /\ (calls[s].stale \/ Faithful(s))

\* Every tree in git holds what its snapshot files say, the index and HEAD every
\* receipt, and the tree a rollback goes back to every receipt but that of HEAD.
InGit ==
    /\ \A i \in 1 .. Len(history) :
         Covers(history[i].tree.db.records, history[i].tree.snapshot)
    /\ \A c \in receipts : InHead(c)
    /\ staged # None => /\ Covers(staged.db.records, staged.snapshot)
                        /\ DisposedIn(staged.db.records, receipts)

Sound ==
    /\ Covers(records, snapshot) /\ DisposedIn(records, receipts)
    /\ "records" \notin frames => disk.records = records
    /\ \A s \in Slots : calls[s].at \in LaterSteps => CallSound(s)
    /\ ~DatabaseIgnored => InGit
    /\ DatabaseIgnored =>
         receipts = {} /\ \A i \in 1 .. Len(history) : history[i].cand = None

Disposals == ~clobbered => Sound

\* A transaction of a disposition takes no disposition back.
LEMMA DisposedCovers ==
    ASSUME TypeOK, NEW s \in Slots, calls[s].at \in LaterSteps
    PROVE  /\ Covers(records, Disposed(s))
           /\ calls[s].lease.cand \in Candidates
           /\ calls[s].at \in {"backedUp", "writing"} =>
                Disposed(s)[calls[s].lease.cand].status # "open"
  <1>1. calls[s].lease \in Leases /\ calls[s].as \in Dispositions
    BY CallAt DEF TypeOK, Calls, LaterSteps
  <1>2. calls[s].lease.cand \in Candidates /\ calls[s].as # "open"
    BY <1>1 DEF Leases
  <1>. DEFINE d == Disposed(s)
              cand == calls[s].lease.cand
  <1>3. /\ \A c \in Candidates \ {cand} : d[c] = records[c]
        /\ calls[s].at \in {"backedUp", "writing"} => d[cand].status = calls[s].as
        /\ calls[s].at \notin {"backedUp", "writing"} =>
             d[cand].status = records[cand].status
    BY DisposedType
  <1>. HIDE DEF d, cand
  <1>4. Covers(records, d)
    BY <1>2, <1>3 DEF Covers
  <1>. QED  BY <1>2, <1>3, <1>4 DEF d, cand

\* After a close, the file lacks of the records what the -wal has.
LEMMA FileOfClose ==
    ASSUME Sound, NEW ts, Closes(ts), records' = records \/ "records" \in ts
    PROVE  "records" \notin frames' => disk'.records = records'
  BY DEF Sound, Closes

LEMMA SameInHead ==
    ASSUME history' = history
    PROVE  HeadCommit' = HeadCommit /\ \A c \in Candidates : InHead(c)' <=> InHead(c)
  BY DEF InHead, HeadCommit

\* A step that leaves git and the receipts alone, or empties the index.
LEMMA SoundStores ==
    ASSUME Base, Sound, UNCHANGED <<history, receipts>>, staged' \in {staged, None},
           Covers(records', snapshot'), DisposedIn(records', receipts),
           "records" \notin frames' => disk'.records = records',
           \A s \in Slots : calls'[s].at \in LaterSteps => CallSound(s)'
    PROVE  Sound'
  <1>1. DatabaseIgnored' <=> DatabaseIgnored
    BY SameFirstCommit
  <1>2. receipts \subseteq Candidates
    BY DEF Base, TypeOK
  <1>3. ~DatabaseIgnored => InGit'
    BY <1>2, SameInHead DEF Sound, InGit
  <1>. QED  BY <1>1, <1>3 DEF Sound

\* A step of s that writes to no store, for another call t on the candidate c.
LEMMA OthersKept ==
    ASSUME Base, Sound, NEW s \in Slots, UNCHANGED <<records, snapshot>>,
           lock' \in {lock, None},
           \A u \in Slots \ {s} : calls'[u] = calls[u],
           calls'[s].at \in Pending =>
              calls[s].at \in Pending /\ calls'[s].lease = calls[s].lease,
           \/ receipts' = receipts
           \/ calls[s].at \in Pending /\ receipts' = receipts \cup {calls[s].lease.cand},
           NEW t \in Slots \ {s}, calls[t].at \in LaterSteps,
           NEW c \in Candidates, c = calls[t].lease.cand,
           calls[t].at \in {"added"} \cup Committed /\ staged' # None =>
              staged'.db.records[c].status # "open",
           calls[t].at \in Committed => InHead(c)'
    PROVE  CallSound(t)'
  <1>1. calls'[t] = calls[t] /\ CallSound(t)
    BY DEF Sound
  <1>2. Disposed(t)' = Disposed(t)
    BY <1>1 DEF Disposed
  <1>3. InHead(calls[t].lease.cand)' <=> InHead(c)'
    BY <1>1 DEF InHead
  <1>4. Progress(t)'
    BY <1>1, <1>2, <1>3 DEF CallSound, Progress
  <1>5. ASSUME ~calls[t].stale PROVE Faithful(t)'
    <2>1. Faithful(t)
      BY <1>1, <1>5 DEF CallSound
    <2>2. DisposedIn(calls[t].db.records, receipts')
      BY <2>1 DEF Faithful, DisposedIn
    <2>3. \A u \in Slots \ {t} : calls'[u].at \in Pending =>
            calls[u].at \in Pending /\ calls'[u].lease = calls[u].lease
      OBVIOUS
    <2>4. \A u \in Slots \ {t} : calls'[u].at \in Pending =>
            calls[t].db.records[calls'[u].lease.cand].status # "open"
      BY <2>1, <2>3 DEF Faithful
    <2>5. calls[t].at = "restored" => records' = calls[t].db.records /\ lock' = None
      BY <2>1 DEF Faithful
    <2>. QED  BY <1>1, <2>1, <2>2, <2>4, <2>5 DEF Faithful
  <1>. QED  BY <1>1, <1>4, <1>5 DEF CallSound

\* A step of s that writes to a store, for another call.
LEMMA OthersOvertaken ==
    ASSUME Base, Sound, NEW s \in Slots, UNCHANGED <<staged, history>>,
           NEW t \in Slots \ {s}, Untouched(t), calls[t].at \in LaterSteps, calls'[t].stale,
           calls[t].at \notin {"writing", "stamping"},
           calls[t].at \in Pending => records'[calls[t].lease.cand].status # "open"
    PROVE  CallSound(t)'
  <1>1. /\ calls'[t].at = calls[t].at /\ calls'[t].lease = calls[t].lease
        /\ Progress(t)
    BY DEF Untouched, Sound, CallSound
  <1>2. InHead(calls[t].lease.cand)' <=> InHead(calls[t].lease.cand)
    BY <1>1 DEF InHead, HeadCommit
  <1>3. Progress(t)'
    BY <1>1, <1>2 DEF Progress, Committed
  <1>. QED  BY <1>3 DEF CallSound

\* The steps of a call that only read, or fail.
LEMMA SoundOfReads ==
    ASSUME Base, Sound, NEW s \in Slots,
           \/ \E c \in Candidates, d \in Dispositions : ValidateLease(s, c, d)
           \/ CheckClean(s) \/ Refused(s) \/ BackUp(s) \/ Fails(s) \/ Crash(s)
    PROVE  Sound'
  <1>1. /\ UNCHANGED <<records, snapshot, history, receipts, staged>>
        /\ lock' \in {lock, None}
        /\ UNCHANGED file \/ Closes({})
    BY DEF ValidateLease, CheckClean, Refused, BackUp, Fails, Crash, stores, git, given
  <1>2. "records" \notin frames' => disk'.records = records'
    <2>1. CASE UNCHANGED file
      BY <1>1, <2>1 DEF file, Sound
    <2>2. CASE Closes({})
      BY <1>1, <2>2, FileOfClose
    <2>. QED  BY <1>1, <2>1, <2>2
  <1>3. calls \in [Slots -> Calls] /\ IdleCall.at = "idle"
    BY DEF Base, TypeOK, Calls, IdleCall
  <1>4. \A t \in Slots \ {s} : calls'[t] = calls[t]
    BY <1>3 DEF ValidateLease, CheckClean, Refused, BackUp, Fails, Crash, Goto
  <1>5. calls'[s].at \notin Pending /\ (calls'[s].at \in LaterSteps => CallSound(s)')
    <2>1. CASE CheckClean(s)
      <3>1. calls[s] \in BeforeBackUp
        BY <1>3, <2>1, CallAt DEF CheckClean
      <3>2. calls'[s].at = "clean"
        BY <1>3, <2>1, <3>1 DEF CheckClean, Goto, BeforeBackUp
      <3>. QED  BY <3>2 DEF LaterSteps, Pending, Committed
    <2>2. CASE \/ \E c \in Candidates, d \in Dispositions : ValidateLease(s, c, d)
               \/ Refused(s) \/ Crash(s)
      <3>1. calls'[s].at \in {"validated", "idle"}
        BY <1>3, <2>2 DEF ValidateLease, Refused, Crash
      <3>. QED  BY <3>1 DEF LaterSteps, Pending, Committed
    <2>3. CASE BackUp(s)
      <3>1. /\ calls'[s].at = "backedUp" /\ calls'[s].db = disk
            /\ calls'[s].snapshot = snapshot /\ calls'[s].stale = (disk.records # records)
        BY <1>3, <2>3 DEF BackUp
      <3>2. Progress(s)'
        BY <3>1 DEF Progress, Pending, Committed
      <3>3. ASSUME disk.records = records PROVE Faithful(s)'
        <4>1. /\ Covers(calls'[s].db.records, calls'[s].snapshot)
              /\ Covers(calls'[s].db.records, records')
              /\ DisposedIn(calls'[s].db.records, receipts')
          BY <1>1, <3>1, <3>3 DEF Sound, Covers
        <4>2. ASSUME NEW t \in Slots \ {s}, calls'[t].at \in Pending
              PROVE  calls'[s].db.records[calls'[t].lease.cand].status # "open"
          <5>1. calls'[t] = calls[t] /\ calls[t].at \in Pending
            BY <1>4, <4>2
          <5>2. Progress(t)
            BY <5>1 DEF Sound, CallSound, LaterSteps, Pending, Committed
          <5>. QED  BY <3>1, <3>3, <5>1, <5>2 DEF Progress
        <4>. QED  BY <3>1, <4>1, <4>2 DEF Faithful
      <3>. QED  BY <3>1, <3>2, <3>3 DEF CallSound, Pending, Committed
    <2>4. CASE Fails(s)
      <3>1. calls[s].at \in LaterSteps /\ Goto(s, "failed") /\ "failed" \in LaterSteps
        BY <2>4 DEF Fails, LaterSteps
      <3>2. /\ calls'[s].at = "failed" /\ calls'[s].db = calls[s].db
            /\ calls'[s].snapshot = calls[s].snapshot /\ calls'[s].stale = calls[s].stale
        BY <1>3, <3>1, GotoMoves
      <3>3. CallSound(s)
        BY <3>1 DEF Sound
      <3>4. Progress(s)'
        BY <3>2 DEF Progress, Pending, Committed
      <3>5. Faithful(s) => Faithful(s)'
        BY <1>1, <1>4, <3>2 DEF Faithful
      <3>. QED  BY <3>2, <3>3, <3>4, <3>5 DEF CallSound, Pending, Committed
    <2>. QED  BY <2>1, <2>2, <2>3, <2>4
  <1>6. ASSUME NEW t \in Slots \ {s}, calls'[t].at \in LaterSteps
        PROVE  CallSound(t)'
    <2>1. calls[t].at \in LaterSteps
      BY <1>4, <1>6
    <2>2. calls[t].lease.cand \in Candidates /\ Progress(t)
      BY <2>1, DisposedCovers DEF Base, Sound, CallSound
    <2>3. /\ calls[t].at \in {"added"} \cup Committed /\ staged' # None =>
               staged'.db.records[calls[t].lease.cand].status # "open"
          /\ calls[t].at \in Committed => InHead(calls[t].lease.cand)
      BY <1>1, <2>2 DEF Progress
    <2>4. PICK c \in Candidates : c = calls[t].lease.cand
      BY <2>2
    <2>5. /\ calls[t].at \in {"added"} \cup Committed /\ staged' # None =>
               staged'.db.records[c].status # "open"
          /\ calls[t].at \in Committed => InHead(c)'
      BY <1>1, <2>3, <2>4, SameInHead
    <2>. QED  BY <1>1, <1>4, <1>5, <2>1, <2>4, <2>5, OthersKept
  <1>7. Covers(records', snapshot') /\ DisposedIn(records', receipts)
    BY <1>1 DEF Sound
  <1>8. \A t \in Slots : calls'[t].at \in LaterSteps => CallSound(t)'
    BY <1>5, <1>6
  <1>. QED  BY <1>1, <1>2, <1>7, <1>8, SoundStores

\* A transaction: the snapshot files are written before the rows.
LEMMA SoundOfWrites ==
    ASSUME Base, Sound, NEW s \in Slots, BeginWrite(s) \/ CommitWrite(s)
    PROVE  Sound'
  <1>. DEFINE cand == calls[s].lease.cand
              d == Disposed(s)
  <1>1. PICK step \in {"writing", "stamping", "written", "stamped"} :
          /\ step \in LaterSteps /\ calls[s].at \in LaterSteps /\ Wrote(s, step)
          /\ BeginWrite(s) => \/ calls[s].at = "backedUp" /\ step = "writing"
                              \/ calls[s].at = "committed" /\ step = "stamping"
          /\ CommitWrite(s) => \/ calls[s].at = "writing" /\ step = "written"
                               \/ calls[s].at = "stamping" /\ step = "stamped"
    BY WriteMoves DEF Base
  <1>2. /\ Covers(records, d) /\ cand \in Candidates
        /\ calls[s].at \in {"backedUp", "writing"} => d[cand].status # "open"
    BY <1>1, DisposedCovers DEF Base
  <1>3. CallSound(s) /\ Covers(records, snapshot) /\ DisposedIn(records, receipts)
    BY <1>1 DEF Sound
  <1>4. receipts \subseteq Candidates /\ calls \in [Slots -> Calls]
    BY DEF Base, TypeOK, Calls
  <1>5. /\ calls'[s].at = step
        /\ calls'[s].lease = calls[s].lease /\ calls'[s].as = calls[s].as
        /\ calls'[s].db = calls[s].db /\ calls'[s].snapshot = calls[s].snapshot
        /\ calls'[s].stale = calls[s].stale
        /\ \A t \in Slots \ {s} : /\ Untouched(t) /\ calls'[t].at = calls[t].at
                                  /\ calls[t].at \in LaterSteps => calls'[t].stale
    BY <1>1, <1>4, WriterMoves
  <1>6. /\ UNCHANGED <<history, receipts>> /\ staged' = staged
        /\ BeginWrite(s) => records' = records /\ snapshot' = d
        /\ CommitWrite(s) => records' = d /\ snapshot' = snapshot /\ lock = s
    BY DEF BeginWrite, CommitWrite, git, given
  <1>7. calls[s].at \in {"writing", "stamping"} => Covers(d, snapshot)
    BY <1>3 DEF CallSound, Progress
  <1>. HIDE DEF d
  <1>8. Covers(records, records') /\ Covers(records', snapshot')
    BY <1>1, <1>2, <1>3, <1>6, <1>7 DEF Covers
  <1>9. DisposedIn(records', receipts)
    BY <1>3, <1>4, <1>8 DEF Covers, DisposedIn
  <1>10. "records" \notin frames' => disk'.records = records'
    <2>1. CASE BeginWrite(s)
      BY <2>1 DEF BeginWrite, file, Sound
    <2>2. CASE CommitWrite(s)
      BY <2>2, FileOfClose DEF CommitWrite
    <2>. QED  BY <2>1, <2>2
  <1>11. InHead(calls[s].lease.cand)' <=> InHead(calls[s].lease.cand)
    BY <1>5, <1>6 DEF InHead, HeadCommit
  <1>12. Progress(s)'
    <2>1. CASE BeginWrite(s)
      <3>1. Disposed(s)' = d
        BY <1>1, <1>5, <1>6, <2>1 DEF Disposed, d
      <3>2. Covers(Disposed(s)', snapshot')
        BY <1>6, <2>1, <3>1 DEF Covers
      <3>. QED  BY <1>1, <1>3, <1>5, <1>6, <1>11, <2>1, <3>2
                DEF CallSound, Progress, Pending, Committed
    <2>2. CASE CommitWrite(s)
      <3>1. records'[cand].status # "open"
        <4>1. CASE calls[s].at = "writing"
          BY <1>2, <1>6, <2>2, <4>1
        <4>2. CASE calls[s].at = "stamping"
          <5>1. records[cand].status # "open"
            BY <1>3, <4>2 DEF CallSound, Progress, Pending, Committed
          <5>. QED  BY <1>2, <1>8, <5>1 DEF Covers
        <4>. QED  BY <1>1, <2>2, <4>1, <4>2
      <3>. QED  BY <1>1, <1>3, <1>5, <1>6, <1>11, <2>2, <3>1
                DEF CallSound, Progress, Pending, Committed
    <2>. QED  BY <2>1, <2>2
  <1>13. Faithful(s) => Faithful(s)'
    <2>. SUFFICES ASSUME Faithful(s) PROVE Faithful(s)'
      OBVIOUS
    <2>1. Covers(calls'[s].db.records, records')
      BY <1>5, <1>8 DEF Faithful, Covers
    <2>2. ASSUME NEW t \in Slots \ {s}, calls'[t].at \in Pending
          PROVE  calls'[s].db.records[calls'[t].lease.cand].status # "open"
      <3>1. Untouched(t) /\ calls[t].at \in Pending
        BY <1>5, <2>2
      <3>2. calls'[t].lease = calls[t].lease
        BY <3>1 DEF Untouched, LaterSteps, Pending, Committed
      <3>. QED  BY <1>5, <3>1, <3>2 DEF Faithful
    <2>. QED  BY <1>5, <1>6, <2>1, <2>2 DEF Faithful
  <1>14. ASSUME NEW t \in Slots \ {s}, calls'[t].at \in LaterSteps PROVE CallSound(t)'
    <2>1. Untouched(t) /\ calls[t].at \in LaterSteps /\ calls'[t].stale
      BY <1>5, <1>14
    <2>2. calls[t].at \notin {"writing", "stamping"}
      BY DEF Base, TypeOK, BeginWrite, CommitWrite
    <2>3. calls[t].lease.cand \in Candidates /\ Progress(t)
      BY <2>1, DisposedCovers DEF Base, Sound, CallSound
    <2>4. calls[t].at \in Pending => records'[calls[t].lease.cand].status # "open"
      BY <1>8, <2>3 DEF Progress, Covers
    <2>. QED  BY <1>6, <2>1, <2>2, <2>4, OthersOvertaken
  <1>15. \A t \in Slots : calls'[t].at \in LaterSteps => CallSound(t)'
    BY <1>3, <1>5, <1>12, <1>13, <1>14 DEF CallSound
  <1>. QED  BY <1>6, <1>8, <1>9, <1>10, <1>15, SoundStores

\* A backup that is not stale takes back the disposition of its call alone.
LEMMA SoundOfRestores ==
    ASSUME Base, Sound, NEW s \in Slots, RestoreDatabase(s) \/ RestoreSnapshot(s),
           ~clobbered'
    PROVE  Sound'
  <1>1. /\ calls[s].at \in LaterSteps /\ calls[s].at \in {"failed", "restored"}
        /\ calls \in [Slots -> Calls]
    BY DEF RestoreDatabase, RestoreSnapshot, LaterSteps, Base, TypeOK, Calls
  <1>2. calls[s] \in AfterBackUp
    BY <1>1, CallAt
  <1>3. ~calls[s].stale
    BY <1>2 DEF RestoreDatabase, RestoreSnapshot, AfterBackUp
  <1>4. Faithful(s) /\ Covers(records, snapshot) /\ DisposedIn(records, receipts)
    BY <1>1, <1>3 DEF Sound, CallSound
  <1>5. UNCHANGED <<staged, history, receipts>> /\ lock = None /\ lock' = lock
    BY <1>1, <1>4 DEF RestoreDatabase, RestoreSnapshot, Faithful, git, given
  <1>6. \A t \in Slots \ {s} : /\ Untouched(t) /\ calls'[t].at = calls[t].at
                               /\ calls[t].at \in LaterSteps => calls'[t].stale
    <2>1. CASE RestoreDatabase(s)
      <3>1. Wrote(s, "restored") /\ "restored" \in LaterSteps
        BY <2>1 DEF RestoreDatabase, LaterSteps
      <3>. QED  BY <1>1, <3>1, WriterMoves
    <2>2. CASE RestoreSnapshot(s)
      <3>1. Overtaken(s) \in [Slots -> Calls] /\ calls' = [Overtaken(s) EXCEPT ![s] = IdleCall]
        BY <1>1, <2>2, OvertakenIs DEF RestoreSnapshot
      <3>2. \A t \in Slots \ {s} : calls'[t] = Overtaken(s)[t]
        BY <3>1
      <3>. QED  BY <1>1, <3>2, OvertakenUntouched
    <2>. QED  BY <2>1, <2>2
  <1>7. records' = calls[s].db.records
    <2>1. CASE RestoreDatabase(s)
      <3>1. "records" \notin frames /\ Under(calls[s].db)
        BY <2>1 DEF RestoreDatabase
      <3>. QED  BY <3>1 DEF Under
    <2>2. CASE RestoreSnapshot(s)
      BY <1>4, <2>2 DEF RestoreSnapshot, Faithful
    <2>. QED  BY <2>1, <2>2
  <1>8. "records" \notin frames' => disk'.records = records'
    <2>1. CASE RestoreDatabase(s)
      BY <1>7, <2>1 DEF RestoreDatabase, Under
    <2>2. CASE RestoreSnapshot(s)
      BY <2>2 DEF RestoreSnapshot, file, Sound
    <2>. QED  BY <2>1, <2>2
  <1>9. Covers(records', snapshot') /\ DisposedIn(records', receipts)
    <2>1. snapshot' \in {snapshot, calls[s].snapshot}
      BY DEF RestoreDatabase, RestoreSnapshot
    <2>. QED  BY <1>4, <1>7, <2>1 DEF Faithful, Covers
  <1>10. calls'[s].at \in LaterSteps => CallSound(s)'
    <2>1. CASE RestoreDatabase(s)
      <3>1. Wrote(s, "restored") /\ "restored" \in LaterSteps
        BY <2>1 DEF RestoreDatabase, LaterSteps
      <3>2. /\ calls'[s].at = "restored"
            /\ calls'[s].db = calls[s].db /\ calls'[s].snapshot = calls[s].snapshot
        BY <1>1, <3>1, WriterMoves
      <3>3. Progress(s)'
        BY <3>2 DEF Progress, Pending, Committed
      <3>4. ASSUME NEW t \in Slots \ {s}, calls'[t].at \in Pending
            PROVE  calls'[s].db.records[calls'[t].lease.cand].status # "open"
        <4>1. Untouched(t) /\ calls[t].at \in Pending
          BY <1>6, <3>4
        <4>2. calls'[t].lease = calls[t].lease
          BY <4>1 DEF Untouched, LaterSteps, Pending, Committed
        <4>. QED  BY <1>4, <3>2, <4>1, <4>2 DEF Faithful
      <3>5. Covers(calls'[s].db.records, records') /\ records' = calls'[s].db.records
        BY <1>7, <3>2 DEF Covers
      <3>6. Faithful(s)'
        BY <1>4, <1>5, <3>2, <3>4, <3>5 DEF Faithful
      <3>. QED  BY <3>3, <3>6 DEF CallSound
    <2>2. CASE RestoreSnapshot(s)
      <3>1. Overtaken(s) \in [Slots -> Calls] /\ IdleCall.at = "idle"
        BY <1>1, OvertakenIs DEF IdleCall
      <3>2. calls'[s].at = "idle"
        BY <2>2, <3>1 DEF RestoreSnapshot
      <3>. QED  BY <3>2 DEF LaterSteps
    <2>. QED  BY <2>1, <2>2
  <1>11. ASSUME NEW t \in Slots \ {s}, calls'[t].at \in LaterSteps PROVE CallSound(t)'
    <2>1. Untouched(t) /\ calls[t].at \in LaterSteps /\ calls'[t].stale
      BY <1>6, <1>11
    <2>2. calls[t].at \notin {"writing", "stamping"}
      <3>1. lock # t
        BY <1>5
      <3>. QED  BY <3>1 DEF Base, TypeOK
    <2>3. calls[t].at \in Pending => records'[calls[t].lease.cand].status # "open"
      BY <1>4, <1>7 DEF Faithful
    <2>. QED  BY <1>5, <2>1, <2>2, <2>3, OthersOvertaken
  <1>12. \A t \in Slots : calls'[t].at \in LaterSteps => CallSound(t)'
    BY <1>10, <1>11
  <1>13. staged' \in {staged, None} /\ UNCHANGED <<history, receipts>>
    BY <1>5
  <1>. QED  BY <1>8, <1>9, <1>12, <1>13, SoundStores

LEMMA SoundOfGitAdd ==
    ASSUME Base, Sound, NEW s \in Slots, GitAdd(s), ~clobbered'
    PROVE  Sound'
  <1>1. PICK step \in {"failed", "added", "readded"} :
          /\ Goto(s, step) /\ calls[s].at \in LaterSteps
          /\ calls[s].at \in Pending
          /\ step # "failed" => ~DatabaseIgnored
          /\ step = "readded" => calls[s].at \in Committed
    BY DEF GitAdd, LaterSteps, Committed, Pending
  <1>2. calls \in [Slots -> Calls] /\ step \in LaterSteps
    BY DEF LaterSteps, Base, TypeOK, Calls
  <1>3. /\ calls'[s].at = step /\ calls'[s].lease = calls[s].lease
        /\ calls'[s].db = calls[s].db /\ calls'[s].snapshot = calls[s].snapshot
        /\ calls'[s].stale = calls[s].stale
        /\ \A t \in Slots \ {s} : calls'[t] = calls[t]
    BY <1>1, <1>2, GotoMoves
  <1>4. /\ UNCHANGED <<records, snapshot, history, receipts, lock, file>>
        /\ (DatabaseIgnored' <=> DatabaseIgnored)
    BY SameFirstCommit DEF GitAdd, stores, given
  <1>5. ~DatabaseIgnored => staged'.db.records = records /\ staged'.snapshot = snapshot
    BY TreeType DEF GitAdd, Base, Misread
  <1>6. CallSound(s) /\ Covers(records, snapshot) /\ DisposedIn(records, receipts)
    BY <1>1 DEF Sound
  <1>7. \A c \in Candidates : InHead(c)' <=> InHead(c)
    BY <1>4, SameInHead
  <1>8. CallSound(s)'
    <2>1. records[calls[s].lease.cand].status # "open"
      BY <1>1, <1>6 DEF CallSound, Progress
    <2>2. InHead(calls[s].lease.cand)' <=> InHead(calls[s].lease.cand)
      BY <1>3, <1>4 DEF InHead, HeadCommit
    <2>3. Progress(s)'
      BY <1>1, <1>3, <1>4, <1>5, <1>6, <2>1, <2>2 DEF CallSound, Progress, Pending, Committed
    <2>4. Faithful(s) => Faithful(s)'
      BY <1>3, <1>4 DEF Faithful
    <2>. QED  BY <1>3, <1>6, <2>3, <2>4 DEF CallSound
  <1>9. ASSUME NEW t \in Slots \ {s}, calls'[t].at \in LaterSteps PROVE CallSound(t)'
    <2>1. calls[t].at \in LaterSteps
      BY <1>3, <1>9
    <2>2. calls[t].lease.cand \in Candidates /\ Progress(t)
      BY <2>1, DisposedCovers DEF Base, Sound, CallSound
    <2>3. PICK c \in Candidates : c = calls[t].lease.cand
      BY <2>2
    <2>4. /\ calls[t].at \in Pending => records[c].status # "open"
          /\ calls[t].at \in Committed => InHead(c)'
      BY <1>7, <2>2, <2>3 DEF Progress
    <2>5. calls[t].at \in {"added"} \cup Committed => ~DatabaseIgnored
      BY DEF Base, Fits
    <2>6. calls[t].at \in {"added"} \cup Committed /\ staged' # None =>
            staged'.db.records[c].status # "open"
      BY <1>5, <2>4, <2>5 DEF Pending
    <2>. QED  BY <1>1, <1>3, <1>4, <2>1, <2>3, <2>4, <2>6, OthersKept
  <1>10. ASSUME ~DatabaseIgnored PROVE InGit'
    <2>1. InGit /\ receipts \subseteq Candidates
      BY <1>10 DEF Sound, Base, TypeOK
    <2>2. /\ Covers(staged'.db.records, staged'.snapshot)
          /\ DisposedIn(staged'.db.records, receipts')
      BY <1>4, <1>5, <1>6, <1>10
    <2>3. \A c \in receipts' : InHead(c)'
      BY <1>4, <1>7, <2>1 DEF InGit
    <2>4. \A i \in 1 .. Len(history') :
            Covers(history'[i].tree.db.records, history'[i].tree.snapshot)
      BY <1>4, <2>1 DEF InGit
    <2>. QED  BY <2>2, <2>3, <2>4 DEF InGit
  <1>11. \A t \in Slots : calls'[t].at \in LaterSteps => CallSound(t)'
    BY <1>8, <1>9
  <1>12. /\ Covers(records', snapshot') /\ DisposedIn(records', receipts')
         /\ "records" \notin frames' => disk'.records = records'
    BY <1>4, <1>6 DEF Sound, file
  <1>. QED  BY <1>4, <1>10, <1>11, <1>12 DEF Sound

\* The commit holds what was staged, its parent what HEAD held.
LEMMA SoundOfGitCommit ==
    ASSUME Base, Sound, NEW s \in Slots, GitCommit(s)
    PROVE  Sound'
  <1>. DEFINE n == Len(history)
  <1>1. PICK cand \in Candidates : cand = calls[s].lease.cand
    BY GitCommitTypes DEF Base
  <1>2. /\ ~DatabaseIgnored /\ (DatabaseIgnored' <=> DatabaseIgnored)
        /\ Len(history') = n + 1
        /\ history'[n + 1] = [tree |-> staged, cand |-> cand]
        /\ \A i \in 1 .. n : history'[i] = history[i]
    BY <1>1, BaseOfGitCommit
  <1>3. n \in Nat \ {0} /\ HeadCommit = history[n]
    BY HistoryIs DEF Base, Fits
  <1>4. /\ HeadCommit'.tree = staged /\ HeadCommit'.cand = cand /\ Len(history') >= 2
        /\ history'[Len(history') - 1] = HeadCommit
    BY <1>2, <1>3 DEF HeadCommit
  <1>5. /\ staged # None /\ staged' = None /\ calls[s].at = "added"
        /\ UNCHANGED <<records, snapshot, receipts, lock, file>>
    BY DEF GitCommit, stores, given
  <1>6. /\ calls'[s].at = "committed" /\ calls'[s].lease = calls[s].lease
        /\ calls'[s].db = calls[s].db /\ calls'[s].snapshot = calls[s].snapshot
        /\ calls'[s].stale = calls[s].stale
        /\ \A t \in Slots \ {s} : calls'[t] = calls[t]
    BY GitCommitTypes DEF Base
  <1>7. CallSound(s) /\ InGit /\ Covers(records, snapshot) /\ DisposedIn(records, receipts)
    BY <1>2, <1>5 DEF Sound, LaterSteps
  <1>8. \A c \in Candidates : InHead(c) /\ staged.db.records[c].status # "open" => InHead(c)'
    BY <1>4 DEF InHead
  <1>9. CallSound(s)'
    <2>1. staged.db.records[cand].status # "open" /\ records[cand].status # "open"
      BY <1>1, <1>5, <1>7 DEF CallSound, Progress, Pending
    <2>2. InHead(calls[s].lease.cand)'
      BY <1>1, <1>4, <1>6, <2>1 DEF InHead
    <2>3. Progress(s)'
      BY <1>1, <1>5, <1>6, <2>1, <2>2 DEF Progress, Pending, Committed
    <2>4. Faithful(s) => Faithful(s)'
      BY <1>5, <1>6 DEF Faithful
    <2>. QED  BY <1>6, <1>7, <2>3, <2>4 DEF CallSound
  <1>10. ASSUME NEW t \in Slots \ {s}, calls'[t].at \in LaterSteps PROVE CallSound(t)'
    <2>1. calls[t].at \in LaterSteps
      BY <1>6, <1>10
    <2>2. calls[t].lease.cand \in Candidates /\ Progress(t)
      BY <2>1, DisposedCovers DEF Base, Sound, CallSound
    <2>3. PICK c \in Candidates : c = calls[t].lease.cand
      BY <2>2
    <2>4. calls[t].at \in Committed => InHead(c)'
      BY <1>5, <1>8, <2>2, <2>3 DEF Progress
    <2>5. calls[s].at \in Pending
      BY <1>5 DEF Pending
    <2>. QED  BY <1>5, <1>6, <2>1, <2>3, <2>4, <2>5, OthersKept
  <1>11. InGit'
    <2>1. ASSUME NEW i \in 1 .. n + 1
          PROVE  Covers(history'[i].tree.db.records, history'[i].tree.snapshot)
      <3>1. CASE i \in 1 .. n
        BY <1>2, <1>7, <3>1 DEF InGit
      <3>2. CASE i = n + 1
        <4>1. history'[i].tree = staged
          BY <1>2, <3>2
        <4>. QED  BY <1>5, <1>7, <4>1 DEF InGit
      <3>. QED  BY <1>3, <3>1, <3>2
    <2>2. \A c \in receipts : InHead(c) /\ staged.db.records[c].status # "open"
      BY <1>5, <1>7 DEF InGit, DisposedIn
    <2>3. \A c \in receipts' : InHead(c)'
      BY <1>5, <1>8, <2>2 DEF Base, TypeOK
    <2>. QED  BY <1>2, <1>5, <2>1, <2>3 DEF InGit
  <1>12. \A t \in Slots : calls'[t].at \in LaterSteps => CallSound(t)'
    BY <1>9, <1>10
  <1>13. /\ Covers(records', snapshot') /\ DisposedIn(records', receipts')
         /\ "records" \notin frames' => disk'.records = records'
    BY <1>5, <1>7 DEF Sound, file
  <1>. QED  BY <1>2, <1>11, <1>12, <1>13 DEF Sound

\* What replaces HEAD holds every disposition that HEAD was to hold.
LEMMA SoundOfAmend ==
    ASSUME Base, Sound, NEW s \in Slots, Amend(s)
    PROVE  Sound'
  <1>. DEFINE n == Len(history)
  <1>1. PICK cand \in Candidates : cand = calls[s].lease.cand
    BY AmendTypes DEF Base, Fits
  <1>2. /\ ~DatabaseIgnored /\ (DatabaseIgnored' <=> DatabaseIgnored)
        /\ n \in Nat /\ n >= 2 /\ Len(history') = n
        /\ \A i \in 1 .. n :
             /\ history'[i].cand = history[i].cand
             /\ i # n \/ staged = None => history'[i] = history[i]
        /\ staged # None => history'[n].tree = staged
    BY BaseOfAmend
  <1>3. /\ HeadCommit = history[n] /\ HeadCommit' = history'[n]
        /\ HeadCommit'.cand = HeadCommit.cand
        /\ history'[Len(history') - 1] = history[n - 1]
    BY <1>2 DEF HeadCommit
  <1>4. /\ calls[s].at = "readded" /\ staged' = None /\ receipts' = receipts \cup {cand}
        /\ UNCHANGED <<records, snapshot, lock, file>>
    BY <1>1 DEF Amend, stores
  <1>5. calls'[s].at = "idle" /\ \A t \in Slots \ {s} : calls'[t] = calls[t]
    BY DEF Amend, Base, TypeOK, IdleCall
  <1>6. CallSound(s) /\ InGit /\ Covers(records, snapshot) /\ DisposedIn(records, receipts)
    BY <1>2, <1>4 DEF Sound, LaterSteps
  <1>7. \A c \in Candidates :
           InHead(c) /\ (staged # None => staged.db.records[c].status # "open") => InHead(c)'
    <2>1. CASE staged = None
      <3>1. HeadCommit' = HeadCommit
        BY <1>2, <1>3, <2>1
      <3>. QED  BY <1>2, <1>3, <3>1 DEF InHead
    <2>2. CASE staged # None
      BY <1>2, <1>3, <2>2 DEF InHead
    <2>. QED  BY <2>1, <2>2
  <1>8. /\ records[cand].status # "open" /\ InHead(cand)
        /\ staged # None => staged.db.records[cand].status # "open"
    BY <1>1, <1>4, <1>6 DEF CallSound, Progress, Pending, Committed
  <1>9. ASSUME NEW t \in Slots, calls'[t].at \in LaterSteps PROVE CallSound(t)'
    <2>1. t \in Slots \ {s} /\ calls[t].at \in LaterSteps
      BY <1>5, <1>9 DEF LaterSteps
    <2>2. calls[t].lease.cand \in Candidates /\ Progress(t)
      BY <2>1, DisposedCovers DEF Base, Sound, CallSound
    <2>3. PICK c \in Candidates : c = calls[t].lease.cand
      BY <2>2
    <2>4. calls[t].at \in Committed => InHead(c)'
      BY <1>7, <2>2, <2>3 DEF Progress
    <2>5. calls'[s].at \notin Pending /\ calls[s].at \in Pending
      BY <1>4, <1>5 DEF Pending, Committed
    <2>. QED  BY <1>1, <1>4, <1>5, <2>1, <2>3, <2>4, <2>5, OthersKept
  <1>10. InGit'
    <2>1. ASSUME NEW i \in 1 .. n
          PROVE  Covers(history'[i].tree.db.records, history'[i].tree.snapshot)
      <3>1. CASE history'[i] = history[i]
        BY <1>6, <3>1 DEF InGit
      <3>2. CASE staged # None /\ i = n
        BY <1>2, <1>6, <3>2 DEF InGit
      <3>. QED  BY <1>2, <3>1, <3>2
    <2>2. ASSUME NEW c \in receipts' PROVE InHead(c)'
      <3>1. c \in Candidates /\ InHead(c)
            /\ (staged # None => staged.db.records[c].status # "open")
        BY <1>4, <1>6, <1>8 DEF InGit, DisposedIn, Base, TypeOK
      <3>. QED  BY <1>7, <3>1
    <2>. QED  BY <1>2, <1>4, <2>1, <2>2 DEF InGit
  <1>11. /\ Covers(records', snapshot') /\ DisposedIn(records', receipts')
         /\ "records" \notin frames' => disk'.records = records'
    BY <1>4, <1>6, <1>8 DEF Sound, file, DisposedIn
  <1>. QED  BY <1>2, <1>9, <1>10, <1>11 DEF Sound

\* A rollback goes back to the parent, which holds every receipt but the one it
\* takes back.
LEMMA SoundOfRollback ==
    ASSUME Base, Sound, Rollback, ~clobbered'
    PROVE  Sound'
  <1>. DEFINE n == Len(history)
              parent == history[n - 1].tree
  <1>1. /\ (DatabaseIgnored' <=> DatabaseIgnored)
        /\ n \in Nat /\ n >= 2 /\ Len(history') = n + 1
        /\ history'[n + 1] = [tree |-> parent, cand |-> None]
        /\ \A i \in 1 .. n : history'[i] = history[i]
    BY BaseOfRollback
  <1>2. /\ HeadCommit = history[n] /\ HeadCommit'.tree = parent
        /\ history'[Len(history') - 1] = HeadCommit
    BY <1>1 DEF HeadCommit
  <1>3. n \in 1 .. n /\ n - 1 \in 1 .. n
    BY <1>1
  <1>4. /\ HeadCommit.cand # None /\ Clean /\ staged' = staged /\ calls' = Overtaken(None)
        /\ snapshot' = parent.snapshot /\ receipts' = receipts \ {HeadCommit.cand}
        /\ "records" \notin frames
        /\ \A s \in Slots : calls[s].at \notin LaterSteps
    BY DEF Rollback
  <1>5. ~DatabaseIgnored
    BY <1>2, <1>3, <1>4 DEF Sound
  <1>6. InGit /\ staged' = None /\ Under(parent.db)
    BY <1>4, <1>5 DEF Sound, Rollback, Clean
  <1>7. records' = parent.db.records /\ disk'.records = records'
    BY <1>4, <1>6 DEF Under
  <1>8. DisposedIn(records', receipts')
    <2>1. ASSUME NEW c \in receipts' PROVE parent.db.records[c].status # "open"
      <3>1. InHead(c) /\ HeadCommit.cand # c
        BY <1>4, <1>6, <2>1 DEF InGit
      <3>. QED  BY <3>1 DEF InHead
    <2>. QED  BY <1>7, <2>1 DEF DisposedIn
  <1>9. Covers(records', snapshot')
    BY <1>3, <1>4, <1>6, <1>7 DEF InGit
  <1>10. \A t \in Slots : calls'[t].at \notin LaterSteps
    <2>1. calls \in [Slots -> Calls] /\ \A t \in Slots : t \in Slots \ {None}
      BY DEF Base, TypeOK, Calls
    <2>2. \A t \in Slots : calls'[t].at = calls[t].at
      BY <1>4, <2>1, OvertakenUntouched
    <2>. QED  BY <1>4, <2>2
  <1>11. InGit'
    <2>1. ASSUME NEW i \in 1 .. n + 1
          PROVE  Covers(history'[i].tree.db.records, history'[i].tree.snapshot)
      <3>1. CASE i \in 1 .. n
        BY <1>1, <1>6, <3>1 DEF InGit
      <3>2. CASE i = n + 1
        <4>1. history'[i].tree = parent
          BY <1>1, <3>2
        <4>. QED  BY <1>3, <1>6, <4>1 DEF InGit
      <3>. QED  BY <1>1, <3>1, <3>2
    <2>2. ASSUME NEW c \in receipts' PROVE InHead(c)'
      <3>1. InHead(c) /\ c \in receipts'
        BY <1>4, <1>6, <2>2 DEF InGit
      <3>2. /\ HeadCommit'.tree.db.records[c].status # "open"
            /\ history'[Len(history') - 1].tree.db.records[c].status # "open"
        BY <1>2, <1>7, <1>8, <3>1 DEF InHead, DisposedIn
      <3>. QED  BY <1>1, <3>2 DEF InHead
    <2>. QED  BY <1>1, <1>6, <2>1, <2>2 DEF InGit
  <1>. QED  BY <1>1, <1>5, <1>7, <1>8, <1>9, <1>10, <1>11 DEF Sound

LEMMA SoundOfOperator ==
    ASSUME Base, Sound, OperatorCommits, ~clobbered'
    PROVE  Sound'
  <1>. DEFINE n == Len(history)
  <1>1. /\ (DatabaseIgnored' <=> DatabaseIgnored)
        /\ \/ history' = history
           \/ /\ Len(history') = n + 1
              /\ history'[n + 1] = [tree |-> Tree, cand |-> None]
              /\ \A i \in 1 .. n : history'[i] = history[i]
    BY BaseOfOperator
  <1>2. /\ UNCHANGED <<records, snapshot, file, receipts>> /\ staged' = None
        /\ \A t \in Slots : calls'[t].at \notin LaterSteps
    BY DEF OperatorCommits, stores, given, Quiet, IdleCall, LaterSteps
  <1>6. ~Misread
    BY DEF OperatorCommits
  <1>3. /\ Covers(records', snapshot') /\ DisposedIn(records', receipts')
        /\ "records" \notin frames' => disk'.records = records'
    BY <1>2 DEF Sound, file
  <1>4. CASE history' = history
    BY <1>2, <1>3, <1>4, SoundStores
  <1>5. CASE /\ Len(history') = n + 1
             /\ history'[n + 1] = [tree |-> Tree, cand |-> None]
             /\ \A i \in 1 .. n : history'[i] = history[i]
    <2>1. n \in Nat \ {0} /\ HeadCommit = history[n]
      BY HistoryIs DEF Base, Fits
    <2>2. /\ HeadCommit'.tree = Tree /\ history'[Len(history') - 1] = HeadCommit
          /\ Len(history') >= 2
      BY <1>5, <2>1 DEF HeadCommit
    <2>3. ASSUME ~DatabaseIgnored PROVE InGit'
      <3>1. Tree.db.records = records /\ Tree.snapshot = snapshot /\ InGit
        BY <1>6, <2>3, TreeType DEF Base, Misread, Sound
      <3>2. ASSUME NEW i \in 1 .. n + 1
            PROVE  Covers(history'[i].tree.db.records, history'[i].tree.snapshot)
        <4>1. CASE i \in 1 .. n
          BY <1>5, <3>1, <4>1 DEF InGit
        <4>2. CASE i = n + 1
          <5>1. history'[i].tree = Tree
            BY <1>5, <4>2
          <5>. QED  BY <3>1, <5>1 DEF Sound
        <4>. QED  BY <2>1, <4>1, <4>2
      <3>3. ASSUME NEW c \in receipts' PROVE InHead(c)'
        <4>1. InHead(c) /\ records[c].status # "open"
          BY <1>2, <3>1, <3>3 DEF InGit, Sound, DisposedIn
        <4>. QED  BY <2>2, <3>1, <4>1 DEF InHead
      <3>. QED  BY <1>2, <1>5, <3>2, <3>3 DEF InGit
    <2>4. DatabaseIgnored => \A i \in 1 .. Len(history') : history'[i].cand = None
      <3>1. \A i \in 1 .. Len(history') : i \in 1 .. n \/ i = n + 1
        BY <1>5, <2>1
      <3>2. history'[n + 1].cand = None
        BY <1>5
      <3>. QED  BY <1>5, <3>1, <3>2 DEF Sound
    <2>5. DatabaseIgnored => receipts' = {}
      BY <1>2 DEF Sound
    <2>. QED  BY <1>1, <1>2, <1>3, <2>3, <2>4, <2>5 DEF Sound
  <1>. QED  BY <1>1, <1>4, <1>5

\* The steps that leave the calls alone, too.
LEMMA SoundOfTables ==
    ASSUME Base, Sound,
           \/ \E w \in Workers, q \in Requests, now \in 0 .. clock : NextRule(w, q, now)
           \/ \E now \in 0 .. clock : Status(now)
           \/ \E t \in Tools : OpenDb(t) \/ CloseDb(t) \/ KillTool(t)
           \/ OperatorResets \/ Tick \/ UNCHANGED vars
    PROVE  Sound'
  <1>1. /\ UNCHANGED <<records, snapshot, history, receipts, lock, calls>>
        /\ staged' \in {staged, None}
        /\ UNCHANGED file \/ \E ts : Closes(ts)
    BY DEF NextRule, Status, OpenDb, CloseDb, KillTool, OperatorResets, Tick, vars, stores,
           git, given
  <1>2. "records" \notin frames' => disk'.records = records'
    <2>1. CASE UNCHANGED file
      BY <1>1, <2>1 DEF file, Sound
    <2>2. CASE \E ts : Closes(ts)
      BY <1>1, <2>2, FileOfClose
    <2>. QED  BY <1>1, <2>1, <2>2
  <1>3. staged' = staged \/ staged' = None
    BY <1>1
  <1>4. ASSUME NEW s \in Slots, calls'[s].at \in LaterSteps PROVE CallSound(s)'
    <2>1. CallSound(s) /\ Disposed(s)' = Disposed(s)
      BY <1>1, <1>4 DEF Sound, Disposed
    <2>2. InHead(calls[s].lease.cand)' <=> InHead(calls[s].lease.cand)
      BY <1>1 DEF InHead, HeadCommit
    <2>3. Progress(s)'
      BY <1>1, <1>3, <2>1, <2>2 DEF CallSound, Progress
    <2>4. Faithful(s) => Faithful(s)'
      BY <1>1 DEF Faithful
    <2>. QED  BY <1>1, <2>1, <2>3, <2>4 DEF CallSound
  <1>5. Covers(records', snapshot') /\ DisposedIn(records', receipts)
    BY <1>1 DEF Sound
  <1>. QED  BY <1>1, <1>2, <1>4, <1>5, SoundStores

LEMMA DisposalsStep == Base /\ Disposals /\ [Next]_vars => Disposals'
  <1>. SUFFICES ASSUME Base, Disposals, [Next]_vars, ~clobbered' PROVE Sound'
    BY DEF Disposals
  <1>1. ~clobbered
    BY DEF Next, ApplyDisposition, vars, NextRule, Status, OpenDb, CloseDb, KillTool,
           ValidateLease, CheckClean, Refused, BackUp, BeginWrite, CommitWrite, GitAdd,
           GitCommit, Amend, Fails, RestoreDatabase, RestoreSnapshot, Crash, Rollback,
           OperatorCommits, OperatorResets, Tick
  <1>2. Sound
    BY <1>1 DEF Disposals
  <1>3. CASE \/ \E w \in Workers, q \in Requests, now \in 0 .. clock : NextRule(w, q, now)
             \/ \E now \in 0 .. clock : Status(now)
             \/ \E t \in Tools : OpenDb(t) \/ CloseDb(t) \/ KillTool(t)
             \/ OperatorResets \/ Tick \/ UNCHANGED vars
    BY <1>2, <1>3, SoundOfTables
  <1>4. ASSUME NEW s \in Slots, ApplyDisposition(s) PROVE Sound'
    BY <1>2, <1>4, SoundOfReads, SoundOfWrites, SoundOfRestores, SoundOfGitAdd,
       SoundOfGitCommit, SoundOfAmend DEF ApplyDisposition
  <1>5. CASE Rollback
    BY <1>2, <1>5, SoundOfRollback
  <1>6. CASE OperatorCommits
    BY <1>2, <1>6, SoundOfOperator
  <1>7. CASE Next
    BY <1>3, <1>4, <1>5, <1>6, <1>7 DEF Next
  <1>. QED  BY <1>3, <1>7

LEMMA DisposalsInit == Init => Disposals
  <1>. SUFFICES ASSUME Init PROVE Sound
    BY DEF Disposals
  <1>1. /\ snapshot = records /\ disk.records = records /\ receipts = {} /\ staged = None
        /\ \A s \in Slots : calls[s].at \notin LaterSteps
    BY DEF Init, IdleCall, LaterSteps
  <1>2. PICK ignored \in Checkouts :
          history = <<[tree |-> [db |-> IF ignored THEN None ELSE disk,
                                 snapshot |-> snapshot],
                       cand |-> None]>>
    BY DEF Init
  <1>3. /\ \A i \in 1 .. Len(history) : i = 1
        /\ history[1].tree.db = IF ignored THEN None ELSE disk
        /\ history[1].tree.snapshot = snapshot
        /\ history[1].cand = None
    BY <1>2
  <1>4. ~DatabaseIgnored => history[1].tree.db.records = records
    BY <1>1, <1>3 DEF DatabaseIgnored
  <1>5. ~DatabaseIgnored =>
           Covers(history[1].tree.db.records, history[1].tree.snapshot)
    BY <1>1, <1>3, <1>4 DEF Covers
  <1>6. ~DatabaseIgnored => InGit
    BY <1>1, <1>3, <1>5 DEF InGit
  <1>7. Covers(records, snapshot) /\ DisposedIn(records, receipts)
    BY <1>1 DEF Covers, DisposedIn
  <1>. QED  BY <1>1, <1>3, <1>6, <1>7 DEF Sound

\* What SQLite holds of dispositions is in the snapshot files at every step
\* (_apply_disposition exports before it commits, and puts the database back
\* before the files), whatever fails, crashes, overlaps or is rolled back, until a
\* restore or a rollback goes over the -wal or over what another call wrote.
THEOREM SnapshotCoversSQLiteHolds == Spec => []SnapshotCoversSQLite
  <1>1. Disposals => SnapshotCoversSQLite
    BY DEF Disposals, Sound, Covers, SnapshotCoversSQLite
  <1>2. Base /\ Disposals /\ [Next]_vars => Disposals'
    BY DisposalsStep
  <1>. QED  BY <1>1, <1>2, DisposalsInit, BaseHolds, PTL DEF Spec

\* A candidate with a receipt stays disposed of, for any number of dispositions in
\* flight: the bytes a later call puts back, and the tree a rollback goes back to,
\* hold every disposition that has a receipt, until the file without its -wal is
\* taken for the database or a backup restored over what another call wrote.
THEOREM ReceiptsHoldAlways == Spec => []ReceiptsHold
  <1>1. Disposals => ReceiptsHold
    BY DEF Disposals, Sound, DisposedIn, ReceiptsHold
  <1>2. Base /\ Disposals /\ [Next]_vars => Disposals'
    BY DisposalsStep
  <1>. QED  BY <1>1, <1>2, DisposalsInit, BaseHolds, PTL DEF Spec
===============================================================================
