----------------------- MODULE LinterQuarantineProofs -----------------------
(***************************************************************************)
(* Proofs about LinterQuarantine, for any candidates, operations, files of *)
(* the checkout and number of calls in flight, any of which may fail.      *)
(***************************************************************************)
EXTENDS LinterQuarantine, TLAPS

-----------------------------------------------------------------------------
\* Types.

LEMMA ByStep ==
    ASSUME TypeOK, NEW s \in Slots
    PROVE  /\ calls[s].at \in {"idle", "read", "looked", "began", "decided",
                               "manifest", "coverage"}
           /\ calls[s].at = "idle" => calls[s] = IdleCall
           /\ calls[s].at = "read" => calls[s] \in Asked
           /\ calls[s].at = "looked" => calls[s] \in Looking
           /\ calls[s].at \in {"began", "decided", "manifest", "coverage"}
              <=> calls[s] \in Writing
           /\ IdleCall.at = "idle"
  <1>1. calls[s] \in {IdleCall} \cup Asked \cup Looking \cup Writing
    BY DEF TypeOK
  <1>. QED  BY <1>1 DEF IdleCall, Asked, Looking, Writing

LEMMA OperationType ==
    ASSUME NEW op \in Operations
    PROVE  /\ op.do \in {"write", "review", "dispose", "list", "snapshot", "reset", "backlog"}
           /\ op.do \in {"write", "review", "dispose"} => op.cand \in Candidates
           /\ op.do \in {"review", "dispose"} => op.as \in States
  <1>1. op \in AllOperations
    BY QuarantineConstants
  <1>. QED  BY <1>1 DEF AllOperations, States

LEMMA ReviewType ==
    ASSUME NEW no \in Nat, NEW state \in States,
           NEW author \in {"reviewer", "sweep", "editor", "legacy"}
    PROVE  Review(no, state, author) \in Reviews
  BY DEF Review, Reviews

LEMMA Sentinels ==
    /\ None \notin Reviews /\ None \notin Row /\ None \notin Slots
    /\ NoRecord \notin Reviews /\ NoRecord # None
  BY QuarantineConstants

LEMMA ImportedType ==
    ASSUME TypeOK, NEW s \in Slots, calls[s].at = "looked"
    PROVE  /\ calls[s].op \in Operations
           /\ calls[s].seen \in Tables /\ calls[s].coverage \in Coverages
           /\ Inserted(s) \in Tables /\ Covered(s) \in Coverages
           /\ Imported(s) \in Tables /\ Found(s) \in Tables
  <1>1. /\ calls[s].op \in Operations /\ calls[s].seen \in Tables
        /\ calls[s].coverage \in Coverages /\ calls[s].manifest \in Manifests
    BY ByStep DEF Looking
  <1>2. Inserted(s) \in Tables
    BY DEF Inserted, Tables, Row, TypeOK
  <1>3. Covered(s) \in Coverages
    BY <1>1 DEF Covered, TypeOK
  <1>4. \A c \in Candidates : Covering(s, c) \in Row \cup {None}
    BY <1>1, <1>2 DEF Covering, Tables
  <1>5. ASSUME NEW c \in Candidates, Covering(s, c) # None, Covered(s)[c] # NoRecord
        PROVE  [Covering(s, c) EXCEPT !.review = Covered(s)[c]] \in Row
    <2>1. Covered(s)[c] \in Reviews \cup {None} /\ Covering(s, c) \in Row
      BY <1>3, <1>4, <1>5 DEF Coverages
    <2>. QED  BY <2>1 DEF Row
  <1>6. ASSUME NEW c \in Candidates PROVE Imported(s)[c] \in Row \cup {None}
    <2>1. Inserted(s)[c] \in Row \cup {None}
      BY <1>2 DEF Tables
    <2>. QED  BY <1>4, <1>5, <2>1 DEF Imported
  <1>7. Imported(s) \in Tables
    BY <1>6 DEF Imported, Tables
  <1>. QED  BY <1>1, <1>2, <1>3, <1>7 DEF Found

LEMMA SweptType ==
    ASSUME TypeOK, NEW s \in Slots, calls[s].at = "looked", NEW no \in Nat,
           NEW c \in Candidates, Found(s)[c] # None
    PROVE  Swept(s, c, no) \in Reviews \cup {None}
  <1>1. Found(s)[c].review \in Reviews \cup {None}
    BY ImportedType DEF Tables, Row
  <1>2. Review(no, "rejected", "sweep") \in Reviews /\ Review(no, "implemented", "sweep") \in Reviews
    BY ReviewType DEF States
  <1>. QED  BY <1>1, <1>2 DEF Swept

(* What a call changes is there, but for the candidate it takes in.        *)
LEMMA TouchedRows ==
    ASSUME TypeOK, NEW s \in Slots, calls[s].at = "looked", Possible(s),
           NEW c \in Touched(s)
    PROVE  /\ c \in Candidates
           /\ Op(s).do \in {"write", "review", "dispose", "backlog", "reset"}
           /\ Op(s).do \in {"write", "review", "dispose"} => c = Op(s).cand
           /\ Op(s).do # "write" => Found(s)[c] # None
  <1>1. Op(s) \in Operations
    BY ImportedType DEF Op
  <1>2. CASE Op(s).do \in {"write", "review", "dispose"}
    <2>1. c = Op(s).cand
      BY <1>2 DEF Touched
    <2>. QED  BY <1>1, <1>2, <2>1, OperationType DEF Possible
  <1>3. CASE Op(s).do = "backlog"
    BY <1>3 DEF Touched
  <1>4. CASE Op(s).do = "reset"
    BY <1>4 DEF Touched
  <1>5. CASE Op(s).do \in {"list", "snapshot"}
    BY <1>5 DEF Touched
  <1>. QED  BY <1>1, <1>2, <1>3, <1>4, <1>5, OperationType

-----------------------------------------------------------------------------
\* Where rows come from.

SameSource(old, new) ==
    \A c \in Candidates : old[c] # None =>
        new[c] # None /\ new[c].source = old[c].source

\* What a call has looked at is there still, and the call with the lock keeps it.
Past == \A s \in Slots : calls[s].at = "looked" => SameSource(calls[s].seen, rows)
Covers == \A s \in Slots :
    calls[s] \in Writing /\ lock = s => SameSource(rows, calls[s].rows)

LEMMA ImportKeeps ==
    ASSUME TypeOK, Past, NEW s \in Slots, calls[s].at = "looked",
           \A c \in Missing(s) : rows[c] = None
    PROVE  /\ SameSource(rows, Imported(s))
           /\ SameSource(Found(s), Imported(s))
           /\ SameSource(Imported(s), Found(s)) \/ Found(s) = calls[s].seen
  <1>1. SameSource(calls[s].seen, rows)
    BY DEF Past
  <1>2. /\ calls[s].seen \in Tables /\ Inserted(s) \in Tables
        /\ Covered(s) \in Coverages /\ rows \in Tables
    BY ImportedType DEF TypeOK
  <1>3. SameSource(rows, Inserted(s))
    BY DEF SameSource, Inserted
  <1>4. ASSUME NEW c \in Candidates, rows[c] # None
        PROVE  Imported(s)[c] # None /\ Imported(s)[c].source = rows[c].source
    <2>1. Inserted(s)[c] # None /\ Inserted(s)[c].source = rows[c].source
      BY <1>3, <1>4 DEF SameSource
    <2>2. CASE Covered(s)[c] = NoRecord \/ Covering(s, c) = None
      BY <2>1, <2>2 DEF Imported
    <2>3. CASE Covered(s)[c] # NoRecord /\ Covering(s, c) # None
      <3>1. Covering(s, c) \in {calls[s].seen[c], Inserted(s)[c]}
        BY DEF Covering
      <3>2. Covering(s, c).source = rows[c].source
        BY <1>1, <2>1, <2>3, <3>1 DEF SameSource
      <3>3. Covering(s, c) \in Row /\ Covered(s)[c] \in Reviews \cup {None}
        BY <1>2, <2>3, <3>1 DEF Tables, Coverages
      <3>4. [Covering(s, c) EXCEPT !.review = Covered(s)[c]] \in Row
        BY <3>3 DEF Row
      <3>5. [Covering(s, c) EXCEPT !.review = Covered(s)[c]].source = rows[c].source
        BY <3>2, <3>3 DEF Row
      <3>. QED  BY <2>3, <3>2, <3>3, <3>4, <3>5, Sentinels DEF Imported
    <2>. QED  BY <2>2, <2>3
  <1>5. SameSource(rows, Imported(s))
    BY <1>4 DEF SameSource
  <1>6. SameSource(calls[s].seen, Imported(s))
    BY <1>1, <1>5 DEF SameSource
  <1>7. SameSource(Imported(s), Imported(s))
    BY DEF SameSource
  <1>. QED  BY <1>5, <1>6, <1>7 DEF Found

LEMMA ChangedRow ==
    ASSUME TypeOK, Past, NEW s \in Slots, calls[s].at = "looked", Possible(s),
           NEW no \in Nat, NEW c \in Touched(s)
    PROVE  /\ Changed(s, c, no) \in Row
           /\ rows[c] # None => Changed(s, c, no).source = rows[c].source
           /\ Changed(s, c, no).review =
                IF Op(s).do = "write" THEN None ELSE Decided(s, c, no)
  <1>1. Imported(s) \in Tables /\ Found(s) \in Tables /\ Op(s) \in Operations
    BY ImportedType DEF Op
  <1>2. c \in Candidates
    BY TouchedRows
  <1>3. SameSource(rows, Imported(s)) /\ SameSource(Found(s), Imported(s))
    BY ImportKeeps DEF Possible
  <1>4. CASE Op(s).do = "write"
    <2>1. Imported(s)[c] = None
      BY <1>4, TouchedRows DEF Possible
    <2>2. rows[c] = None
      BY <1>2, <1>3, <2>1 DEF SameSource
    <2>. QED  BY <1>4, <2>2 DEF Changed, Row
  <1>5. CASE Op(s).do # "write"
    <2>1. Found(s)[c] # None
      BY <1>5, TouchedRows
    <2>2. Imported(s)[c] # None /\ Imported(s)[c].source = Found(s)[c].source
      BY <1>2, <1>3, <2>1 DEF SameSource
    <2>3. rows[c] # None => Found(s)[c].source = rows[c].source
      BY <1>2, <1>3, <2>2 DEF SameSource
    <2>4. Before(s)[c] \in Row /\ Before(s)[c].source = Found(s)[c].source
      BY <1>1, <1>2, <2>1, <2>2 DEF Before, Tables
    <2>5. Decided(s, c, no) \in Reviews \cup {None}
      <3>1. CASE Op(s).do \in {"review", "dispose"}
        <4>1. Op(s).as \in States
          BY <1>1, <3>1, OperationType
        <4>. QED  BY <3>1, <4>1, ReviewType DEF Decided
      <3>2. CASE Op(s).do \notin {"review", "dispose"}
        BY <1>2, <2>1, <3>2, SweptType DEF Decided
      <3>. QED  BY <3>1, <3>2
    <2>6. Changed(s, c, no) = [Before(s)[c] EXCEPT !.review = Decided(s, c, no)]
      BY <1>5 DEF Changed
    <2>7. /\ Changed(s, c, no) \in Row
          /\ Changed(s, c, no).source = Before(s)[c].source
          /\ Changed(s, c, no).review = Decided(s, c, no)
      BY <2>4, <2>5, <2>6 DEF Row
    <2>. QED  BY <1>5, <2>3, <2>4, <2>7
  <1>. QED  BY <1>4, <1>5

LEMMA ResultRows ==
    ASSUME TypeOK, Past, NEW s \in Slots, calls[s].at = "looked", Possible(s),
           NEW no \in Nat
    PROVE  Result(s, no) \in Tables /\ SameSource(rows, Result(s, no))
  <1>1. Imported(s) \in Tables
    BY ImportedType
  <1>2. SameSource(rows, Imported(s))
    BY ImportKeeps DEF Possible
  <1>3. ASSUME NEW c \in Candidates
        PROVE  /\ Result(s, no)[c] \in Row \cup {None}
               /\ rows[c] # None => /\ Result(s, no)[c] # None
                                    /\ Result(s, no)[c].source = rows[c].source
    <2>1. CASE c \in Touched(s)
      <3>1. Result(s, no)[c] = Changed(s, c, no)
        BY <2>1 DEF Result
      <3>. QED  BY <2>1, <3>1, ChangedRow, Sentinels
    <2>2. CASE c \notin Touched(s)
      <3>1. Result(s, no)[c] = Imported(s)[c]
        BY <2>2 DEF Result
      <3>. QED  BY <1>1, <1>2, <3>1 DEF Tables, SameSource
    <2>. QED  BY <2>1, <2>2
  <1>4. Result(s, no) = [c \in Candidates |-> Result(s, no)[c]]
    BY DEF Result
  <1>. QED  BY <1>3, <1>4 DEF Tables, SameSource

-----------------------------------------------------------------------------
\* Steps of a call that has begun.

LEMMA BegunCall ==
    ASSUME TypeOK, NEW s \in Slots, calls[s] \in Writing
    PROVE  /\ calls[s].op \in Operations /\ calls[s].no \in Nat
           /\ calls[s].rows \in Tables
           /\ calls[s].at \in {"began", "decided", "manifest", "coverage"}
           /\ calls[s].op.do = "review" =>
                /\ calls[s].op.cand \in Candidates
                /\ Review(calls[s].no, calls[s].op.as, "reviewer") \in Reviews
  <1>1. /\ calls[s].op \in Operations /\ calls[s].no \in Nat
        /\ calls[s].rows \in Tables
        /\ calls[s].at \in {"began", "decided", "manifest", "coverage"}
    BY DEF Writing
  <1>. QED  BY <1>1, OperationType, ReviewType

LEMMA GotoStep ==
    ASSUME TypeOK, NEW s \in Slots, calls[s] \in Writing,
           NEW step \in {"decided", "manifest", "coverage"}, Goto(s, step)
    PROVE  /\ calls' \in [Slots -> {IdleCall} \cup Asked \cup Looking \cup Writing]
           /\ calls'[s] \in Writing /\ calls'[s].at = step
           /\ calls'[s].op = calls[s].op /\ calls'[s].no = calls[s].no
           /\ calls'[s].rows = calls[s].rows
           /\ \A t \in Slots \ {s} : calls'[t] = calls[t]
  <1>1. calls'[s] = [calls[s] EXCEPT !.at = step]
    BY DEF Goto, TypeOK
  <1>2. [calls[s] EXCEPT !.at = step] \in Writing
    BY DEF Writing
  <1>3. calls' = [calls EXCEPT ![s] = [calls[s] EXCEPT !.at = step]]
    BY DEF Goto
  <1>. QED  BY <1>1, <1>2, <1>3 DEF TypeOK, Writing

LEMMA ExportedType ==
    ASSUME TypeOK, NEW s \in Slots, calls[s] \in Writing
    PROVE  Exported(s) \in Coverages
  <1>1. \A c \in Candidates : Exported(s)[c] \in Reviews \cup {None, NoRecord}
    BY BegunCall DEF Exported, Tables, Row
  <1>. QED  BY <1>1 DEF Exported, Coverages

\* What the other actions make of the call.
LEMMA SetCall ==
    ASSUME TypeOK, NEW s \in Slots, NEW call,
           calls' = [calls EXCEPT ![s] = call]
    PROVE  /\ calls'[s] = call /\ \A t \in Slots \ {s} : calls'[t] = calls[t]
           /\ call \in {IdleCall} \cup Asked \cup Looking \cup Writing =>
                calls' \in [Slots -> {IdleCall} \cup Asked \cup Looking \cup Writing]
  BY DEF TypeOK

LEMMA StartStep ==
    ASSUME TypeOK, NEW s \in Slots, NEW op \in Operations, Start(s, op)
    PROVE  \E call \in Asked : calls' = [calls EXCEPT ![s] = call]
                               /\ call.coverage \in {coverage, NoCoverage}
  <1>1. NoCoverage \in Coverages /\ {} \in Manifests
    BY DEF NoCoverage, Coverages, Manifests
  <1>2. coverage \in Coverages /\ manifest \in Manifests
    BY DEF TypeOK
  <1>3. CASE op.do = "dispose"
    <2> DEFINE call == [at |-> "read", op |-> op, manifest |-> {}, coverage |-> NoCoverage]
    <2>1. call \in Asked /\ call.coverage = NoCoverage
      BY <1>1 DEF Asked
    <2>. QED  BY <1>3, <2>1 DEF Start
  <1>4. CASE op.do # "dispose"
    <2> DEFINE call == [at |-> "read", op |-> op, manifest |-> manifest, coverage |-> coverage]
    <2>1. call \in Asked /\ call.coverage = coverage
      BY <1>2 DEF Asked
    <2>. QED  BY <1>4, <2>1 DEF Start
  <1>. QED  BY <1>3, <1>4

LEMMA LookUpStep ==
    ASSUME TypeOK, NEW s \in Slots, LookUp(s)
    PROVE  \E call \in Looking : /\ calls' = [calls EXCEPT ![s] = call]
                                 /\ call.seen = rows
                                 /\ call.coverage = calls[s].coverage
  <1> DEFINE call == [at |-> "looked", op |-> calls[s].op, manifest |-> calls[s].manifest,
                      coverage |-> calls[s].coverage, seen |-> rows]
  <1>1. calls[s] \in Asked
    BY ByStep DEF LookUp
  <1>2. call \in Looking
    BY <1>1 DEF Asked, Looking, TypeOK
  <1>3. calls' = [calls EXCEPT ![s] = call]
    BY DEF LookUp
  <1>. QED  BY <1>2, <1>3

LEMMA BeginStep ==
    ASSUME TypeOK, Past, NEW s \in Slots, Begin(s)
    PROVE  \E call \in Writing :
              /\ calls' = [calls EXCEPT ![s] = call]
              /\ call.at = "began" /\ call.op = Op(s)
              /\ call.no = (IF Numbers(Op(s)) THEN reviewed + 1 ELSE 0)
              /\ call.rows = Result(s, call.no)
              /\ reviewed' = IF Numbers(Op(s)) THEN call.no ELSE reviewed
              /\ SameSource(rows, call.rows)
  <1> DEFINE no == IF Numbers(Op(s)) THEN reviewed + 1 ELSE 0
             call == [at |-> "began", op |-> calls[s].op, no |-> no, rows |-> Result(s, no)]
  <1>1. no \in Nat /\ reviewed' = IF Numbers(Op(s)) THEN no ELSE reviewed
    BY DEF Begin, TypeOK
  <1>2. calls[s].at = "looked" /\ Possible(s)
    BY DEF Begin
  <1>3. Result(s, no) \in Tables /\ SameSource(rows, Result(s, no))
    BY <1>1, <1>2, ResultRows
  <1>4. call \in Writing
    BY <1>1, <1>2, <1>3, ImportedType DEF Writing
  <1>5. calls' = [calls EXCEPT ![s] = call]
    BY DEF Begin, Op
  <1>. QED  BY <1>1, <1>3, <1>4, <1>5 DEF Op

-----------------------------------------------------------------------------
\* Type correctness, and that rows stay, are kept by every step.

LEMMA InitTypes == Init => TypeOK /\ Past /\ Covers
  <1>. SUFFICES ASSUME Init PROVE TypeOK /\ Past /\ Covers
    OBVIOUS
  <1>1. rows \in Tables /\ decisions \in [Candidates -> Reviews \cup {None}]
    BY DEF Init, Tables
  <1>2. manifest \in Manifests /\ coverage \in Coverages
    BY QuarantineConstants DEF Init
  <1>3. \A s \in Slots : calls[s] = IdleCall
    BY DEF Init
  <1>4. calls \in [Slots -> {IdleCall} \cup Asked \cup Looking \cup Writing]
    BY DEF Init
  <1>5. TypeOK
    BY <1>1, <1>2, <1>4 DEF Init, TypeOK
  <1>6. IdleCall.at # "looked" /\ IdleCall \notin Writing
    BY DEF IdleCall, Writing
  <1>. QED  BY <1>3, <1>5, <1>6 DEF Past, Covers

(* A step that puts s outside the calls that have begun, and was there     *)
(* already, changes no store.                                              *)
LEMMA QuietStep ==
    ASSUME TypeOK, Past, Covers, NEW s \in Slots, calls[s] \notin Writing,
           NEW call \in {IdleCall} \cup Asked \cup Looking,
           calls' = [calls EXCEPT ![s] = call],
           call.at = "looked" => SameSource(call.seen, rows),
           UNCHANGED <<sqlite, files, lock, reviewed>>, unrecorded' \subseteq Nat
    PROVE  TypeOK' /\ Past' /\ Covers'
  <1>1. /\ calls'[s] = call /\ \A t \in Slots \ {s} : calls'[t] = calls[t]
        /\ calls' \in [Slots -> {IdleCall} \cup Asked \cup Looking \cup Writing]
    BY SetCall
  <1>2. call \notin Writing
    BY DEF IdleCall, Asked, Looking, Writing
  <1>3. UNCHANGED <<rows, events, manifest, coverage, decisions, lock, reviewed>>
    BY DEF sqlite, files
  <1>4. TypeOK'
    <2>1. lock # None => lock # s /\ lock \in Slots
      BY DEF TypeOK
    <2>. QED  BY <1>1, <1>3, <2>1 DEF TypeOK
  <1>5. Past'
    BY <1>1, <1>3 DEF Past, SameSource
  <1>6. Covers'
    BY <1>1, <1>2, <1>3 DEF Covers, SameSource
  <1>. QED  BY <1>4, <1>5, <1>6

LEMMA FileStep ==
    ASSUME TypeOK, Past, Covers, NEW s \in Slots, calls[s] \in Writing,
           NEW step \in {"decided", "manifest", "coverage"}, Goto(s, step),
           UNCHANGED <<sqlite, lock, reviewed, unrecorded>>,
           manifest' \in Manifests, coverage' \in Coverages,
           decisions' \in [Candidates -> Reviews \cup {None}]
    PROVE  TypeOK' /\ Past' /\ Covers'
  <1>1. /\ calls' \in [Slots -> {IdleCall} \cup Asked \cup Looking \cup Writing]
        /\ calls'[s] \in Writing /\ calls'[s].at = step
        /\ calls'[s].rows = calls[s].rows
        /\ \A t \in Slots \ {s} : calls'[t] = calls[t]
    BY GotoStep
  <1>2. UNCHANGED <<rows, events, lock, reviewed, unrecorded>>
    BY DEF sqlite
  <1>3. TypeOK'
    BY <1>1, <1>2 DEF TypeOK
  <1>4. Past' /\ Covers'
    BY <1>1, <1>2 DEF Past, Covers, SameSource
  <1>. QED  BY <1>3, <1>4

LEMMA CommitStep ==
    ASSUME TypeOK, Past, Covers, NEW s \in Slots, Commit(s)
    PROVE  TypeOK' /\ Past' /\ Covers' /\ SameSource(rows, rows')
  <1>1. calls[s] \in Writing
    BY ByStep DEF Commit, Done
  <1>2. /\ calls'[s] = IdleCall /\ \A t \in Slots \ {s} : calls'[t] = calls[t]
        /\ calls' \in [Slots -> {IdleCall} \cup Asked \cup Looking \cup Writing]
    BY SetCall DEF Commit
  <1>3. /\ rows' \in Tables /\ SameSource(rows, rows')
        /\ lock = s => lock' = None
        /\ lock # s => rows' = rows /\ lock' = lock
    <2>1. CASE lock = s
      BY <1>1, <2>1, BegunCall DEF Commit, Covers
    <2>2. CASE lock # s
      BY <2>2 DEF Commit, TypeOK, SameSource
    <2>. QED  BY <2>1, <2>2
  <1>4. Recorded(s) \subseteq Candidates \X Reviews
    BY <1>1, BegunCall DEF Recorded, Op
  <1>5. IdleCall \notin Writing /\ IdleCall.at # "looked"
    BY DEF IdleCall, Writing
  <1>6. TypeOK'
    BY <1>1, <1>2, <1>3, <1>4 DEF TypeOK, Commit, files
  <1>7. Past'
    BY <1>2, <1>3, <1>5 DEF Past, SameSource
  <1>8. Covers'
    <2>1. ASSUME NEW t \in Slots, calls'[t] \in Writing, lock' = t
          PROVE  SameSource(rows', calls'[t].rows)
      <3>1. t # s /\ calls'[t] = calls[t]
        BY <1>2, <1>5, <2>1
      <3>2. lock = t /\ rows' = rows
        BY <1>3, <2>1, <3>1, Sentinels
      <3>. QED  BY <2>1, <3>1, <3>2 DEF Covers
    <2>. QED  BY <2>1 DEF Covers, SameSource
  <1>. QED  BY <1>3, <1>6, <1>7, <1>8

LEMMA BeginKeeps ==
    ASSUME TypeOK, Past, Covers, NEW s \in Slots, Begin(s)
    PROVE  TypeOK' /\ Past' /\ Covers'
  <1>1. PICK call \in Writing :
           /\ calls' = [calls EXCEPT ![s] = call] /\ SameSource(rows, call.rows)
           /\ reviewed' = IF Numbers(Op(s)) THEN call.no ELSE reviewed
    BY BeginStep
  <1>2. /\ calls'[s] = call /\ \A t \in Slots \ {s} : calls'[t] = calls[t]
        /\ calls' \in [Slots -> {IdleCall} \cup Asked \cup Looking \cup Writing]
    BY <1>1, SetCall
  <1>3. UNCHANGED <<rows, events, manifest, coverage, decisions, unrecorded>>
    BY DEF Begin, sqlite, files
  <1>4. lock' = lock \/ (lock = None /\ lock' = s)
    BY DEF Begin
  <1>5. reviewed' \in Nat
    BY <1>1 DEF Writing, TypeOK
  <1>6. TypeOK'
    BY <1>1, <1>2, <1>3, <1>4, <1>5 DEF TypeOK
  <1>7. call.at # "looked"
    BY DEF Writing
  <1>8. Past'
    BY <1>2, <1>3, <1>7 DEF Past, SameSource
  <1>9. Covers'
    <2>1. ASSUME NEW t \in Slots \ {s}, calls'[t] \in Writing, lock' = t
          PROVE  SameSource(rows', calls'[t].rows)
      BY <1>2, <1>3, <1>4, <2>1 DEF Covers
    <2>. QED  BY <1>1, <1>2, <1>3, <2>1 DEF Covers, SameSource
  <1>. QED  BY <1>6, <1>8, <1>9

LEMMA FailKeeps ==
    ASSUME TypeOK, Past, Covers, NEW s \in Slots, Fail(s)
    PROVE  TypeOK' /\ Past' /\ Covers'
  <1>1. /\ calls'[s] = IdleCall /\ \A t \in Slots \ {s} : calls'[t] = calls[t]
        /\ calls' \in [Slots -> {IdleCall} \cup Asked \cup Looking \cup Writing]
    BY SetCall DEF Fail
  <1>2. UNCHANGED <<rows, events, manifest, coverage, decisions, reviewed>>
    BY DEF Fail, sqlite, files
  <1>3. lock' = IF lock = s THEN None ELSE lock
    BY DEF Fail
  <1>4. unrecorded' \subseteq Nat
    <2>1. calls[s].at = "coverage" => calls[s].no \in Nat
      BY ByStep, BegunCall
    <2>. QED  BY <2>1 DEF Fail, TypeOK
  <1>5. IdleCall \notin Writing /\ IdleCall.at # "looked"
    BY DEF IdleCall, Writing
  <1>6. TypeOK'
    BY <1>1, <1>2, <1>3, <1>4 DEF TypeOK
  <1>7. Past'
    BY <1>1, <1>2, <1>5 DEF Past, SameSource
  <1>8. Covers'
    BY <1>1, <1>2, <1>3, <1>5, Sentinels DEF Covers, SameSource
  <1>. QED  BY <1>6, <1>7, <1>8

LEMMA StepKeeps ==
    ASSUME TypeOK, Past, Covers, NEW s \in Slots, Step(s)
    PROVE  TypeOK' /\ Past' /\ Covers' /\ SameSource(rows, rows')
  <1>0. SameSource(rows, rows)
    BY DEF SameSource
  <1>1. ASSUME NEW op \in Operations, Start(s, op)
        PROVE  TypeOK' /\ Past' /\ Covers'
    <2>1. PICK call \in Asked : calls' = [calls EXCEPT ![s] = call]
      BY <1>1, StartStep
    <2>2. calls[s] \notin Writing /\ call.at # "looked"
      BY <1>1 DEF Start, IdleCall, Writing, Asked
    <2>. QED  BY <1>1, <2>1, <2>2, QuietStep DEF Start, TypeOK
  <1>2. CASE LookUp(s)
    <2>1. PICK call \in Looking : calls' = [calls EXCEPT ![s] = call] /\ call.seen = rows
      BY <1>2, LookUpStep
    <2>2. calls[s] \notin Writing
      BY <1>2 DEF LookUp, Writing
    <2>. QED  BY <1>0, <1>2, <2>1, <2>2, QuietStep DEF LookUp, TypeOK, sqlite
  <1>3. CASE Begin(s)
    BY <1>0, <1>3, BeginKeeps DEF Begin, sqlite
  <1>4. CASE Refuse(s)
    <2>1. calls[s] \notin Writing /\ IdleCall.at # "looked"
      BY <1>4 DEF Refuse, Writing, IdleCall
    <2>. QED  BY <1>0, <1>4, <2>1, QuietStep DEF Refuse, TypeOK, sqlite
  <1>5. CASE WriteDecision(s)
    <2>1. calls[s] \in Writing
      BY <1>5, ByStep DEF WriteDecision
    <2>2. decisions' \in [Candidates -> Reviews \cup {None}]
      BY <1>5, <2>1, BegunCall DEF WriteDecision, Op, TypeOK
    <2>. QED  BY <1>0, <1>5, <2>1, <2>2, FileStep DEF WriteDecision, TypeOK, sqlite
  <1>6. CASE WriteManifest(s)
    <2>1. calls[s] \in Writing
      BY <1>6, ByStep DEF WriteManifest
    <2>2. manifest' \in Manifests
      BY <1>6 DEF WriteManifest, Manifests
    <2>. QED  BY <1>0, <1>6, <2>1, <2>2, FileStep DEF WriteManifest, TypeOK, sqlite
  <1>7. CASE WriteCoverage(s)
    <2>1. calls[s] \in Writing
      BY <1>7, ByStep DEF WriteCoverage
    <2>2. coverage' \in Coverages
      BY <1>7, <2>1, ExportedType DEF WriteCoverage
    <2>. QED  BY <1>0, <1>7, <2>1, <2>2, FileStep DEF WriteCoverage, TypeOK, sqlite
  <1>8. CASE Commit(s)
    BY <1>8, CommitStep
  <1>9. CASE Fail(s)
    BY <1>0, <1>9, FailKeeps DEF Fail, sqlite
  <1>10. CASE \E op \in Operations : Start(s, op)
    BY <1>0, <1>1, <1>10 DEF Start, sqlite
  <1>. QED  BY <1>2, <1>3, <1>4, <1>5, <1>6, <1>7, <1>8, <1>9, <1>10 DEF Step

LEMMA TypesAreKept ==
    TypeOK /\ Past /\ Covers /\ [Next]_vars
    => TypeOK' /\ Past' /\ Covers' /\ (SameSource(rows, rows') \/ UNCHANGED vars)
  <1>. SUFFICES ASSUME TypeOK, Past, Covers, [Next]_vars
                PROVE  TypeOK' /\ Past' /\ Covers'
                       /\ (SameSource(rows, rows') \/ UNCHANGED vars)
    OBVIOUS
  <1>1. CASE Next
    BY <1>1, StepKeeps DEF Next
  <1>2. CASE UNCHANGED vars
    BY <1>2 DEF vars, sqlite, files, TypeOK, Past, Covers, SameSource
  <1>. QED  BY <1>1, <1>2

(* Every variable has its type, and only a call that has begun has the     *)
(* write lock.                                                             *)
THEOREM TypeCorrect == Spec => []TypeOK
  <1>. QED  BY InitTypes, TypesAreKept, PTL DEF Spec

(* A candidate that is in stays in, as what it came in, however calls      *)
(* overlap and fail.                                                       *)
THEOREM IntakeStandsHolds == Spec => IntakeStands
  <1>1. TypeOK /\ Past /\ Covers /\ [Next]_vars
        => [\A c \in Candidates : rows[c] # None =>
              rows'[c] # None /\ rows'[c].source = rows[c].source]_vars
    BY TypesAreKept DEF SameSource
  <1>. QED  BY <1>1, InitTypes, TypesAreKept, PTL DEF Spec, IntakeStands

-----------------------------------------------------------------------------
\* Where reviews come from.

ByReviewer(r) == HasReview(r) /\ r.by = "reviewer"
Filed(papers, c, r) == papers[c] # None /\ r.no <= papers[c].no
Kept(recorded, lost, c, r) == <<c, r>> \in recorded \/ r.no \in lost

\* The review a call makes, and the one that is in the ledger before its commit.
Own(call, c, r) ==
    /\ call.op.do = "review" /\ c = call.op.cand
    /\ r = Review(call.no, call.op.as, "reviewer")
Open(table, holder, c, r) ==
    holder # None /\ table[holder].at = "coverage" /\ Own(table[holder], c, r)

FiledNow(c, r) == Filed(decisions, c, r)
KeptNow(c, r) == Kept(events, unrecorded, c, r)

TableTraced(table) ==
    \A c \in Candidates : table[c] # None /\ ByReviewer(table[c].review) =>
        FiledNow(c, table[c].review) /\ KeptNow(c, table[c].review)

LedgerTraced(ledger) ==
    \A c \in Candidates : ByReviewer(ledger[c]) =>
        /\ FiledNow(c, ledger[c])
        /\ KeptNow(c, ledger[c]) \/ Open(calls, lock, c, ledger[c])

\* A review that a call has begun with is another's, or its own and not yet filed.
RowsTraced(call) ==
    \A c \in Candidates : call.rows[c] # None /\ ByReviewer(call.rows[c].review) =>
        \/ FiledNow(c, call.rows[c].review) /\ KeptNow(c, call.rows[c].review)
        \/ /\ Own(call, c, call.rows[c].review)
           /\ call.at = "began" \/ FiledNow(c, call.rows[c].review)

\* Decisions are filed by the call with the lock only, and in the order of their numbers.
InTurn(s) ==
    /\ calls[s].no <= reviewed
    /\ calls[s].op.do = "review" =>
         /\ lock = s
         /\ calls[s].at = "began" => \/ decisions[calls[s].op.cand] = None
                                     \/ decisions[calls[s].op.cand].no <= calls[s].no

CallTraced(s) ==
    /\ calls[s].at \in {"read", "looked"} => LedgerTraced(calls[s].coverage)
    /\ calls[s].at = "looked" => TableTraced(calls[s].seen)
    /\ calls[s] \in Writing => InTurn(s) /\ RowsTraced(calls[s])

Traced ==
    /\ TableTraced(rows) /\ LedgerTraced(coverage)
    /\ \A s \in Slots : CallTraced(s)
    /\ \A c \in Candidates : decisions[c] # None => decisions[c].no <= reviewed

(* What is filed and kept stays so, and the review of an open ledger is    *)
(* open still or kept.                                                     *)
Grows ==
    \A c \in Candidates, r \in Reviews :
        /\ Filed(decisions, c, r) => Filed(decisions', c, r)
        /\ Kept(events, unrecorded, c, r) => Kept(events', unrecorded', c, r)
        /\ Open(calls, lock, c, r) =>
             Open(calls', lock', c, r) \/ Kept(events', unrecorded', c, r)

LEMMA StoresTraced ==
    ASSUME TypeOK, Grows
    PROVE  /\ TableTraced(rows) /\ rows' = rows => TableTraced(rows)'
           /\ LedgerTraced(coverage) /\ coverage' = coverage => LedgerTraced(coverage)'
  <1>1. ASSUME TableTraced(rows), rows' = rows
        PROVE  TableTraced(rows)'
    <2>1. \A c \in Candidates : rows[c] # None => rows[c].review \in Reviews \cup {None}
      BY DEF TypeOK, Tables, Row
    <2>. QED  BY <1>1, <2>1 DEF TableTraced, Grows, ByReviewer, HasReview, FiledNow, KeptNow
  <1>2. ASSUME LedgerTraced(coverage), coverage' = coverage
        PROVE  LedgerTraced(coverage)'
    <2>1. \A c \in Candidates : coverage[c] \in Reviews \cup {None, NoRecord}
      BY DEF TypeOK, Coverages
    <2>. QED  BY <1>2, <2>1 DEF LedgerTraced, Grows, ByReviewer, HasReview, FiledNow, KeptNow
  <1>. QED  BY <1>1, <1>2

LEMMA LedgerCopies ==
    ASSUME TypeOK, Grows, NEW ledger \in Coverages, LedgerTraced(ledger)
    PROVE  \A c \in Candidates : ByReviewer(ledger[c]) =>
              /\ Filed(decisions', c, ledger[c])
              /\ \/ Kept(events', unrecorded', c, ledger[c])
                 \/ Open(calls', lock', c, ledger[c])
  <1>1. \A c \in Candidates : ledger[c] \in Reviews \cup {None, NoRecord}
    BY DEF Coverages
  <1>. QED  BY <1>1 DEF LedgerTraced, Grows, ByReviewer, HasReview, FiledNow, KeptNow

LEMMA TableCopies ==
    ASSUME TypeOK, Grows, NEW table \in Tables, TableTraced(table)
    PROVE  \A c \in Candidates : table[c] # None /\ ByReviewer(table[c].review) =>
              /\ Filed(decisions', c, table[c].review)
              /\ Kept(events', unrecorded', c, table[c].review)
  <1>1. \A c \in Candidates : table[c] # None => table[c].review \in Reviews \cup {None}
    BY DEF Tables, Row
  <1>. QED  BY <1>1 DEF TableTraced, Grows, ByReviewer, HasReview, FiledNow, KeptNow

LEMMA OthersTraced ==
    ASSUME TypeOK, Grows, NEW t \in Slots, CallTraced(t), calls'[t] = calls[t],
           lock = t => lock' = t /\ decisions' = decisions,
           reviewed \in Nat, reviewed' \in Nat, reviewed <= reviewed'
    PROVE  CallTraced(t)'
  <1>1. CASE calls[t] = IdleCall
    BY <1>1 DEF CallTraced, IdleCall, Writing
  <1>2. CASE calls[t].at = "read"
    <2>1. calls[t].coverage \in Coverages /\ calls[t] \notin Writing
      BY <1>2, ByStep DEF Asked, Writing
    <2>2. LedgerTraced(calls[t].coverage)'
      BY <1>2, <2>1, LedgerCopies DEF CallTraced, LedgerTraced, FiledNow, KeptNow
    <2>. QED  BY <1>2, <2>1, <2>2 DEF CallTraced
  <1>3. CASE calls[t].at = "looked"
    <2>1. /\ calls[t].coverage \in Coverages /\ calls[t].seen \in Tables
          /\ calls[t] \notin Writing
      BY <1>3, ByStep DEF Looking, Writing
    <2>2. LedgerTraced(calls[t].coverage)'
      BY <1>3, <2>1, LedgerCopies DEF CallTraced, LedgerTraced, FiledNow, KeptNow
    <2>3. TableTraced(calls[t].seen)'
      BY <1>3, <2>1, TableCopies DEF CallTraced, TableTraced, FiledNow, KeptNow
    <2>. QED  BY <1>3, <2>1, <2>2, <2>3 DEF CallTraced
  <1>4. CASE calls[t] \in Writing
    <2>1. /\ calls[t].at \notin {"read", "looked"} /\ calls[t].no \in Nat
          /\ calls[t].rows \in Tables
      BY <1>4 DEF Writing
    <2>2. InTurn(t)'
      <3>1. InTurn(t)
        BY <1>4 DEF CallTraced
      <3>2. calls'[t].no <= reviewed'
        BY <2>1, <3>1 DEF InTurn
      <3>3. ASSUME calls[t].op.do = "review"
            PROVE  lock' = t /\ decisions' = decisions
        BY <3>1, <3>3 DEF InTurn
      <3>. QED  BY <3>1, <3>2, <3>3 DEF InTurn
    <2>3. \A c \in Candidates : calls[t].rows[c] # None =>
            calls[t].rows[c].review \in Reviews \cup {None}
      BY <2>1 DEF Tables, Row
    <2>4. RowsTraced(calls[t])'
      BY <1>4, <2>3 DEF CallTraced, RowsTraced, Grows, FiledNow, KeptNow,
                        ByReviewer, HasReview
    <2>. QED  BY <2>1, <2>2, <2>4 DEF CallTraced
  <1>. QED  BY <1>1, <1>2, <1>3, <1>4, ByStep

LEMMA StepTraced ==
    ASSUME TypeOK, TypeOK', Traced, Grows, NEW s \in Slots,
           \A t \in Slots \ {s} : calls'[t] = calls[t],
           \A t \in Slots \ {s} : lock = t => lock' = t /\ decisions' = decisions,
           reviewed <= reviewed',
           CallTraced(s)',
           rows' = rows \/ TableTraced(rows)',
           coverage' = coverage \/ LedgerTraced(coverage)',
           \A c \in Candidates : decisions'[c] # None =>
               decisions'[c] = decisions[c] \/ decisions'[c].no <= reviewed'
    PROVE  Traced'
  <1>1. reviewed \in Nat /\ reviewed' \in Nat
    BY DEF TypeOK
  <1>2. ASSUME NEW t \in Slots PROVE CallTraced(t)'
    <2>1. CASE t = s
      BY <2>1
    <2>2. CASE t # s
      <3>1. CallTraced(t)
        BY DEF Traced
      <3>. QED  BY <1>1, <2>2, <3>1, OthersTraced
    <2>. QED  BY <2>1, <2>2
  <1>3. TableTraced(rows)' /\ LedgerTraced(coverage)'
    BY StoresTraced DEF Traced
  <1>4. ASSUME NEW c \in Candidates, decisions'[c] # None
        PROVE  decisions'[c].no <= reviewed'
    <2>1. CASE decisions'[c] = decisions[c]
      <3>1. decisions[c].no \in Nat
        BY <1>4, <2>1 DEF TypeOK, Reviews
      <3>2. decisions[c].no <= reviewed
        BY <1>4, <2>1 DEF Traced
      <3>. QED  BY <1>1, <2>1, <3>1, <3>2
    <2>. QED  BY <1>4, <2>1
  <1>. QED  BY <1>2, <1>3, <1>4 DEF Traced

LEMMA SameGrows ==
    ASSUME TypeOK, NEW s \in Slots, calls[s].at # "coverage",
           \A t \in Slots \ {s} : calls'[t] = calls[t],
           lock' = lock \/ lock = None, decisions' = decisions,
           events' = events, unrecorded \subseteq unrecorded'
    PROVE  Grows
  <1>1. ASSUME NEW c \in Candidates, NEW r \in Reviews, Open(calls, lock, c, r)
        PROVE  Open(calls', lock', c, r)
    <2>1. lock \in Slots \ {s} /\ lock # None
      BY <1>1 DEF Open, TypeOK
    <2>. QED  BY <1>1, <2>1 DEF Open
  <1>2. \A c \in Candidates, r \in Reviews :
          /\ Filed(decisions, c, r) => Filed(decisions', c, r)
          /\ Kept(events, unrecorded, c, r) => Kept(events', unrecorded', c, r)
    BY DEF Kept
  <1>. QED  BY <1>1, <1>2 DEF Grows

LEMMA QuietTraced ==
    ASSUME TypeOK, TypeOK', Traced, NEW s \in Slots, calls[s] \notin Writing,
           NEW call \in {IdleCall} \cup Asked \cup Looking,
           calls' = [calls EXCEPT ![s] = call],
           call.at \in {"read", "looked"} => LedgerTraced(call.coverage),
           call.at = "looked" => TableTraced(call.seen),
           UNCHANGED <<sqlite, files, lock, reviewed>>, unrecorded \subseteq unrecorded'
    PROVE  Traced'
  <1>1. calls'[s] = call /\ \A t \in Slots \ {s} : calls'[t] = calls[t]
    BY SetCall
  <1>2. UNCHANGED <<rows, events, coverage, decisions, lock, reviewed>>
    BY DEF sqlite, files
  <1>3. calls[s].at # "coverage"
    BY ByStep
  <1>4. Grows
    BY <1>1, <1>2, <1>3, SameGrows
  <1>5. call \notin Writing
    BY DEF IdleCall, Asked, Looking, Writing
  <1>6. ASSUME call.at \in {"read", "looked"} PROVE LedgerTraced(call.coverage)'
    <2>1. call.coverage \in Coverages
      BY <1>6 DEF IdleCall, Asked, Looking
    <2>. QED  BY <1>4, <1>6, <2>1, LedgerCopies DEF LedgerTraced, FiledNow, KeptNow
  <1>7. ASSUME call.at = "looked" PROVE TableTraced(call.seen)'
    <2>1. call.seen \in Tables
      BY <1>7 DEF IdleCall, Asked, Looking
    <2>. QED  BY <1>4, <1>7, <2>1, TableCopies DEF TableTraced, FiledNow, KeptNow
  <1>8. CallTraced(s)'
    BY <1>1, <1>5, <1>6, <1>7 DEF CallTraced
  <1>9. reviewed <= reviewed'
    BY <1>2 DEF TypeOK
  <1>. QED  BY <1>1, <1>2, <1>4, <1>8, <1>9, StepTraced

-----------------------------------------------------------------------------
\* What a call begins with.

LEMMA NoneOpen ==
    ASSUME lock = None, NEW ledger, LedgerTraced(ledger)
    PROVE  \A c \in Candidates : ByReviewer(ledger[c]) =>
              FiledNow(c, ledger[c]) /\ KeptNow(c, ledger[c])
  BY DEF LedgerTraced, Open

LEMMA ImportedTraced ==
    ASSUME TypeOK, Traced, NEW s \in Slots, calls[s].at = "looked",
           ImportWrites(s) => lock = None
    PROVE  TableTraced(Imported(s)) /\ TableTraced(Found(s))
  <1>1. /\ LedgerTraced(calls[s].coverage) /\ LedgerTraced(coverage)
        /\ TableTraced(calls[s].seen) /\ TableTraced(rows)
    BY DEF Traced, CallTraced
  <1>2. Inserted(s) \in Tables /\ calls[s].seen \in Tables /\ Covered(s) \in Coverages
    BY ImportedType
  <1>3. TableTraced(Inserted(s))
    <2>1. ~ByReviewer(None)
      BY DEF ByReviewer, HasReview
    <2>. QED  BY <1>1, <2>1 DEF Inserted, TableTraced
  <1>4. TableTraced(Imported(s))
    <2>1. CASE ImportWrites(s)
      <3>1. \A c \in Candidates : ByReviewer(Covered(s)[c]) =>
              FiledNow(c, Covered(s)[c]) /\ KeptNow(c, Covered(s)[c])
        BY <1>1, <2>1, NoneOpen DEF Covered
      <3>2. ASSUME NEW c \in Candidates, Imported(s)[c] # None,
                   ByReviewer(Imported(s)[c].review)
            PROVE  /\ FiledNow(c, Imported(s)[c].review)
                   /\ KeptNow(c, Imported(s)[c].review)
        <4>1. Covering(s, c) \in {calls[s].seen[c], Inserted(s)[c]}
          BY DEF Covering
        <4>2. CASE Covered(s)[c] = NoRecord \/ Covering(s, c) = None
          <5>1. Imported(s)[c] = Inserted(s)[c]
            BY <4>2 DEF Imported
          <5>. QED  BY <1>3, <3>2, <5>1 DEF TableTraced
        <4>3. CASE Covered(s)[c] = None /\ Covering(s, c) # None
          <5>1. Imported(s)[c] = Covering(s, c)
            BY <4>3, Sentinels DEF Imported
          <5>. QED  BY <1>1, <1>3, <3>2, <4>1, <5>1 DEF TableTraced
        <4>4. CASE Covered(s)[c] \in Reviews /\ Covering(s, c) # None
          <5>1. Imported(s)[c] = [Covering(s, c) EXCEPT !.review = Covered(s)[c]]
            BY <4>4, Sentinels DEF Imported
          <5>2. Covering(s, c) \in Row
            BY <1>2, <4>1, <4>4 DEF Tables
          <5>3. Imported(s)[c].review = Covered(s)[c]
            BY <5>1, <5>2 DEF Row
          <5>. QED  BY <3>1, <3>2, <5>3
        <4>. QED  BY <1>2, <4>2, <4>3, <4>4 DEF Coverages
      <3>. QED  BY <3>2 DEF TableTraced
    <2>2. CASE ~ImportWrites(s)
      <3>1. /\ Missing(s) = {}
            /\ \A c \in Candidates : Covered(s)[c] = NoRecord \/ calls[s].seen[c] = None
        <4>1. Missing(s) = {}
          BY <2>2 DEF ImportWrites
        <4>. QED  BY <2>2, <4>1 DEF ImportWrites
      <3>2. \A c \in Candidates : Imported(s)[c] = Inserted(s)[c]
        BY <3>1 DEF Imported, Covering
      <3>. QED  BY <1>3, <3>2 DEF TableTraced
    <2>. QED  BY <2>1, <2>2
  <1>. QED  BY <1>1, <1>4 DEF Found

LEMMA DecidedTraced ==
    ASSUME TypeOK, NEW s \in Slots, calls[s].at = "looked", Possible(s),
           TableTraced(Found(s)),
           NEW no \in Nat, NEW c \in Touched(s), Op(s).do # "write",
           ByReviewer(Decided(s, c, no))
    PROVE  \/ /\ Op(s).do = "review" /\ c = Op(s).cand
              /\ Decided(s, c, no) = Review(no, Op(s).as, "reviewer")
           \/ FiledNow(c, Decided(s, c, no)) /\ KeptNow(c, Decided(s, c, no))
  <1>1. c \in Candidates /\ Found(s)[c] # None
    BY TouchedRows
  <1>2. ~ByReviewer(None)
    BY DEF ByReviewer, HasReview
  <1>3. ASSUME NEW state \in States PROVE ~ByReviewer(Review(no, state, "editor"))
    BY DEF ByReviewer, Review
  <1>4. ASSUME NEW state \in States PROVE ~ByReviewer(Review(no, state, "sweep"))
    BY DEF ByReviewer, Review
  <1>5. CASE Op(s).do = "review"
    BY <1>5, TouchedRows DEF Decided
  <1>6. CASE Op(s).do = "dispose"
    BY <1>6 DEF Decided, ByReviewer, Review
  <1>7. CASE Op(s).do = "backlog"
    <2>1. Decided(s, c, no) = Swept(s, c, no)
      BY <1>7 DEF Decided
    <2>2. Swept(s, c, no) \in {Review(no, "rejected", "sweep"),
                               Review(no, "implemented", "sweep"),
                               Found(s)[c].review, None}
      BY DEF Swept
    <2>3. Decided(s, c, no) = Found(s)[c].review
      BY <1>2, <1>4, <2>1, <2>2 DEF States
    <2>. QED  BY <1>1, <2>3 DEF TableTraced
  <1>8. CASE Op(s).do \notin {"review", "dispose", "backlog"}
    BY <1>2, <1>8 DEF Decided
  <1>. QED  BY <1>5, <1>6, <1>7, <1>8

LEMMA ResultTraced ==
    ASSUME TypeOK, Past, Traced, NEW s \in Slots, calls[s].at = "looked", Possible(s),
           ImportWrites(s) => lock = None,
           NEW call, call.op = Op(s), call.no \in Nat, call.at = "began",
           call.rows = Result(s, call.no)
    PROVE  RowsTraced(call)
  <1>1. TableTraced(Imported(s)) /\ TableTraced(Found(s))
    BY ImportedTraced
  <1>2. ASSUME NEW c \in Candidates, call.rows[c] # None, ByReviewer(call.rows[c].review)
        PROVE  \/ FiledNow(c, call.rows[c].review) /\ KeptNow(c, call.rows[c].review)
               \/ Own(call, c, call.rows[c].review)
    <2>1. CASE c \notin Touched(s)
      <3>1. call.rows[c] = Imported(s)[c]
        BY <2>1 DEF Result
      <3>. QED  BY <1>1, <1>2, <3>1 DEF TableTraced
    <2>2. CASE c \in Touched(s)
      <3>1. call.rows[c] = Changed(s, c, call.no)
        BY <2>2 DEF Result
      <3>2. Changed(s, c, call.no).review =
              IF Op(s).do = "write" THEN None ELSE Decided(s, c, call.no)
        BY <2>2, ChangedRow
      <3>3. Op(s).do # "write" /\ call.rows[c].review = Decided(s, c, call.no)
        BY <1>2, <3>1, <3>2 DEF ByReviewer, HasReview
      <3>. QED  BY <1>1, <1>2, <2>2, <3>3, DecidedTraced DEF Own
    <2>. QED  BY <2>1, <2>2
  <1>. QED  BY <1>2 DEF RowsTraced

LEMMA BeginTraced ==
    ASSUME TypeOK, TypeOK', Past, Traced, NEW s \in Slots, Begin(s)
    PROVE  Traced'
  <1>1. PICK call \in Writing :
           /\ calls' = [calls EXCEPT ![s] = call]
           /\ call.at = "began" /\ call.op = Op(s)
           /\ call.no = (IF Numbers(Op(s)) THEN reviewed + 1 ELSE 0)
           /\ call.rows = Result(s, call.no)
           /\ reviewed' = IF Numbers(Op(s)) THEN call.no ELSE reviewed
    BY BeginStep
  <1>2. calls'[s] = call /\ \A t \in Slots \ {s} : calls'[t] = calls[t]
    BY <1>1, SetCall
  <1>3. UNCHANGED <<rows, events, manifest, coverage, decisions, unrecorded>>
    BY DEF Begin, sqlite, files
  <1>4. /\ lock' = lock \/ (lock = None /\ lock' = s)
        /\ ImportWrites(s) \/ Touched(s) # {} => lock = None /\ lock' = s
    BY DEF Begin
  <1>5. calls[s].at = "looked" /\ Possible(s)
    BY DEF Begin
  <1>6. Grows
    BY <1>2, <1>3, <1>4, <1>5, SameGrows
  <1>7. reviewed \in Nat /\ reviewed <= reviewed' /\ call.no <= reviewed' /\ call.no \in Nat
    BY <1>1 DEF TypeOK
  <1>8. RowsTraced(call)
    BY <1>1, <1>4, <1>5, <1>7, ResultTraced
  <1>9. RowsTraced(call)'
    BY <1>3, <1>8 DEF RowsTraced, FiledNow, KeptNow
  <1>10. InTurn(s)'
    <2>1. call.no <= reviewed'
      BY <1>7
    <2>2. ASSUME call.op.do = "review"
          PROVE  /\ lock' = s
                 /\ decisions[call.op.cand] = None \/ decisions[call.op.cand].no <= call.no
      <3>1. call.op.cand \in Candidates /\ call.no = reviewed + 1
        BY <1>1, <1>5, <2>2, ImportedType, OperationType DEF Numbers, Op
      <3>2. call.op.cand \in Touched(s)
        BY <1>1, <2>2, <3>1 DEF Touched
      <3>3. decisions[call.op.cand] = None
            \/ (decisions[call.op.cand].no \in Nat /\ decisions[call.op.cand].no <= reviewed)
        BY <3>1 DEF Traced, TypeOK, Reviews
      <3>. QED  BY <1>4, <1>7, <3>1, <3>2, <3>3
    <2>. QED  BY <1>2, <1>3, <2>1, <2>2 DEF InTurn
  <1>11. CallTraced(s)'
    <2>1. call.at \notin {"read", "looked"}
      BY <1>1
    <2>. QED  BY <1>2, <1>9, <1>10, <2>1 DEF CallTraced
  <1>12. \A t \in Slots \ {s} : lock = t => lock' = t /\ decisions' = decisions
    BY <1>3, <1>4, Sentinels
  <1>. QED  BY <1>2, <1>3, <1>6, <1>7, <1>11, <1>12, StepTraced

-----------------------------------------------------------------------------
\* The files, the commit and the failures.

LEMMA DecisionTraced ==
    ASSUME TypeOK, TypeOK', Traced, NEW s \in Slots, WriteDecision(s)
    PROVE  Traced'
  <1>1. calls[s] \in Writing /\ calls[s].at = "began" /\ calls[s].op.do = "review"
    BY ByStep DEF WriteDecision, Op
  <1>2. /\ calls'[s].at = "decided" /\ calls'[s].op = calls[s].op
        /\ calls'[s].no = calls[s].no /\ calls'[s].rows = calls[s].rows
        /\ \A t \in Slots \ {s} : calls'[t] = calls[t]
    BY <1>1, GotoStep DEF WriteDecision
  <1>3. InTurn(s) /\ RowsTraced(calls[s])
    BY <1>1 DEF Traced, CallTraced
  <1>4. UNCHANGED <<rows, events, coverage, lock, reviewed, unrecorded>>
    BY DEF WriteDecision, sqlite
  <1> DEFINE cand == calls[s].op.cand
             review == Review(calls[s].no, calls[s].op.as, "reviewer")
  <1>5. /\ cand \in Candidates /\ review \in Reviews /\ review.no = calls[s].no
        /\ calls[s].no \in Nat /\ calls[s].rows \in Tables
    BY <1>1, BegunCall DEF Review
  <1>6. /\ decisions'[cand] = review
        /\ \A c \in Candidates \ {cand} : decisions'[c] = decisions[c]
    BY <1>5 DEF WriteDecision, TypeOK, Op
  <1>7. /\ lock = s /\ calls[s].no <= reviewed
        /\ decisions[cand] = None \/ decisions[cand].no <= calls[s].no
    BY <1>1, <1>3 DEF InTurn
  <1>8. Grows
    <2>1. ASSUME NEW c \in Candidates, NEW r \in Reviews, Filed(decisions, c, r)
          PROVE  Filed(decisions', c, r)
      <3>1. CASE c = cand
        <4>1. decisions[c].no \in Nat /\ r.no \in Nat /\ r.no <= decisions[c].no
          BY <2>1 DEF Filed, TypeOK, Reviews
        <4>. QED  BY <1>5, <1>6, <1>7, <2>1, <3>1, <4>1, Sentinels DEF Filed
      <3>2. CASE c # cand
        BY <1>6, <2>1, <3>2 DEF Filed
      <3>. QED  BY <3>1, <3>2
    <2>2. \A c \in Candidates, r \in Reviews : ~Open(calls, lock, c, r)
      BY <1>1, <1>7 DEF Open
    <2>. QED  BY <1>4, <2>1, <2>2 DEF Grows
  <1>9. RowsTraced(calls[s])'
    <2>1. ASSUME NEW c \in Candidates, calls[s].rows[c] # None,
                 ByReviewer(calls[s].rows[c].review)
          PROVE  \/ Filed(decisions', c, calls[s].rows[c].review)
                    /\ Kept(events', unrecorded', c, calls[s].rows[c].review)
                 \/ Own(calls'[s], c, calls[s].rows[c].review)
                    /\ Filed(decisions', c, calls[s].rows[c].review)
      <3>1. CASE Own(calls[s], c, calls[s].rows[c].review)
        <4>1. c = cand /\ calls[s].rows[c].review = review
          BY <3>1 DEF Own
        <4>2. Filed(decisions', c, review)
          BY <1>5, <1>6, <4>1, Sentinels DEF Filed
        <4>. QED  BY <1>2, <3>1, <4>1, <4>2 DEF Own
      <3>2. CASE /\ FiledNow(c, calls[s].rows[c].review)
                 /\ KeptNow(c, calls[s].rows[c].review)
        <4>1. calls[s].rows[c].review \in Reviews
          BY <1>5, <2>1 DEF Tables, Row, ByReviewer, HasReview
        <4>. QED  BY <1>8, <3>2, <4>1 DEF Grows, FiledNow, KeptNow
      <3>. QED  BY <1>3, <2>1, <3>1, <3>2 DEF RowsTraced
    <2>. QED  BY <1>2, <2>1 DEF RowsTraced, FiledNow, KeptNow
  <1>10. InTurn(s)'
    BY <1>2, <1>4, <1>7 DEF InTurn
  <1>11. CallTraced(s)'
    BY <1>2, <1>9, <1>10 DEF CallTraced
  <1>12. \A c \in Candidates : decisions'[c] # None =>
           decisions'[c] = decisions[c] \/ decisions'[c].no <= reviewed'
    BY <1>4, <1>5, <1>6, <1>7
  <1>13. reviewed <= reviewed'
    BY <1>4 DEF TypeOK
  <1>. QED  BY <1>2, <1>4, <1>7, <1>8, <1>11, <1>12, <1>13, StepTraced

(* The call goes on from one file to the next.                             *)
LEMMA ExportStep ==
    ASSUME TypeOK, Traced, NEW s \in Slots, calls[s] \in Writing,
           calls[s].at \in {"decided", "manifest"}
              \/ (calls[s].at = "began" /\ calls[s].op.do # "review"),
           NEW step \in {"manifest", "coverage"}, Goto(s, step),
           UNCHANGED <<rows, events, decisions, lock, reviewed, unrecorded>>
    PROVE  /\ Grows /\ CallTraced(s)'
           /\ \A t \in Slots \ {s} : calls'[t] = calls[t]
           /\ calls'[s].at = step /\ calls'[s].rows = calls[s].rows
           /\ calls'[s].op = calls[s].op /\ calls'[s].no = calls[s].no
  <1>1. /\ calls'[s] \in Writing /\ calls'[s].at = step
        /\ calls'[s].op = calls[s].op /\ calls'[s].no = calls[s].no
        /\ calls'[s].rows = calls[s].rows
        /\ \A t \in Slots \ {s} : calls'[t] = calls[t]
    BY GotoStep
  <1>2. Grows
    BY <1>1, SameGrows
  <1>3. InTurn(s) /\ RowsTraced(calls[s])
    BY DEF Traced, CallTraced
  <1>4. InTurn(s)'
    BY <1>1, <1>3 DEF InTurn
  <1>5. RowsTraced(calls[s])'
    BY <1>1, <1>3 DEF RowsTraced, Own, FiledNow, KeptNow
  <1>. QED  BY <1>1, <1>2, <1>4, <1>5 DEF CallTraced

LEMMA CoverageTraced ==
    ASSUME TypeOK, TypeOK', Traced, NEW s \in Slots, WriteCoverage(s)
    PROVE  Traced'
  <1>1. calls[s] \in Writing /\ calls[s].at = "manifest"
    BY ByStep DEF WriteCoverage
  <1>2. UNCHANGED <<rows, events, decisions, lock, reviewed, unrecorded>>
    BY DEF WriteCoverage, sqlite
  <1>3. /\ Grows /\ CallTraced(s)'
        /\ \A t \in Slots \ {s} : calls'[t] = calls[t]
        /\ calls'[s].at = "coverage" /\ calls'[s].op = calls[s].op
        /\ calls'[s].no = calls[s].no
    BY <1>1, <1>2, ExportStep DEF WriteCoverage
  <1>4. InTurn(s) /\ RowsTraced(calls[s])
    BY <1>1 DEF Traced, CallTraced
  <1>5. ASSUME NEW c \in Candidates, ByReviewer(coverage'[c])
        PROVE  /\ Filed(decisions', c, coverage'[c])
               /\ \/ Kept(events', unrecorded', c, coverage'[c])
                  \/ Open(calls', lock', c, coverage'[c])
    <2>1. ~ByReviewer(None) /\ ~ByReviewer(NoRecord)
      BY DEF ByReviewer, HasReview
    <2>2. calls[s].rows[c] # None /\ coverage'[c] = calls[s].rows[c].review
      BY <1>5, <2>1 DEF WriteCoverage, Exported
    <2>3. CASE Own(calls[s], c, coverage'[c])
      <3>1. Filed(decisions, c, coverage'[c])
        BY <1>1, <1>4, <1>5, <2>2, <2>3 DEF RowsTraced, FiledNow
      <3>2. lock = s
        BY <1>4, <2>3 DEF InTurn, Own
      <3>3. Open(calls', lock', c, coverage'[c])
        BY <1>2, <1>3, <2>3, <3>2, Sentinels DEF Open, Own
      <3>. QED  BY <1>2, <3>1, <3>3
    <2>4. CASE ~Own(calls[s], c, coverage'[c])
      BY <1>2, <1>4, <1>5, <2>2, <2>4 DEF RowsTraced, FiledNow, KeptNow
    <2>. QED  BY <2>3, <2>4
  <1>6. LedgerTraced(coverage)'
    BY <1>5 DEF LedgerTraced, FiledNow, KeptNow
  <1>7. reviewed <= reviewed'
    BY <1>2 DEF TypeOK
  <1>. QED  BY <1>2, <1>3, <1>6, <1>7, StepTraced

LEMMA CommitTraced ==
    ASSUME TypeOK, TypeOK', Traced, NEW s \in Slots, Commit(s)
    PROVE  Traced'
  <1>1. calls[s] \in Writing /\ calls[s].at \in {"coverage", "began"}
    BY ByStep DEF Commit, Done
  <1>2. calls'[s] = IdleCall /\ \A t \in Slots \ {s} : calls'[t] = calls[t]
    BY SetCall DEF Commit
  <1>3. InTurn(s) /\ RowsTraced(calls[s])
    BY <1>1 DEF Traced, CallTraced
  <1>4. UNCHANGED <<coverage, decisions, reviewed, unrecorded>>
    BY DEF Commit, files
  <1>5. events' = events \cup Recorded(s)
    BY DEF Commit
  <1>6. /\ lock = s => lock' = None /\ rows' = calls[s].rows
        /\ lock # s => lock' = lock /\ rows' = rows
    BY DEF Commit
  <1>7. ASSUME NEW c \in Candidates, NEW r \in Reviews, Own(calls[s], c, r)
        PROVE  Kept(events', unrecorded', c, r)
    BY <1>5, <1>7 DEF Own, Recorded, Op, Kept
  <1>8. Grows
    <2>1. ASSUME NEW c \in Candidates, NEW r \in Reviews, Open(calls, lock, c, r)
          PROVE  Open(calls', lock', c, r) \/ Kept(events', unrecorded', c, r)
      <3>1. CASE lock = s
        BY <1>7, <2>1, <3>1 DEF Open
      <3>2. CASE lock # s
        <4>1. lock \in Slots \ {s}
          BY <2>1, <3>2 DEF Open, TypeOK
        <4>. QED  BY <1>2, <1>6, <2>1, <3>2, <4>1 DEF Open
      <3>. QED  BY <3>1, <3>2
    <2>2. \A c \in Candidates, r \in Reviews :
            /\ Filed(decisions, c, r) => Filed(decisions', c, r)
            /\ Kept(events, unrecorded, c, r) => Kept(events', unrecorded', c, r)
      BY <1>4, <1>5 DEF Kept
    <2>. QED  BY <2>1, <2>2 DEF Grows
  <1>9. rows' = rows \/ TableTraced(rows)'
    <2>1. CASE lock = s
      <3>1. ASSUME NEW c \in Candidates, calls[s].rows[c] # None,
                   ByReviewer(calls[s].rows[c].review)
            PROVE  /\ Filed(decisions', c, calls[s].rows[c].review)
                   /\ Kept(events', unrecorded', c, calls[s].rows[c].review)
        <4>1. calls[s].rows[c].review \in Reviews
          BY <1>1, <3>1, BegunCall DEF Tables, Row, ByReviewer, HasReview
        <4>2. CASE Own(calls[s], c, calls[s].rows[c].review)
          <5>1. Op(s).do = "review"
            BY <4>2 DEF Own, Op
          <5>2. calls[s].at # "began"
            BY <5>1 DEF Commit, Done, Exports
          <5>. QED  BY <1>3, <1>4, <1>7, <3>1, <4>1, <4>2, <5>2 DEF RowsTraced, FiledNow
        <4>3. CASE /\ FiledNow(c, calls[s].rows[c].review)
                   /\ KeptNow(c, calls[s].rows[c].review)
          BY <1>8, <4>1, <4>3 DEF Grows, FiledNow, KeptNow
        <4>. QED  BY <1>3, <3>1, <4>2, <4>3 DEF RowsTraced
      <3>2. rows' = calls[s].rows
        BY <1>6, <2>1
      <3>. QED  BY <3>1, <3>2 DEF TableTraced, FiledNow, KeptNow
    <2>. QED  BY <1>6, <2>1
  <1>10. CallTraced(s)'
    BY <1>2 DEF CallTraced, IdleCall, Writing
  <1>11. \A t \in Slots \ {s} : lock = t => lock' = t /\ decisions' = decisions
    BY <1>4, <1>6
  <1>12. reviewed <= reviewed'
    BY <1>4 DEF TypeOK
  <1>. QED  BY <1>2, <1>4, <1>8, <1>9, <1>10, <1>11, <1>12, StepTraced

LEMMA FailTraced ==
    ASSUME TypeOK, TypeOK', Traced, NEW s \in Slots, Fail(s)
    PROVE  Traced'
  <1>1. calls'[s] = IdleCall /\ \A t \in Slots \ {s} : calls'[t] = calls[t]
    BY SetCall DEF Fail
  <1>2. UNCHANGED <<rows, events, coverage, decisions, reviewed>>
    BY DEF Fail, sqlite, files
  <1>3. /\ unrecorded \subseteq unrecorded'
        /\ calls[s].at = "coverage" => calls[s].no \in unrecorded'
        /\ lock' = IF lock = s THEN None ELSE lock
    BY DEF Fail
  <1>4. Grows
    <2>1. ASSUME NEW c \in Candidates, NEW r \in Reviews, Open(calls, lock, c, r)
          PROVE  Open(calls', lock', c, r) \/ Kept(events', unrecorded', c, r)
      <3>1. CASE lock = s
        BY <1>3, <2>1, <3>1 DEF Open, Own, Kept, Review
      <3>2. CASE lock # s
        <4>1. lock \in Slots \ {s}
          BY <2>1, <3>2 DEF Open, TypeOK
        <4>. QED  BY <1>1, <1>3, <2>1, <3>2, <4>1 DEF Open
      <3>. QED  BY <3>1, <3>2
    <2>2. \A c \in Candidates, r \in Reviews :
            /\ Filed(decisions, c, r) => Filed(decisions', c, r)
            /\ Kept(events, unrecorded, c, r) => Kept(events', unrecorded', c, r)
      BY <1>2, <1>3 DEF Kept
    <2>. QED  BY <2>1, <2>2 DEF Grows
  <1>5. CallTraced(s)'
    BY <1>1 DEF CallTraced, IdleCall, Writing
  <1>6. \A t \in Slots \ {s} : lock = t => lock' = t /\ decisions' = decisions
    BY <1>2, <1>3
  <1>7. reviewed <= reviewed'
    BY <1>2 DEF TypeOK
  <1>. QED  BY <1>1, <1>2, <1>4, <1>5, <1>6, <1>7, StepTraced

-----------------------------------------------------------------------------
\* Traced holds initially and is kept.

LEMMA InitTraced == Init => Traced
  <1>. SUFFICES ASSUME Init PROVE Traced
    OBVIOUS
  <1>1. TableTraced(rows)
    BY DEF Init, TableTraced
  <1>2. LedgerTraced(coverage)
    <2>1. PICK l \in Ledgers : coverage = l.coverage
      BY DEF Init
    <2>2. \A c \in Candidates : ~ByReviewer(coverage[c])
      BY <2>1, QuarantineConstants DEF ByReviewer
    <2>. QED  BY <2>2 DEF LedgerTraced
  <1>3. \A s \in Slots : CallTraced(s)
    BY DEF Init, CallTraced, IdleCall, Writing
  <1>4. \A c \in Candidates : decisions[c] = None
    BY DEF Init
  <1>. QED  BY <1>1, <1>2, <1>3, <1>4 DEF Traced

LEMMA TracedStep ==
    ASSUME TypeOK, TypeOK', Past, Traced, NEW s \in Slots, Step(s)
    PROVE  Traced'
  <1>1. ASSUME NEW op \in Operations, Start(s, op)
        PROVE  Traced'
    <2>1. PICK call \in Asked : /\ calls' = [calls EXCEPT ![s] = call]
                                /\ call.coverage \in {coverage, NoCoverage}
      BY <1>1, StartStep
    <2>2. LedgerTraced(NoCoverage)
      BY DEF LedgerTraced, NoCoverage, ByReviewer, HasReview
    <2>3. LedgerTraced(call.coverage)
      BY <2>1, <2>2 DEF Traced
    <2>4. calls[s] \notin Writing /\ call.at # "looked"
      BY <1>1 DEF Start, IdleCall, Writing, Asked
    <2>. QED  BY <1>1, <2>1, <2>3, <2>4, QuietTraced DEF Start
  <1>2. CASE LookUp(s)
    <2>1. PICK call \in Looking : /\ calls' = [calls EXCEPT ![s] = call]
                                  /\ call.seen = rows
                                  /\ call.coverage = calls[s].coverage
      BY <1>2, LookUpStep
    <2>2. LedgerTraced(call.coverage) /\ TableTraced(call.seen)
      BY <1>2, <2>1 DEF LookUp, Traced, CallTraced
    <2>3. calls[s] \notin Writing
      BY <1>2 DEF LookUp, Writing
    <2>. QED  BY <1>2, <2>1, <2>2, <2>3, QuietTraced DEF LookUp
  <1>3. CASE Refuse(s)
    <2>1. calls[s] \notin Writing /\ IdleCall.at = "idle"
      BY <1>3 DEF Refuse, Writing, IdleCall
    <2>. QED  BY <1>3, <2>1, QuietTraced DEF Refuse
  <1>4. CASE WriteManifest(s)
    <2>1. /\ calls[s] \in Writing
          /\ calls[s].at = "decided" \/ (calls[s].at = "began" /\ calls[s].op.do # "review")
      BY <1>4, ByStep DEF WriteManifest, Op
    <2>2. UNCHANGED <<rows, events, coverage, decisions, lock, reviewed, unrecorded>>
      BY <1>4 DEF WriteManifest, sqlite
    <2>3. Grows /\ CallTraced(s)' /\ \A t \in Slots \ {s} : calls'[t] = calls[t]
      BY <1>4, <2>1, <2>2, ExportStep DEF WriteManifest
    <2>4. reviewed <= reviewed'
      BY <2>2 DEF TypeOK
    <2>. QED  BY <2>2, <2>3, <2>4, StepTraced
  <1>5. CASE \E op \in Operations : Start(s, op)
    BY <1>1, <1>5
  <1>. QED  BY <1>2, <1>3, <1>4, <1>5, BeginTraced, DecisionTraced, CoverageTraced,
               CommitTraced, FailTraced DEF Step

LEMMA TracedIsKept ==
    TypeOK /\ Past /\ Covers /\ Traced /\ [Next]_vars => Traced'
  <1>. SUFFICES ASSUME TypeOK, Past, Covers, Traced, [Next]_vars PROVE Traced'
    OBVIOUS
  <1>1. TypeOK'
    BY TypesAreKept
  <1>2. CASE Next
    BY <1>1, <1>2, TracedStep DEF Next
  <1>3. CASE UNCHANGED vars
    <2>1. /\ UNCHANGED <<rows, events, coverage, decisions, lock, calls, reviewed,
                         unrecorded>>
      BY <1>3 DEF vars, sqlite, files
    <2>2. TableTraced(rows)' /\ LedgerTraced(coverage)'
      BY <2>1 DEF Traced, TableTraced, LedgerTraced, FiledNow, KeptNow
    <2>3. \A s \in Slots : CallTraced(s)'
      BY <2>1 DEF Traced, CallTraced, TableTraced, LedgerTraced, InTurn, RowsTraced,
                  FiledNow, KeptNow
    <2>. QED  BY <2>1, <2>2, <2>3 DEF Traced
  <1>. QED  BY <1>2, <1>3

LEMMA TracedAlways == Spec => [](TypeOK /\ Traced)
  <1>. QED  BY InitTypes, TypesAreKept, InitTraced, TracedIsKept, PTL DEF Spec

(* A review in SQLite has its event, or came from the ledger of a call     *)
(* that never committed, in whatever order calls read, wait, write and     *)
(* fail.                                                                   *)
THEOREM ReviewsAreRecordedHolds == Spec => []ReviewsAreRecorded
  <1>1. TypeOK /\ Traced => ReviewsAreRecorded
    <2>. SUFFICES ASSUME TypeOK, Traced PROVE ReviewsAreRecorded
      OBVIOUS
    <2>1. \A c \in Candidates : rows[c] # None => rows[c].review \in Reviews \cup {None}
      BY DEF TypeOK, Tables, Row
    <2>. QED  BY <2>1, Sentinels DEF Traced, TableTraced, ReviewsAreRecorded, ByReviewer,
                          HasReview, KeptNow, Kept
  <1>. QED  BY <1>1, TracedAlways, PTL

(* The decision file that a review in the coverage ledger names is there,  *)
(* with that review or a later one.                                        *)
THEOREM ReviewPathsExistHolds == Spec => []ReviewPathsExist
  <1>1. TypeOK /\ Traced => ReviewPathsExist
    BY DEF Traced, LedgerTraced, ReviewPathsExist, ByReviewer, FiledNow, Filed
  <1>. QED  BY <1>1, TracedAlways, PTL

-----------------------------------------------------------------------------
\* Calls one at a time.  What two at once do to the ledger is a finding: each imports
\* the files as they were before the other had written them.

OneAtATime == \A s, t \in Slots : s = t

(* A review that is not the row's own came from a call that failed after   *)
(* it had written the ledger, and is later than the row's.                 *)
ReviewOf(row) == IF row = None THEN None ELSE row.review

Since(row, review, numbers) ==
    HasReview(review) =>
        \/ review = ReviewOf(row)
        \/ /\ review.no \in numbers
           /\ HasReview(ReviewOf(row)) => ReviewOf(row).no < review.no

Numbered(review) == HasReview(review) => review.no <= reviewed

Spares(s) ==
    \A c \in Candidates :
        /\ rows[c] # None /\ Settled(rows[c].review)
        /\ ReviewOf(calls[s].rows[c]) # rows[c].review
        => \/ Op(s).do = "backlog"
           \/ Op(s).do \in {"review", "dispose"} /\ Op(s).cand = c
           \/ \E no \in unrecorded : no > rows[c].review.no

ReadAlone(s) ==
    /\ IF Op(s).do = "dispose"
       THEN calls[s].manifest = {} /\ calls[s].coverage = NoCoverage
       ELSE calls[s].coverage = coverage
    /\ calls[s].at = "looked" => calls[s].seen = rows

WritesAlone(s) ==
    /\ lock = s \/ calls[s].rows = rows
    /\ calls[s].no <= reviewed
    /\ \A c \in Candidates :
          /\ Since(rows[c], ReviewOf(calls[s].rows[c]), unrecorded \cup {calls[s].no})
          /\ Numbered(ReviewOf(calls[s].rows[c]))
          /\ ~Exports(Op(s)) => Since(calls[s].rows[c], coverage[c], unrecorded)
    /\ Spares(s)
    /\ calls[s].at = "coverage" => coverage = Exported(s)

Alone ==
    /\ \A c \in Candidates : Numbered(ReviewOf(rows[c])) /\ Numbered(coverage[c])
    /\ \A s \in Slots : /\ calls[s].at \in {"read", "looked"} => ReadAlone(s)
                        /\ calls[s] \in Writing => WritesAlone(s)
    /\ (\A s \in Slots : calls[s].at # "coverage") =>
          \A c \in Candidates : Since(rows[c], coverage[c], unrecorded)

LEMMA SinceFacts ==
    /\ ~HasReview(None) /\ ~HasReview(NoRecord)
    /\ ReviewOf(None) = None
    /\ \A row \in Row : ReviewOf(row) = row.review /\ row # None
    /\ \A row, numbers : Since(row, None, numbers) /\ Since(row, NoRecord, numbers)
    /\ \A row, numbers : Since(row, ReviewOf(row), numbers)
  BY Sentinels DEF HasReview, ReviewOf, Since

(* What the import brings to a call that is alone: the rows, with reviews  *)
(* of the ledger.                                                          *)
LEMMA ImportedAlone ==
    ASSUME TypeOK, Alone, OneAtATime, NEW s \in Slots, calls[s].at = "looked", Possible(s)
    PROVE  /\ \A c \in Candidates :
                /\ Found(s)[c] = Imported(s)[c]
                /\ \/ ReviewOf(Imported(s)[c]) = ReviewOf(rows[c])
                   \/ /\ HasReview(coverage[c])
                      /\ ReviewOf(Imported(s)[c]) = coverage[c]
                /\ Op(s).do # "dispose" /\ HasReview(coverage[c]) /\ Imported(s)[c] # None =>
                     ReviewOf(Imported(s)[c]) = coverage[c]
           /\ ~ImportWrites(s) => Imported(s) = rows
  <1>1. /\ calls[s].seen = rows
        /\ IF Op(s).do = "dispose"
           THEN calls[s].manifest = {} /\ calls[s].coverage = NoCoverage
           ELSE calls[s].coverage = coverage
    BY DEF Alone, ReadAlone
  <1>2. rows \in Tables /\ coverage \in Coverages
    BY DEF TypeOK
  <1>3. Inserted(s) \in Tables /\ Imported(s) \in Tables
    BY ImportedType
  <1>4. \A c \in Candidates : Covered(s)[c] = coverage[c]
                              \/ (Op(s).do = "dispose" /\ Covered(s)[c] = NoRecord)
    BY <1>1 DEF Covered, Missing, NoCoverage
  <1>5. ASSUME NEW c \in Candidates
        PROVE  /\ ReviewOf(Inserted(s)[c]) = ReviewOf(rows[c])
               /\ rows[c] # None => Inserted(s)[c] = rows[c]
               /\ Inserted(s)[c] = rows[c] \/ c \in Missing(s)
    BY SinceFacts, Sentinels DEF Inserted, Possible, ReviewOf
  <1>6. ASSUME NEW c \in Candidates
        PROVE  /\ ReviewOf(Covering(s, c)) = ReviewOf(rows[c])
               /\ Covering(s, c) = Inserted(s)[c]
               /\ Covering(s, c) \in Row \cup {None}
    <2>1. Covering(s, c) \in {rows[c], Inserted(s)[c]}
      BY <1>1 DEF Covering
    <2>2. CASE Missing(s) = {}
      BY <1>3, <1>5, <2>1, <2>2 DEF Tables
    <2>3. CASE Missing(s) # {}
      BY <1>3, <1>5, <2>3 DEF Covering, Tables
    <2>. QED  BY <2>2, <2>3
  <1>7. ASSUME NEW c \in Candidates
        PROVE  /\ \/ Imported(s)[c] = Inserted(s)[c]
                  \/ HasReview(coverage[c]) /\ ReviewOf(Imported(s)[c]) = coverage[c]
               /\ Op(s).do # "dispose" /\ HasReview(coverage[c]) /\ Imported(s)[c] # None =>
                    ReviewOf(Imported(s)[c]) = coverage[c]
    <2>1. CASE Covered(s)[c] = NoRecord \/ Covering(s, c) = None
      <3>1. Imported(s)[c] = Inserted(s)[c]
        BY <2>1 DEF Imported
      <3>2. Covering(s, c) = None => Imported(s)[c] = None
        BY <1>6, <3>1
      <3>. QED  BY <1>4, <2>1, <3>1, <3>2, SinceFacts
    <2>2. CASE Covered(s)[c] = None /\ Covering(s, c) # None
      <3>1. Imported(s)[c] = Covering(s, c)
        BY <2>2, Sentinels DEF Imported
      <3>2. coverage[c] = None
        BY <1>4, <2>2, Sentinels
      <3>. QED  BY <1>6, <3>1, <3>2, SinceFacts
    <2>3. CASE Covered(s)[c] \in Reviews /\ Covering(s, c) # None
      <3>1. Imported(s)[c] = [Covering(s, c) EXCEPT !.review = Covered(s)[c]]
        BY <2>3, Sentinels DEF Imported
      <3>2. Imported(s)[c] \in Row /\ Imported(s)[c].review = Covered(s)[c]
        BY <1>6, <2>3, <3>1 DEF Row
      <3>3. Covered(s)[c] = coverage[c] /\ HasReview(coverage[c])
        BY <1>4, <2>3, Sentinels DEF HasReview
      <3>. QED  BY <3>2, <3>3, SinceFacts
    <2>. QED  BY <1>2, <1>4, <2>1, <2>2, <2>3 DEF Coverages
  <1>8. ASSUME ~ImportWrites(s) PROVE Imported(s) = rows
    <2>1. Missing(s) = {}
      BY <1>8 DEF ImportWrites
    <2>2. \A c \in Candidates : Covered(s)[c] = NoRecord \/ rows[c] = None
      BY <1>1, <1>8, <2>1 DEF ImportWrites
    <2>3. \A c \in Candidates : Imported(s)[c] = rows[c]
      BY <1>5, <1>6, <2>1, <2>2 DEF Imported
    <2>. QED  BY <1>2, <1>3, <2>3 DEF Tables
  <1>9. Found(s) = Imported(s)
    BY <1>1, <1>8 DEF Found
  <1>. QED  BY <1>5, <1>7, <1>8, <1>9

(* What the call makes of a row: what the import has brought, no review,   *)
(* or one with its own number.                                             *)
LEMMA ResultAlone ==
    ASSUME TypeOK, Past, Alone, OneAtATime, NEW s \in Slots, calls[s].at = "looked",
           Possible(s), NEW no \in Nat, NEW c \in Candidates
    PROVE  LET new == ReviewOf(Result(s, no)[c])
           IN  /\ \/ new = None \/ new = ReviewOf(rows[c])
                  \/ HasReview(coverage[c]) /\ new = coverage[c]
                  \/ new \in Reviews /\ new.no = no /\ Numbers(Op(s))
               /\ c \notin Touched(s) => Result(s, no)[c] = Imported(s)[c]
  <1>1. c \notin Touched(s) => Result(s, no)[c] = Imported(s)[c]
    BY DEF Result
  <1>2. \/ ReviewOf(Imported(s)[c]) = ReviewOf(rows[c])
        \/ HasReview(coverage[c]) /\ ReviewOf(Imported(s)[c]) = coverage[c]
    BY ImportedAlone
  <1>3. ASSUME c \in Touched(s)
        PROVE  LET new == ReviewOf(Result(s, no)[c])
               IN  \/ new = None \/ new = ReviewOf(Imported(s)[c])
                   \/ new \in Reviews /\ new.no = no /\ Numbers(Op(s))
    <2>1. /\ Result(s, no)[c] = Changed(s, c, no)
          /\ Changed(s, c, no) \in Row
          /\ Changed(s, c, no).review =
               IF Op(s).do = "write" THEN None ELSE Decided(s, c, no)
      BY <1>3, ChangedRow DEF Result
    <2>2. ReviewOf(Result(s, no)[c]) =
               IF Op(s).do = "write" THEN None ELSE Decided(s, c, no)
      BY <2>1, SinceFacts
    <2>3. CASE Op(s).do \in {"review", "dispose"}
      <3>1. Op(s).as \in States
        BY <2>3, ImportedType, OperationType DEF Op
      <3>2. /\ Review(no, Op(s).as, "reviewer") \in Reviews
            /\ Review(no, Op(s).as, "editor") \in Reviews
        BY <3>1, ReviewType
      <3>. QED  BY <2>2, <2>3, <3>2 DEF Decided, Review, Numbers
    <2>4. CASE Op(s).do = "backlog"
      <3>1. /\ Review(no, "rejected", "sweep") \in Reviews
            /\ Review(no, "implemented", "sweep") \in Reviews
        BY ReviewType DEF States
      <3>2. Found(s)[c] = Imported(s)[c] /\ Found(s)[c] # None
        BY <1>3, <2>4, ImportedAlone, TouchedRows
      <3>3. Found(s)[c].review = ReviewOf(Imported(s)[c])
        BY <3>2 DEF ReviewOf
      <3>4. Decided(s, c, no) \in {Review(no, "rejected", "sweep"),
                                   Review(no, "implemented", "sweep"),
                                   ReviewOf(Imported(s)[c]), None}
        BY <2>4, <3>3 DEF Decided, Swept
      <3>. QED  BY <2>2, <2>4, <3>1, <3>4 DEF Review, Numbers
    <2>5. CASE Op(s).do \notin {"review", "dispose", "backlog"}
      BY <2>2, <2>5 DEF Decided
    <2>. QED  BY <2>3, <2>4, <2>5
  <1>. QED  BY <1>1, <1>2, <1>3

LEMMA SparesAlone ==
    ASSUME TypeOK, Past, Alone, OneAtATime, NEW s \in Slots, calls[s].at = "looked",
           Possible(s), NEW no \in Nat, NEW c \in Candidates,
           rows[c] # None, Settled(rows[c].review),
           ReviewOf(Result(s, no)[c]) # rows[c].review,
           Op(s).do # "backlog", ~(Op(s).do \in {"review", "dispose"} /\ Op(s).cand = c)
    PROVE  \E n \in unrecorded : n > rows[c].review.no
  <1>1. rows[c].review \in Reviews /\ ReviewOf(rows[c]) = rows[c].review
    BY SinceFacts DEF TypeOK, Tables, Row, Settled
  <1>2. ReviewOf(Imported(s)[c]) # ReviewOf(rows[c])
    <2>1. CASE c \notin Touched(s)
      BY <1>1, <2>1, ResultAlone
    <2>2. CASE c \in Touched(s)
      <3>1. CASE Op(s).do = "write"
        <4>1. Imported(s)[c] = None
          BY <2>2, <3>1, TouchedRows DEF Possible
        <4>. QED  BY <1>1, <4>1, SinceFacts, Sentinels
      <3>2. CASE Op(s).do = "reset"
        <4>1. /\ Found(s)[c] # None /\ Found(s)[c].review # None
              /\ ~Preserved(Found(s)[c].review)
          BY <2>2, <3>2 DEF Touched
        <4>2. ReviewOf(Imported(s)[c]) = Found(s)[c].review
          BY <4>1, ImportedAlone DEF ReviewOf
        <4>. QED  BY <1>1, <4>1, <4>2 DEF Preserved, Settled
      <3>. QED  BY <2>2, <3>1, <3>2, TouchedRows
    <2>. QED  BY <2>1, <2>2
  <1>3. HasReview(coverage[c]) /\ coverage[c] # ReviewOf(rows[c])
    BY <1>2, ImportedAlone
  <1>4. Since(rows[c], coverage[c], unrecorded)
    <2>1. \A t \in Slots : calls[t].at # "coverage"
      BY DEF OneAtATime
    <2>. QED  BY <2>1 DEF Alone
  <1>5. HasReview(rows[c].review) /\ rows[c].review.no \in Nat /\ coverage[c].no \in Nat
    BY <1>1, <1>3, Sentinels DEF HasReview, TypeOK, Coverages, Reviews
  <1>. QED  BY <1>1, <1>3, <1>4, <1>5 DEF Since

LEMMA BeginAlone ==
    ASSUME TypeOK, TypeOK', Past, Alone, OneAtATime, NEW s \in Slots, Begin(s)
    PROVE  Alone'
  <1>1. PICK call \in Writing :
           /\ calls' = [calls EXCEPT ![s] = call]
           /\ call.at = "began" /\ call.op = Op(s)
           /\ call.no = (IF Numbers(Op(s)) THEN reviewed + 1 ELSE 0)
           /\ call.rows = Result(s, call.no)
           /\ reviewed' = IF Numbers(Op(s)) THEN call.no ELSE reviewed
    BY BeginStep
  <1>2. calls'[s] = call /\ \A t \in Slots : t = s
    BY <1>1, SetCall DEF OneAtATime
  <1>3. UNCHANGED <<rows, events, manifest, coverage, decisions, unrecorded>>
    BY DEF Begin, sqlite, files
  <1>4. calls[s].at = "looked" /\ Possible(s)
    BY DEF Begin
  <1>5. /\ reviewed \in Nat /\ reviewed' \in Nat /\ reviewed <= reviewed'
        /\ call.no \in Nat /\ call.no <= reviewed'
        /\ Numbers(Op(s)) => reviewed < call.no
    BY <1>1 DEF TypeOK
  <1>6. \A c \in Candidates : Since(rows[c], coverage[c], unrecorded)
    BY <1>2, <1>4 DEF Alone
  <1>7. \A c \in Candidates : /\ ReviewOf(rows[c]) \in Reviews \cup {None}
                              /\ coverage[c] \in Reviews \cup {None, NoRecord}
    BY SinceFacts DEF TypeOK, Tables, Row, Coverages
  <1>8. ASSUME NEW review \in Reviews \cup {None, NoRecord}, Numbered(review)
        PROVE  HasReview(review) => review.no <= reviewed'
    BY <1>5, <1>8 DEF Numbered, HasReview, Reviews
  <1>9. \A c \in Candidates : /\ HasReview(ReviewOf(rows[c])) => ReviewOf(rows[c]).no <= reviewed'
                              /\ HasReview(coverage[c]) => coverage[c].no <= reviewed'
    BY <1>7, <1>8 DEF Alone
  <1>16. ASSUME NEW c \in Candidates, NEW new,
                \/ new = None \/ new = ReviewOf(rows[c])
                \/ HasReview(coverage[c]) /\ new = coverage[c]
                \/ new \in Reviews /\ new.no = call.no /\ Numbers(Op(s))
         PROVE  /\ Since(rows[c], new, unrecorded \cup {call.no})
                /\ HasReview(new) => new.no <= reviewed'
    <2>1. CASE new = None \/ new = ReviewOf(rows[c])
      BY <1>9, <2>1, SinceFacts
    <2>2. CASE HasReview(coverage[c]) /\ new = coverage[c]
      BY <1>6, <1>9, <2>2 DEF Since
    <2>3. CASE new \in Reviews /\ new.no = call.no /\ Numbers(Op(s))
      <3>1. HasReview(ReviewOf(rows[c])) => ReviewOf(rows[c]).no <= reviewed
                                            /\ ReviewOf(rows[c]).no \in Nat
        BY <1>7 DEF Alone, Numbered, HasReview, Reviews
      <3>. QED  BY <1>5, <2>3, <3>1 DEF Since
    <2>. QED  BY <1>16, <2>1, <2>2, <2>3
  <1>10. ASSUME NEW c \in Candidates
         PROVE  /\ Since(rows[c], ReviewOf(call.rows[c]), unrecorded \cup {call.no})
                /\ HasReview(ReviewOf(call.rows[c])) =>
                     ReviewOf(call.rows[c]).no <= reviewed'
    <2>1. LET new == ReviewOf(call.rows[c])
          IN  \/ new = None \/ new = ReviewOf(rows[c])
              \/ HasReview(coverage[c]) /\ new = coverage[c]
              \/ new \in Reviews /\ new.no = call.no /\ Numbers(Op(s))
      BY <1>1, <1>4, <1>5, ResultAlone
    <2>. QED  BY <1>16, <2>1
  <1>11. lock' = s \/ call.rows = rows
    <2>1. ASSUME ~ImportWrites(s), Touched(s) = {}
          PROVE  call.rows = rows
      <3>1. Imported(s) = rows /\ rows \in Tables
        BY <1>4, <2>1, ImportedAlone DEF TypeOK
      <3>2. call.rows = [c \in Candidates |-> Imported(s)[c]]
        BY <1>1, <2>1 DEF Result
      <3>. QED  BY <3>1, <3>2 DEF Tables
    <2>. QED  BY <2>1 DEF Begin
  <1>12. ASSUME NEW c \in Candidates, ~Exports(Op(s))
         PROVE  Since(call.rows[c], coverage[c], unrecorded)
    <2>. SUFFICES ASSUME HasReview(coverage[c]), coverage[c] # ReviewOf(call.rows[c])
                  PROVE  /\ coverage[c].no \in unrecorded
                         /\ ~HasReview(ReviewOf(call.rows[c]))
      BY DEF Since
    <2>1. Op(s).do \notin {"dispose", "backlog", "reset", "review", "snapshot"}
      BY <1>12 DEF Exports
    <2>2. Imported(s)[c] = None
      <3>1. CASE c \notin Touched(s)
        <4>1. call.rows[c] = Imported(s)[c]
          BY <1>1, <1>4, <1>5, <3>1, ResultAlone
        <4>. QED  BY <1>4, <2>1, <4>1, ImportedAlone
      <3>2. CASE c \in Touched(s)
        BY <1>4, <2>1, <3>2, TouchedRows DEF Possible
      <3>. QED  BY <3>1, <3>2
    <2>3. rows[c] = None
      BY <1>4, <2>2, ImportKeeps DEF Possible, SameSource
    <2>4. coverage[c].no \in unrecorded
      BY <1>6, <2>3, SinceFacts DEF Since
    <2>5. ~HasReview(ReviewOf(call.rows[c]))
      <3>1. CASE c \notin Touched(s)
        <4>1. call.rows[c] = Imported(s)[c]
          BY <1>1, <1>4, <1>5, <3>1, ResultAlone
        <4>. QED  BY <2>2, <4>1, SinceFacts
      <3>2. CASE c \in Touched(s)
        <4>1. Op(s).do = "write"
          BY <1>4, <2>1, <3>2, TouchedRows
        <4>2. call.rows[c] = Changed(s, c, call.no)
          BY <1>1, <3>2 DEF Result
        <4>. QED  BY <4>1, <4>2, SinceFacts DEF Changed, ReviewOf
      <3>. QED  BY <3>1, <3>2
    <2>. QED  BY <2>4, <2>5
  <1>13. Spares(s)'
    BY <1>1, <1>2, <1>3, <1>4, <1>5, SparesAlone DEF Spares, Op
  <1>14. WritesAlone(s)'
    BY <1>1, <1>2, <1>3, <1>5, <1>10, <1>11, <1>12, <1>13 DEF WritesAlone, Numbered, Op
  <1>15. \A c \in Candidates : /\ Since(rows[c], coverage[c], unrecorded)'
                               /\ Numbered(ReviewOf(rows[c]))' /\ Numbered(coverage[c])'
    BY <1>3, <1>6, <1>9 DEF Numbered, Since, ReviewOf
  <1>. QED  BY <1>1, <1>2, <1>14, <1>15 DEF Alone

(* A step before the call has begun.                                       *)
LEMMA QuietAlone ==
    ASSUME TypeOK, Alone, OneAtATime, NEW s \in Slots, calls[s].at \in {"idle", "read", "looked"},
           NEW call \in {IdleCall} \cup Asked \cup Looking,
           calls' = [calls EXCEPT ![s] = call],
           UNCHANGED <<rows, coverage, reviewed, unrecorded>>,
           call.at \in {"read", "looked"} => ReadAlone(s)'
    PROVE  Alone'
  <1>1. calls'[s] = call /\ \A t \in Slots : t = s
    BY SetCall DEF OneAtATime
  <1>2. call \notin Writing /\ call.at # "coverage"
    BY DEF IdleCall, Asked, Looking, Writing
  <1>3. \A c \in Candidates : Since(rows[c], coverage[c], unrecorded)
    BY <1>1 DEF Alone
  <1>4. \A c \in Candidates : /\ Since(rows[c], coverage[c], unrecorded)'
                              /\ Numbered(ReviewOf(rows[c]))' /\ Numbered(coverage[c])'
    BY <1>3 DEF Alone, Numbered, Since, ReviewOf
  <1>. QED  BY <1>1, <1>2, <1>4 DEF Alone

(* A step that goes on to the next file, and may replace the ledger.       *)
LEMMA ExportAlone ==
    ASSUME TypeOK, Alone, OneAtATime, NEW s \in Slots, calls[s] \in Writing,
           calls[s].at # "coverage",
           NEW step \in {"decided", "manifest", "coverage"}, Goto(s, step),
           UNCHANGED <<rows, events, lock, reviewed, unrecorded>>,
           coverage' = IF step = "coverage" THEN Exported(s) ELSE coverage
    PROVE  Alone'
  <1>1. /\ calls'[s] \in Writing /\ calls'[s].at = step
        /\ calls'[s].op = calls[s].op /\ calls'[s].no = calls[s].no
        /\ calls'[s].rows = calls[s].rows
    BY GotoStep
  <1>2. \A t \in Slots : t = s
    BY DEF OneAtATime
  <1>3. WritesAlone(s)
    BY DEF Alone
  <1>4. Op(s)' = Op(s) /\ Exported(s)' = Exported(s)
    BY <1>1 DEF Op, Exported
  <1>5. \A c \in Candidates :
          /\ ReviewOf(rows[c])' = ReviewOf(rows[c])
          /\ ReviewOf(calls[s].rows[c])' = ReviewOf(calls[s].rows[c])
    BY <1>1 DEF ReviewOf
  <1>6. Spares(s)'
    BY <1>1, <1>3, <1>4, <1>5 DEF WritesAlone, Spares
  <1>7. WritesAlone(s)'
    <2>1. \A c \in Candidates :
            /\ Since(rows[c], ReviewOf(calls[s].rows[c]), unrecorded \cup {calls[s].no})'
            /\ Numbered(ReviewOf(calls[s].rows[c]))'
      BY <1>1, <1>3, <1>4, <1>5 DEF WritesAlone, Since, Numbered
    <2>2. /\ lock' = s \/ calls'[s].rows = rows'
          /\ calls'[s].no <= reviewed'
          /\ calls'[s].at = "coverage" => coverage' = Exported(s)'
      BY <1>1, <1>3, <1>4 DEF WritesAlone
    <2>3. ASSUME NEW c \in Candidates, ~Exports(Op(s))'
          PROVE  Since(calls[s].rows[c], coverage[c], unrecorded)'
      <3>1. CASE step = "coverage"
        <4>1. coverage'[c] \in {None, NoRecord, ReviewOf(calls[s].rows[c])}
          BY <3>1 DEF Exported, ReviewOf
        <4>. QED  BY <1>1, <4>1, SinceFacts
      <3>2. CASE step # "coverage"
        BY <1>1, <1>3, <1>4, <2>3, <3>2 DEF WritesAlone, Since, Exports
      <3>. QED  BY <3>1, <3>2
    <2>. QED  BY <1>6, <2>1, <2>2, <2>3 DEF WritesAlone
  <1>8. calls'[s].at \notin {"read", "looked"}
    BY <1>1
  <1>9. ASSUME NEW c \in Candidates
        PROVE  Numbered(ReviewOf(rows[c]))' /\ Numbered(coverage[c])'
    <2>1. Numbered(ReviewOf(rows[c]))'
      BY <1>5 DEF Alone, Numbered
    <2>2. CASE step = "coverage"
      <3>1. coverage'[c] \in {None, NoRecord, ReviewOf(calls[s].rows[c])}
        BY <2>2 DEF Exported, ReviewOf
      <3>2. Numbered(ReviewOf(calls[s].rows[c]))
        BY <1>3 DEF WritesAlone
      <3>. QED  BY <2>1, <3>1, <3>2, SinceFacts DEF Numbered
    <2>3. CASE step # "coverage"
      BY <2>1, <2>3 DEF Alone, Numbered
    <2>. QED  BY <2>2, <2>3
  <1>10. step # "coverage" =>
           \A c \in Candidates : Since(rows[c], coverage[c], unrecorded)'
    BY <1>2 DEF Alone, Since, ReviewOf
  <1>. QED  BY <1>1, <1>2, <1>7, <1>8, <1>9, <1>10 DEF Alone

LEMMA CommitAlone ==
    ASSUME TypeOK, Alone, OneAtATime, NEW s \in Slots, Commit(s)
    PROVE  /\ Alone'
           /\ \A c \in Candidates :
                rows[c] # None /\ Settled(rows[c].review) /\ rows'[c] # None
                /\ rows'[c].review # rows[c].review
                => \/ Op(s).do = "backlog"
                   \/ Op(s).do \in {"review", "dispose"} /\ Op(s).cand = c
                   \/ \E no \in unrecorded : no > rows[c].review.no
  <1>1. /\ calls[s] \in Writing /\ calls[s].at \in {"coverage", "began"}
        /\ calls[s].at = "began" => ~Exports(Op(s))
    BY ByStep DEF Commit, Done
  <1>2. calls'[s] = IdleCall /\ \A t \in Slots : t = s
    BY SetCall DEF Commit, OneAtATime
  <1>3. WritesAlone(s)
    BY <1>1 DEF Alone
  <1>4. UNCHANGED <<coverage, reviewed, unrecorded>>
    BY DEF Commit, files
  <1>5. rows' = calls[s].rows
    BY <1>3 DEF Commit, WritesAlone
  <1>6. ASSUME NEW c \in Candidates
        PROVE  Since(rows'[c], coverage'[c], unrecorded')
    <2>1. CASE calls[s].at = "began"
      BY <1>1, <1>3, <1>4, <1>5, <2>1 DEF WritesAlone
    <2>2. CASE calls[s].at = "coverage"
      <3>1. coverage' = Exported(s)
        BY <1>3, <1>4, <2>2 DEF WritesAlone
      <3>2. coverage'[c] \in {None, NoRecord, ReviewOf(rows'[c])}
        BY <1>5, <3>1 DEF Exported, ReviewOf
      <3>. QED  BY <3>2, SinceFacts
    <2>. QED  BY <1>1, <2>1, <2>2
  <1>7. ASSUME NEW c \in Candidates
        PROVE  Numbered(ReviewOf(rows[c]))' /\ Numbered(coverage[c])'
    BY <1>3, <1>4, <1>5 DEF Alone, WritesAlone, Numbered, ReviewOf
  <1>8. IdleCall \notin Writing /\ IdleCall.at = "idle"
    BY DEF IdleCall, Writing
  <1>9. Alone'
    BY <1>2, <1>6, <1>7, <1>8 DEF Alone
  <1>10. ASSUME NEW c \in Candidates, rows[c] # None, Settled(rows[c].review),
                rows'[c] # None, rows'[c].review # rows[c].review
         PROVE  \/ Op(s).do = "backlog"
                \/ Op(s).do \in {"review", "dispose"} /\ Op(s).cand = c
                \/ \E no \in unrecorded : no > rows[c].review.no
    <2>1. ReviewOf(calls[s].rows[c]) # rows[c].review
      BY <1>5, <1>10 DEF ReviewOf
    <2>. QED  BY <1>3, <1>10, <2>1 DEF WritesAlone, Spares
  <1>. QED  BY <1>9, <1>10

LEMMA FailAlone ==
    ASSUME TypeOK, Alone, OneAtATime, NEW s \in Slots, Fail(s)
    PROVE  Alone'
  <1>1. calls'[s] = IdleCall /\ \A t \in Slots : t = s
    BY SetCall DEF Fail, OneAtATime
  <1>2. UNCHANGED <<rows, coverage, reviewed>>
    BY DEF Fail, sqlite, files
  <1>3. unrecorded' = IF calls[s].at = "coverage" THEN unrecorded \cup {calls[s].no}
                      ELSE unrecorded
    BY DEF Fail
  <1>4. ASSUME NEW c \in Candidates
        PROVE  Since(rows[c], coverage[c], unrecorded')
    <2>1. CASE calls[s].at = "coverage"
      <3>1. WritesAlone(s)
        BY <2>1, ByStep DEF Alone
      <3>2. coverage[c] \in {None, NoRecord, ReviewOf(calls[s].rows[c])}
        BY <2>1, <3>1 DEF WritesAlone, Exported, ReviewOf
      <3>. QED  BY <1>3, <2>1, <3>1, <3>2, SinceFacts DEF WritesAlone
    <2>2. CASE calls[s].at # "coverage"
      BY <1>1, <1>3, <2>2 DEF Alone
    <2>. QED  BY <2>1, <2>2
  <1>5. \A c \in Candidates : /\ Since(rows[c], coverage[c], unrecorded)'
                              /\ Numbered(ReviewOf(rows[c]))' /\ Numbered(coverage[c])'
    BY <1>2, <1>4 DEF Alone, Numbered, Since, ReviewOf
  <1>6. IdleCall \notin Writing /\ IdleCall.at = "idle"
    BY DEF IdleCall, Writing
  <1>. QED  BY <1>1, <1>5, <1>6 DEF Alone

LEMMA InitAlone == Init => Alone
  <1>. SUFFICES ASSUME Init PROVE Alone
    OBVIOUS
  <1>1. PICK l \in Ledgers : coverage = l.coverage
    BY DEF Init
  <1>2. \A c \in Candidates : HasReview(coverage[c]) => coverage[c].no = 0
    BY <1>1, QuarantineConstants
  <1>3. \A c \in Candidates : rows[c] = None /\ ReviewOf(rows[c]) = None
    BY SinceFacts DEF Init
  <1>4. \A s \in Slots : calls[s].at = "idle" /\ calls[s] \notin Writing
    BY DEF Init, IdleCall, Writing
  <1>5. reviewed = 0 /\ unrecorded = {0}
    BY DEF Init
  <1>. QED  BY <1>2, <1>3, <1>4, <1>5, SinceFacts DEF Alone, Since, Numbered

(* What becomes of a settled outcome in one step.                          *)
Stands ==
    \A c \in Candidates :
        /\ rows[c] # None /\ Settled(rows[c].review)
        /\ rows'[c].review # rows[c].review
        => \/ \E s \in Slots :
                /\ Done(s) /\ calls'[s] = IdleCall
                /\ \/ Op(s).do = "backlog"
                   \/ Op(s).do \in {"review", "dispose"} /\ Op(s).cand = c
           \/ \E no \in unrecorded : no > rows[c].review.no

LEMMA StepAlone ==
    ASSUME TypeOK, TypeOK', Past, Alone, OneAtATime, NEW s \in Slots, Step(s),
           SameSource(rows, rows')
    PROVE  Alone' /\ Stands
  <1>0. rows' = rows => Stands
    BY DEF Stands
  <1>1. ASSUME NEW op \in Operations, Start(s, op) PROVE Alone' /\ rows' = rows
    <2>1. calls[s].at = "idle" /\ rows' = rows /\ coverage' = coverage
      BY <1>1 DEF Start, IdleCall, sqlite, files
    <2>2. PICK call \in Asked : calls' = [calls EXCEPT ![s] = call]
      BY <1>1, StartStep
    <2>3. /\ calls'[s] = IF op.do = "dispose"
             THEN [at |-> "read", op |-> op, manifest |-> {}, coverage |-> NoCoverage]
             ELSE [at |-> "read", op |-> op, manifest |-> manifest, coverage |-> coverage]
      BY <1>1 DEF Start, TypeOK
    <2>4. ReadAlone(s)'
      BY <2>1, <2>3 DEF ReadAlone, Op, NoCoverage
    <2>. QED  BY <1>1, <2>1, <2>2, <2>4, QuietAlone DEF Start
  <1>2. ASSUME LookUp(s) PROVE Alone' /\ rows' = rows
    <2>1. calls[s].at = "read" /\ rows' = rows /\ coverage' = coverage
      BY <1>2 DEF LookUp, sqlite, files
    <2>2. PICK call \in Looking : calls' = [calls EXCEPT ![s] = call]
      BY <1>2, LookUpStep
    <2>3. calls'[s] = [at |-> "looked", op |-> calls[s].op, manifest |-> calls[s].manifest,
                       coverage |-> calls[s].coverage, seen |-> rows]
      BY <1>2 DEF LookUp, TypeOK
    <2>4. ReadAlone(s)
      BY <2>1 DEF Alone
    <2>5. ReadAlone(s)'
      BY <2>1, <2>3, <2>4 DEF ReadAlone, Op, NoCoverage
    <2>. QED  BY <1>2, <2>1, <2>2, <2>5, QuietAlone DEF LookUp
  <1>3. ASSUME Refuse(s) PROVE Alone' /\ rows' = rows
    <2>1. /\ calls[s].at = "looked" /\ IdleCall.at = "idle"
          /\ UNCHANGED <<rows, coverage, reviewed, unrecorded>>
          /\ calls' = [calls EXCEPT ![s] = IdleCall]
      BY <1>3 DEF Refuse, sqlite, files, IdleCall
    <2>. QED  BY <2>1, QuietAlone
  <1>4. ASSUME Begin(s) PROVE Alone' /\ rows' = rows
    BY <1>4, BeginAlone DEF Begin, sqlite
  <1>5. ASSUME WriteDecision(s) \/ WriteManifest(s) PROVE Alone' /\ rows' = rows
    <2>1. /\ calls[s] \in Writing /\ calls[s].at # "coverage"
          /\ Goto(s, "decided") \/ Goto(s, "manifest")
          /\ UNCHANGED <<rows, events, coverage, lock, reviewed, unrecorded>>
      BY <1>5, ByStep DEF WriteDecision, WriteManifest, sqlite
    <2>. QED  BY <2>1, ExportAlone
  <1>6. ASSUME WriteCoverage(s) PROVE Alone' /\ rows' = rows
    <2>1. /\ calls[s] \in Writing /\ calls[s].at = "manifest" /\ Goto(s, "coverage")
          /\ UNCHANGED <<rows, events, lock, reviewed, unrecorded>>
          /\ coverage' = Exported(s)
      BY <1>6, ByStep DEF WriteCoverage, sqlite
    <2>. QED  BY <2>1, ExportAlone
  <1>7. ASSUME Commit(s) PROVE Alone' /\ Stands
    <2>1. Done(s) /\ calls'[s] = IdleCall
      BY <1>7 DEF Commit, TypeOK
    <2>. QED  BY <1>7, <2>1, CommitAlone DEF Stands, SameSource
  <1>8. ASSUME Fail(s) PROVE Alone' /\ rows' = rows
    BY <1>8, FailAlone DEF Fail, sqlite
  <1>. QED  BY <1>0, <1>1, <1>2, <1>3, <1>4, <1>5, <1>6, <1>7, <1>8 DEF Step

LEMMA AloneIsKept ==
    ASSUME OneAtATime
    PROVE  TypeOK /\ Past /\ Covers /\ Alone /\ [Next]_vars => Alone' /\ [Stands]_vars
  <1>. SUFFICES ASSUME TypeOK, Past, Covers, Alone, [Next]_vars
                PROVE  Alone' /\ (Stands \/ UNCHANGED vars)
    OBVIOUS
  <1>1. TypeOK' /\ (SameSource(rows, rows') \/ UNCHANGED vars)
    BY TypesAreKept
  <1>2. CASE UNCHANGED vars
    <2>1. UNCHANGED <<rows, coverage, lock, calls, reviewed, unrecorded>>
      BY <1>2 DEF vars, sqlite, files
    <2>. QED  BY <1>2, <2>1 DEF Alone, ReadAlone, WritesAlone, Spares, Numbered, Since,
                  ReviewOf, Op, Exports, Exported, NoCoverage
  <1>. QED  BY <1>1, <1>2, StepAlone DEF Next

(* Between calls that come one at a time, the reviews of the ledger are    *)
(* those of SQLite, but for what came with the checkout or from a call     *)
(* that failed after it had written the ledger.                            *)
THEOREM CoverageIsDerivedHolds ==
    ASSUME OneAtATime
    PROVE  Spec => []CoverageIsDerived
  <1>1. TypeOK /\ Alone => CoverageIsDerived
    <2>. SUFFICES ASSUME TypeOK, Alone, \A s \in Slots : calls[s] = IdleCall,
                         NEW c \in Candidates, HasReview(coverage[c]),
                         coverage[c].no \notin unrecorded
                  PROVE  rows[c] # None /\ rows[c].review = coverage[c]
      BY DEF CoverageIsDerived
    <2>1. Since(rows[c], coverage[c], unrecorded)
      BY DEF Alone, IdleCall
    <2>. QED  BY <2>1, SinceFacts DEF Since, ReviewOf
  <1>. QED  BY <1>1, InitTypes, TypesAreKept, InitAlone, AloneIsKept, PTL DEF Spec

(* Calls that come one at a time leave an implemented or blocked outcome   *)
(* of another candidate alone: what changes it is a review or disposition  *)
(* of it, a sweep, or a later review that failed after it had written the  *)
(* ledger.                                                                 *)
THEOREM OutcomesStandHolds ==
    ASSUME OneAtATime
    PROVE  Spec => OutcomesStand
  <1>1. [Stands]_vars
        => [\A c \in Candidates :
              /\ rows[c] # None /\ Settled(rows[c].review)
              /\ rows'[c].review # rows[c].review
              => \/ \E s \in Slots :
                      /\ Done(s) /\ calls'[s] = IdleCall
                      /\ \/ Op(s).do = "backlog"
                         \/ Op(s).do \in {"review", "dispose"} /\ Op(s).cand = c
                 \/ \E no \in unrecorded : no > rows[c].review.no]_vars
    BY DEF Stands
  <1>. QED  BY <1>1, InitTypes, TypesAreKept, InitAlone, AloneIsKept, PTL
            DEF Spec, OutcomesStand
=============================================================================
