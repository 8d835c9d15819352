-------------------------- MODULE LinterQuarantine --------------------------
(***************************************************************************)
(* The linter quarantine (mcp/linter_quarantine.py): linter.quarantine.write *)
(* takes candidates in; reviews, snapshots and backlog sweeps decide on    *)
(* them; linter_rule_editor.py disposes of them.                           *)
(*                                                                         *)
(* Rows and review events are in SQLite, which owns them.  Three kinds of  *)
(* JSON file are written from them, each replaced whole, before the        *)
(* transaction commits.  But every call of the quarantine begins with an   *)
(* import of two of these files into SQLite, and the files are read before *)
(* the transaction has the write lock: Python begins it at the first       *)
(* statement that writes.                                                  *)
(*                                                                         *)
(* Of a row the model keeps where it came from and its current_review;     *)
(* texts, severities, the integration review and its history are left out. *)
(* What the editor puts back after a failed commit is in LinterRuleEditor. *)
(*                                                                         *)
(* A definition named X_..., next to a definition X, is a slip in X that   *)
(* one of the properties catches; Next uses none of them.                  *)
(***************************************************************************)
EXTENDS Naturals

CONSTANTS
    Candidates,   \* candidate ids, in the order of the round: 1 is the first record
    Twin,         \* the candidate of which one is the duplicate, or None
    Verdict,      \* what the texts of a candidate say of it
    Operations,   \* what callers ask for
    Ledgers,      \* the files that a checkout comes with
    Slots,        \* calls in flight at one time
    MayFail,      \* a file cannot be replaced, or a process dies
    MaxReviews,   \* bound on the calls that write reviews
    None,         \* SQL NULL, {} in JSON, no row, no file
    NoRecord      \* a file has no record of a candidate

States == {"accepted", "implemented", "rejected", "postponed", "blocked",
           "not_implemented", "converted_to_todo"}

\* current_review: its state, the call that made it, and what coverage_event says.
Reviews == [as : States, no : Nat, by : {"reviewer", "sweep", "editor", "legacy"}]
Row == [source : {"intake", "legacy"}, review : Reviews \cup {None}]
Tables == [Candidates -> Row \cup {None}]

\* manifest.json by its ids, review-coverage.json by the review it has for an id.
Manifests == SUBSET Candidates
Coverages == [Candidates -> Reviews \cup {None, NoRecord}]
NoCoverage == [c \in Candidates |-> NoRecord]
HasReview(review) == review # None /\ review # NoRecord

\* list reads only; snapshot keeps open reviews and reset clears them.
AllOperations ==
    [do : {"write"}, cand : Candidates]
    \cup [do : {"review"}, cand : Candidates, as : States]
    \cup [do : {"dispose"}, cand : Candidates, as : {"implemented", "rejected"}]
    \cup [do : {"list", "snapshot", "reset", "backlog"}]

ASSUME QuarantineConstants ==
    /\ Candidates \subseteq Nat
    /\ Twin \in [Candidates -> Candidates \cup {None}]
    /\ Verdict \in [Candidates -> {"canonical_equivalent", "invalid", "actionable"}]
    /\ Operations \subseteq AllOperations
    /\ Ledgers \subseteq [manifest : Manifests, coverage : Coverages]
    /\ \A l \in Ledgers : \A c \in Candidates :
         HasReview(l.coverage[c]) => l.coverage[c].no = 0 /\ l.coverage[c].by = "legacy"
    /\ MayFail \in BOOLEAN /\ MaxReviews \in Nat
    /\ None \notin Candidates \cup Slots \cup Reviews \cup Row
    /\ NoRecord \notin Reviews \cup {None}

VARIABLES
    rows,        \* linter_quarantine_records
    events,      \* linter_quarantine_review_events: <<candidate, review>>
    manifest,    \* manifest.json
    coverage,    \* review-coverage.json
    decisions,   \* mcp-review-decisions/: the review in the file of a candidate
    lock,        \* the call with SQLite's write lock, or None
    calls,       \* the calls in flight
    reviewed,    \* history: how many calls have had reviews to write
    unrecorded   \* history: those whose coverage came without their transaction

files == <<manifest, coverage, decisions>>
sqlite == <<rows, events>>
vars == <<sqlite, files, lock, calls, reviewed, unrecorded>>

-----------------------------------------------------------------------------
IdleCall == [at |-> "idle"]
Op(s) == calls[s].op

Start(s, op) ==
    /\ calls[s] = IdleCall
    /\ calls' = [calls EXCEPT ![s] =
         IF op.do = "dispose"
         THEN [at |-> "read", op |-> op, manifest |-> {}, coverage |-> NoCoverage]
         ELSE [at |-> "read", op |-> op, manifest |-> manifest, coverage |-> coverage]]
    /\ UNCHANGED <<sqlite, files, lock, reviewed, unrecorded>>

\* The SELECTs before the first statement that writes.
LookUp(s) ==
    /\ calls[s].at = "read"
    /\ calls' = [calls EXCEPT ![s] =
         [at |-> "looked", op |-> @.op, manifest |-> @.manifest,
          coverage |-> @.coverage, seen |-> rows]]
    /\ UNCHANGED <<sqlite, files, lock, reviewed, unrecorded>>

-----------------------------------------------------------------------------
\* The import, _import_legacy_quarantine_snapshots.

Missing(s) == {c \in calls[s].manifest : calls[s].seen[c] = None}

Inserted(s) ==
    [c \in Candidates |-> IF c \in Missing(s)
                          THEN [source |-> "legacy", review |-> None] ELSE rows[c]]

\* An INSERT takes the lock, and the coverage is read after it.
Covered(s) == IF Missing(s) # {} THEN coverage ELSE calls[s].coverage

\* The row that _import_legacy_coverage_snapshot adds a review to: the first one is
\* read before its UPDATE takes the lock.
Covering(s, c) ==
    IF Missing(s) = {} /\ \A d \in Candidates :
           d < c /\ Covered(s)[d] # NoRecord => calls[s].seen[d] = None
    THEN calls[s].seen[c] ELSE Inserted(s)[c]

Imported(s) ==
    [c \in Candidates |->
        IF Covered(s)[c] = NoRecord \/ Covering(s, c) = None THEN Inserted(s)[c]
        ELSE IF Covered(s)[c] = None THEN Covering(s, c)
        ELSE [Covering(s, c) EXCEPT !.review = Covered(s)[c]]]

ImportWrites(s) ==
    \/ Missing(s) # {}
    \/ \E c \in Candidates : Covered(s)[c] # NoRecord /\ calls[s].seen[c] # None

-----------------------------------------------------------------------------
\* What a call makes of the rows.  Without an import that writes, it too reads them
\* before it has the lock; the editor begins with BEGIN IMMEDIATE.
Found(s) == IF ImportWrites(s) \/ Op(s).do = "dispose" THEN Imported(s)
            ELSE calls[s].seen

Review(no, state, author) == [as |-> state, no |-> no, by |-> author]

Preserved_NotBlocked(review) == review # None /\ review.as = "implemented"

\* IMPLEMENTATION_PRESERVE_STATUSES
Preserved(review) == review # None /\ review.as \in {"implemented", "blocked"}

\* _integration_review_for_row
Swept(s, c, no) ==
    LET table == Found(s)
    IN  IF Twin[c] # None /\ table[Twin[c]] # None THEN Review(no, "rejected", "sweep")
        ELSE IF Verdict[c] = "canonical_equivalent"
             THEN Review(no, "implemented", "sweep")
        ELSE IF table[c].review # None /\ table[c].review.as = "implemented"
             THEN table[c].review
        ELSE IF Verdict[c] = "invalid" THEN Review(no, "rejected", "sweep")
        ELSE None

Touched(s) ==
    {c \in Candidates :
        \/ Op(s).do \in {"write", "review", "dispose"} /\ c = Op(s).cand
        \/ Op(s).do = "backlog" /\ Found(s)[c] # None
        \/ /\ Op(s).do = "reset"
           /\ Found(s)[c] # None /\ Found(s)[c].review # None
           /\ ~Preserved(Found(s)[c].review)}

Decided(s, c, no) ==
    IF Op(s).do = "review" THEN Review(no, Op(s).as, "reviewer")
    ELSE IF Op(s).do = "dispose" THEN Review(no, Op(s).as, "editor")
    ELSE IF Op(s).do = "backlog" THEN Swept(s, c, no)
    ELSE None

\* A review is put in the row as it is after the INSERT of its event.
Before(s) == IF Op(s).do = "review" THEN Imported(s) ELSE Found(s)

Changed(s, c, no) ==
    IF Op(s).do = "write" THEN [source |-> "intake", review |-> None]
    ELSE [Before(s)[c] EXCEPT !.review = Decided(s, c, no)]

Result(s, no) == [c \in Candidates |-> IF c \in Touched(s) THEN Changed(s, c, no)
                                       ELSE Imported(s)[c]]

\* A row the call inserts may have been inserted since it looked.
Possible_Replaces(s) ==
    /\ \A c \in Missing(s) : rows[c] = None
    /\ Op(s).do \in {"review", "dispose"} => Found(s)[Op(s).cand] # None

Possible(s) ==
    /\ \A c \in Missing(s) : rows[c] = None
    /\ Op(s).do = "write" => Imported(s)[Op(s).cand] = None
    /\ Op(s).do \in {"review", "dispose"} => Found(s)[Op(s).cand] # None

Numbers(op) == op.do \in {"review", "dispose", "backlog"}

\* The transaction up to the export; one that writes nothing takes no lock.
Begin(s) ==
    LET no == IF Numbers(Op(s)) THEN reviewed + 1 ELSE 0
    IN  /\ calls[s].at = "looked" /\ Possible(s)
        /\ no <= MaxReviews
        /\ IF ImportWrites(s) \/ Touched(s) # {}
           THEN lock = None /\ lock' = s
           ELSE UNCHANGED lock
        /\ reviewed' = IF Numbers(Op(s)) THEN no ELSE reviewed
        /\ calls' = [calls EXCEPT ![s] =
             [at |-> "began", op |-> @.op, no |-> no, rows |-> Result(s, no)]]
        /\ UNCHANGED <<sqlite, files, unrecorded>>

Refuse(s) ==
    /\ calls[s].at = "looked" /\ ~Possible(s) /\ lock = None
    /\ calls' = [calls EXCEPT ![s] = IdleCall]
    /\ UNCHANGED <<sqlite, files, lock, reviewed, unrecorded>>

-----------------------------------------------------------------------------
\* The files, in the order of the code, and the commit.  write and list export nothing.
Exports(op) == op.do \in {"review", "dispose", "backlog", "snapshot", "reset"}

Goto(s, step) == calls' = [calls EXCEPT ![s].at = step]

WriteDecision(s) ==
    /\ calls[s].at = "began" /\ Op(s).do = "review"
    /\ decisions' = [decisions EXCEPT ![Op(s).cand] =
                       Review(calls[s].no, Op(s).as, "reviewer")]
    /\ Goto(s, "decided")
    /\ UNCHANGED <<sqlite, manifest, coverage, lock, reviewed, unrecorded>>

WriteManifest_BeforeDecision(s) ==
    /\ calls[s].at = "began" /\ Exports(Op(s))
    /\ manifest' = {c \in Candidates : calls[s].rows[c] # None}
    /\ Goto(s, "manifest")
    /\ UNCHANGED <<sqlite, coverage, decisions, lock, reviewed, unrecorded>>

WriteManifest(s) ==
    /\ \/ calls[s].at = "decided"
       \/ calls[s].at = "began" /\ Exports(Op(s)) /\ Op(s).do # "review"
    /\ manifest' = {c \in Candidates : calls[s].rows[c] # None}
    /\ Goto(s, "manifest")
    /\ UNCHANGED <<sqlite, coverage, decisions, lock, reviewed, unrecorded>>

Exported_Committed(s) ==
    [c \in Candidates |-> IF rows[c] = None THEN NoRecord ELSE rows[c].review]

\* _coverage_snapshot_record_from_sqlite
Exported(s) ==
    [c \in Candidates |->
        IF calls[s].rows[c] = None THEN NoRecord
        ELSE IF Op(s).do # "reset" \/ Preserved(calls[s].rows[c].review)
             THEN calls[s].rows[c].review ELSE None]

WriteCoverage(s) ==
    /\ calls[s].at = "manifest"
    /\ coverage' = Exported(s)
    /\ Goto(s, "coverage")
    /\ UNCHANGED <<sqlite, manifest, decisions, lock, reviewed, unrecorded>>

Done(s) == calls[s].at = "coverage" \/ (calls[s].at = "began" /\ ~Exports(Op(s)))

Recorded_ByImplemented(s) ==
    IF Op(s).do = "review" /\ Op(s).as = "implemented"
    THEN {<<Op(s).cand, Review(calls[s].no, Op(s).as, "reviewer")>>} ELSE {}

\* _insert_review_event
Recorded(s) ==
    IF Op(s).do = "review"
    THEN {<<Op(s).cand, Review(calls[s].no, Op(s).as, "reviewer")>>} ELSE {}

Commit(s) ==
    /\ Done(s)
    /\ IF lock = s THEN rows' = calls[s].rows /\ lock' = None
                   ELSE UNCHANGED <<rows, lock>>
    /\ events' = events \cup Recorded(s)
    /\ calls' = [calls EXCEPT ![s] = IdleCall]
    /\ UNCHANGED <<files, reviewed, unrecorded>>

\* SQLite rolls the transaction back; files that were replaced stay.
Fail(s) ==
    /\ MayFail /\ calls[s] # IdleCall
    /\ lock' = IF lock = s THEN None ELSE lock
    /\ unrecorded' = IF calls[s].at = "coverage" THEN unrecorded \cup {calls[s].no}
                     ELSE unrecorded
    /\ calls' = [calls EXCEPT ![s] = IdleCall]
    /\ UNCHANGED <<sqlite, files, reviewed>>

Init ==
    /\ rows = [c \in Candidates |-> None] /\ events = {}
    /\ \E l \in Ledgers : manifest = l.manifest /\ coverage = l.coverage
    /\ decisions = [c \in Candidates |-> None]
    /\ lock = None /\ calls = [s \in Slots |-> IdleCall]
    /\ reviewed = 0 /\ unrecorded = {0}

Step(s) ==
    \/ \E op \in Operations : Start(s, op)
    \/ LookUp(s) \/ Begin(s) \/ Refuse(s)
    \/ WriteDecision(s) \/ WriteManifest(s) \/ WriteCoverage(s)
    \/ Commit(s) \/ Fail(s)

Next == \E s \in Slots : Step(s)

Spec == Init /\ [][Next]_vars

-----------------------------------------------------------------------------
\* Properties.

Asked == [at : {"read"}, op : Operations, manifest : Manifests, coverage : Coverages]
Looking == [at : {"looked"}, op : Operations, manifest : Manifests,
            coverage : Coverages, seen : Tables]
Writing == [at : {"began", "decided", "manifest", "coverage"}, op : Operations,
            no : Nat, rows : Tables]

\* Every variable has its type, and only a call that has begun has the write lock.
TypeOK ==
    /\ rows \in Tables
    /\ events \subseteq Candidates \X Reviews
    /\ manifest \in Manifests /\ coverage \in Coverages
    /\ decisions \in [Candidates -> Reviews \cup {None}]
    /\ calls \in [Slots -> {IdleCall} \cup Asked \cup Looking \cup Writing]
    /\ lock \in Slots \cup {None}
    /\ lock # None => calls[lock] \in Writing
    /\ reviewed \in Nat /\ unrecorded \subseteq Nat

\* A candidate that is in stays in, as what it came in: no import of a manifest puts
\* its legacy record in place of an intake, and no intake takes the place of a record
\* (_insert_quarantine_record), in whatever order calls look, wait and write.
IntakeStands ==
    [][\A c \in Candidates : rows[c] # None =>
         rows'[c] # None /\ rows'[c].source = rows[c].source]_vars

\* A review in the coverage ledger names the review file of its candidate
\* (review_path): the file is there and has that review or a later one, whichever
\* call failed after whichever file, and however old the review is that an import and
\* an export have brought back.
ReviewPathsExist ==
    \A c \in Candidates :
        HasReview(coverage[c]) /\ coverage[c].by = "reviewer" =>
            decisions[c] # None /\ coverage[c].no <= decisions[c].no

\* A review in SQLite that says "review_recorded" has its event, unless an import
\* brought it from the ledger of a call that never committed
\* (review_linter_quarantine_record writes both in one transaction).
ReviewsAreRecorded ==
    \A c \in Candidates :
        rows[c] # None /\ rows[c].review # None /\ rows[c].review.by = "reviewer" =>
            <<c, rows[c].review>> \in events \/ rows[c].review.no \in unrecorded

\* Between calls, the reviews of the coverage ledger are those of SQLite, but for what
\* came with the checkout or from a call that failed after it had written the ledger.
CoverageIsDerived ==
    (\A s \in Slots : calls[s] = IdleCall) =>
        \A c \in Candidates :
            \/ ~HasReview(coverage[c]) \/ coverage[c].no \in unrecorded
            \/ rows[c] # None /\ rows[c].review = coverage[c]

Settled(review) == review # None /\ review.as \in {"implemented", "blocked"}

\* A call that looks after or decides on other candidates leaves an implemented or
\* blocked outcome alone: only a review or disposition of the candidate, a sweep, or
\* a later review that failed after it had written the ledger changes it.
OutcomesStand ==
    [][\A c \in Candidates :
         /\ rows[c] # None /\ Settled(rows[c].review)
         /\ rows'[c].review # rows[c].review
         => \/ \E s \in Slots :
                 /\ Done(s) /\ calls'[s] = IdleCall
                 /\ \/ Op(s).do = "backlog"
                    \/ Op(s).do \in {"review", "dispose"} /\ Op(s).cand = c
            \/ \E no \in unrecorded : no > rows[c].review.no]_vars

\* "Existing implemented and blocked outcomes are preserved" by a snapshot
\* (snapshot_linter_quarantine_review_coverage).
SnapshotPreservesOutcomes ==
    [][\A s \in Slots : Done(s) /\ Op(s).do = "reset" /\ calls'[s] = IdleCall =>
         \A c \in Candidates :
             rows[c] # None /\ Settled(rows[c].review) => rows'[c] = rows[c]]_vars
=============================================================================
