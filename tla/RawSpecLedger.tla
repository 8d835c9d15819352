--------------------------- MODULE RawSpecLedger ---------------------------
(***************************************************************************)
(* The raw specifications of the Make apps in SQLite:                      *)
(* src/src/languages/make/raw_specs/sqlite_store.py.  A sync fetches specs *)
(* for minutes, merges them, when it was limited to some apps, with what   *)
(* it reads in the database, and writes the whole bundle in one            *)
(* transaction: rows are closed (valid_to) and new ones are opened, and a  *)
(* review is opened for each app that is new, changed or removed.  Other   *)
(* syncs commit in between, and a rebuild of the knowledge store starts    *)
(* the ledger over from its current rows.                                  *)
(*                                                                         *)
(* Left to KnowledgeRebuild: what a sync loses that commits to a database  *)
(* while it is being rebuilt.                                              *)
(*                                                                         *)
(* A definition named X_..., next to a definition X, is a slip in X that   *)
(* one of the properties catches; Next uses none of them.                  *)
(***************************************************************************)
EXTENDS Naturals, FiniteSets

CONSTANTS
    Apps,       \* pairs of an app's slug and its version
    Specs,      \* payloads, by their sha256
    Sources,    \* where a sync has its specs from (source_metadata)
    Accepted,   \* the sources that _metadata_from_json accepts
    Syncs,      \* runs of the sync command
    MaxTime,    \* bound: the clock
    None

ASSUME LedgerConstants ==
    /\ Accepted \subseteq Sources
    /\ MaxTime \in Nat \ {0}
    /\ None \notin Specs

VARIABLES
    clock,      \* the latest generated_at_utc that a sync was given
    payloads,   \* rows of make_raw_spec_payloads
    manifests,  \* rows of make_raw_spec_manifest_records
    reviews,    \* rows of make_raw_spec_update_reviews
    pc,         \* pc[s]: where sync s stands
    sync,       \* sync[s]: what sync s was asked for and has fetched
    bundle,     \* bundle[s]: what sync s is about to write
    alone,      \* history: alone[s], nobody has written since s read
    ordered,    \* history: commits have come in the order of their times
    rebuilt     \* history: the database has been rebuilt

tables  == <<payloads, manifests, reviews>>
history == <<alone, ordered, rebuilt>>
vars    == <<clock, tables, pc, sync, bundle, history>>

-----------------------------------------------------------------------------
Open == 0                                   \* valid_to IS NULL
Time == 1 .. MaxTime

(* A record is what the two row fingerprints cover. *)
Record == Specs \X Sources
Bundles == UNION {[A -> Record] : A \in SUBSET Apps}
Empty == [a \in {} |-> None]

Row == [app : Apps, record : Record, from : Time, to : Time \cup {Open}]

Asked == [at : Time, partial : BOOLEAN, fetched : Bundles]

ASSUME NoneIsNotAsked == None \notin Asked

Review == [app : Apps, kind : {"new", "changed", "removed"},
           sha : Specs \cup {None}, previous : Specs \cup {None},
           since : Time \cup {Open}, from : Time, to : Time \cup {Open}]

Current(T) == {r \in T : r.to = Open}
AppsOf(T)  == {r.app : r \in T}
RowOf(T, a) == CHOOSE r \in Current(T) : r.app = a

(* UPDATE ... SET valid_to = t WHERE app ... AND valid_to IS NULL. *)
Closed(T, apps, t) ==
    {IF r.app \in apps /\ r.to = Open THEN [r EXCEPT !.to = t] ELSE r : r \in T}

Stored_OnePerRecord(T, rows) ==
    rows \cup {r \in T : \A q \in rows : q.app # r.app \/ q.record # r.record}

(* INSERT OR REPLACE under PRIMARY KEY (app_slug, app_version, valid_from). *)
Stored(T, rows) ==
    rows \cup {r \in T : \A q \in rows : q.app # r.app \/ q.from # r.from}

Id_OfTheChange(r) == <<r.app, r.kind, r.sha>>

(* INSERT OR IGNORE under the review_id, a digest of all but valid_to and  *)
(* previous_valid_from.                                                    *)
Id(r) == <<r.app, r.kind, r.sha, r.previous, r.from>>
Opened(T, new) == T \cup {r \in new : \A q \in T : Id(q) # Id(r)}

-----------------------------------------------------------------------------
(* load_sqlite_raw_spec_bundle, _bundle_from_connection: the current rows  *)
(* of the manifest, each with a payload of the same sha256.  It raises     *)
(* when the source of a row is not one it knows.                           *)
Loads ==
    \A r \in Current(manifests) :
       /\ r.record[2] \in Accepted
       /\ \E p \in Current(payloads) : p.app = r.app /\ p.record[1] = r.record[1]

CurrentBundle ==
    [a \in AppsOf(Current(manifests)) |-> RowOf(manifests, a).record]

Merged_ForgetsTheRest(asked) == asked.fetched

(* _merged_sqlite_records: apps whose slug was not fetched are kept. *)
Merged(asked) ==
    IF ~asked.partial THEN asked.fetched
    ELSE LET slugs == {a[1] : a \in DOMAIN asked.fetched}
             kept  == {a \in DOMAIN CurrentBundle : a[1] \notin slugs}
         IN  [a \in kept \cup DOMAIN asked.fetched |->
                 IF a \in kept THEN CurrentBundle[a] ELSE asked.fetched[a]]

(* persist_sqlite_raw_spec_bundle, writing bundle b at time t: *)
New(b)     == DOMAIN b \ AppsOf(Current(payloads))
Changed(b) == {a \in DOMAIN b \ New(b) : RowOf(payloads, a).record # b[a]}
Gone(b)    == AppsOf(Current(manifests)) \ DOMAIN b

(* _advance_unchanged_current_manifest_row. *)
Advanced(b, t) ==
    {a \in DOMAIN b \ (New(b) \cup Changed(b)) :
        a \in AppsOf(Current(manifests)) => RowOf(manifests, a).from # t}

(* _reject_same_timestamp_raw_spec_change. *)
Rejected(b, t) == \E a \in Changed(b) : RowOf(payloads, a).from = t

RowsFor(b, apps, t) ==
    {[app |-> a, record |-> b[a], from |-> t, to |-> Open] : a \in apps}

ReviewsFor(b, t) ==
    {[app |-> a, kind |-> "new", sha |-> b[a][1], previous |-> None,
      since |-> Open, from |-> t, to |-> Open] : a \in New(b)}
    \cup
    {[app |-> a, kind |-> "changed", sha |-> b[a][1],
      previous |-> RowOf(payloads, a).record[1],
      since |-> RowOf(payloads, a).from, from |-> t, to |-> Open]
        : a \in Changed(b)}
    \cup
    {[app |-> a, kind |-> "removed", sha |-> None,
      previous |-> RowOf(manifests, a).record[1],
      since |-> RowOf(manifests, a).from, from |-> t, to |-> Open]
        : a \in Gone(b)}

-----------------------------------------------------------------------------
Init ==
    /\ clock = 1
    /\ payloads = {}
    /\ manifests = {}
    /\ reviews = {}
    /\ pc = [s \in Syncs |-> "idle"]
    /\ sync = [s \in Syncs |-> None]
    /\ bundle = [s \in Syncs |-> Empty]
    /\ alone = [s \in Syncs |-> FALSE]
    /\ ordered = TRUE
    /\ rebuilt = FALSE

(* generated_at_utc is taken, or given by the caller, and the specs are    *)
(* fetched; an app whose authorized response has no module is skipped.     *)
Start(s) ==
    /\ pc[s] = "idle"
    /\ clock' \in {clock, clock + 1} \cap Time
    /\ \E apps \in SUBSET Apps, from \in Sources, partial \in BOOLEAN :
       \E spec \in [apps -> Specs] :
          sync' = [sync EXCEPT ![s] =
             [at |-> clock', partial |-> partial,
              fetched |-> [a \in apps |-> <<spec[a], from>>]]]
    /\ pc' = [pc EXCEPT ![s] = "fetched"]
    /\ UNCHANGED <<tables, bundle, history>>

(* The merge, read without a lock. *)
Read(s) ==
    /\ pc[s] = "fetched"
    /\ sync[s].partial => Loads
    /\ bundle' = [bundle EXCEPT ![s] = Merged(sync[s])]
    /\ pc' = [pc EXCEPT ![s] = "merged"]
    /\ alone' = [alone EXCEPT ![s] = TRUE]
    /\ UNCHANGED <<clock, tables, sync, ordered, rebuilt>>

Ended(s) ==
    /\ pc' = [pc EXCEPT ![s] = "done"]
    /\ sync' = [sync EXCEPT ![s] = [@ EXCEPT !.partial = FALSE, !.fetched = Empty]]
    /\ bundle' = [bundle EXCEPT ![s] = Empty]

(* The order of the commits so far, told by the times they left. *)
InOrder(t) ==
    \A q \in Syncs : pc[q] = "done" => sync[q].at < t

Written_KeepsRemoved(b, t) ==
    LET fresh == New(b) \cup Changed(b)
    IN  /\ payloads' =
             Stored(Closed(payloads, fresh, t), RowsFor(b, fresh, t))
        /\ manifests' =
             Stored(Closed(manifests, fresh \cup Gone(b) \cup Advanced(b, t), t),
                    RowsFor(b, fresh \cup Advanced(b, t), t))
        /\ reviews' =
             Opened(Closed(reviews, fresh \cup Gone(b), t), ReviewsFor(b, t))

Written_AdvancesWithoutClosing(b, t) ==
    LET fresh == New(b) \cup Changed(b)
        ended == fresh \cup Gone(b)
    IN  /\ payloads' =
             Stored(Closed(payloads, ended, t), RowsFor(b, fresh, t))
        /\ manifests' =
             Stored(Closed(manifests, ended, t),
                    RowsFor(b, fresh \cup Advanced(b, t), t))
        /\ reviews' = Opened(Closed(reviews, ended, t), ReviewsFor(b, t))

Written_KeepsChanged(b, t) ==
    LET fresh == New(b) \cup Changed(b)
        ended == New(b) \cup Gone(b)
    IN  /\ payloads' =
             Stored(Closed(payloads, ended, t), RowsFor(b, fresh, t))
        /\ manifests' =
             Stored(Closed(manifests, ended \cup Advanced(b, t), t),
                    RowsFor(b, fresh \cup Advanced(b, t), t))
        /\ reviews' = Opened(Closed(reviews, ended, t), ReviewsFor(b, t))

Written(b, t) ==
    LET fresh == New(b) \cup Changed(b)
        ended == fresh \cup Gone(b)
    IN  /\ payloads' =
             Stored(Closed(payloads, ended, t), RowsFor(b, fresh, t))
        /\ manifests' =
             Stored(Closed(manifests, ended \cup Advanced(b, t), t),
                    RowsFor(b, fresh \cup Advanced(b, t), t))
        /\ reviews' = Opened(Closed(reviews, ended, t), ReviewsFor(b, t))

(* persist_sqlite_raw_spec_bundle and the commit: one transaction, which   *)
(* takes the write lock with its first statement.                          *)
Persist(s) ==
    /\ pc[s] = "merged"
    /\ ~Rejected(bundle[s], sync[s].at)
    /\ Written(bundle[s], sync[s].at)
    /\ Ended(s)
    /\ alone' = [q \in Syncs |-> FALSE]
    /\ ordered' = (ordered /\ InOrder(sync[s].at))
    /\ UNCHANGED <<clock, rebuilt>>

(* A fetch, the merge or the transaction raises, or the process is killed: *)
(* what was written is rolled back.                                        *)
Fail(s) ==
    /\ pc[s] \in {"fetched", "merged"}
    /\ Ended(s)
    /\ UNCHANGED <<clock, tables, history>>

Anew(b, t) ==
    {[app |-> a, kind |-> "new", sha |-> b[a][1], previous |-> None,
      since |-> Open, from |-> t, to |-> Open] : a \in DOMAIN b}

(* build_knowledge_store: the current bundle is persisted into an empty    *)
(* database at the latest time in it, and the old reviews are copied over  *)
(* the new ones.                                                           *)
Rebuild ==
    /\ ~rebuilt
    /\ \A s \in Syncs : pc[s] # "merged"
    /\ Current(manifests) # {}
    /\ Loads
    /\ \E t \in Time :
          /\ \E r \in Current(manifests) : r.from = t
          /\ \A r \in Current(manifests) : r.from <= t
          /\ payloads'  = RowsFor(CurrentBundle, DOMAIN CurrentBundle, t)
          /\ manifests' = RowsFor(CurrentBundle, DOMAIN CurrentBundle, t)
          /\ reviews'   = Opened(reviews, Anew(CurrentBundle, t))
    /\ rebuilt' = TRUE
    /\ UNCHANGED <<clock, pc, sync, bundle, alone, ordered>>

Next ==
    \/ Rebuild
    \/ \E s \in Syncs : \/ Start(s)
                        \/ Read(s)
                        \/ Persist(s)
                        \/ Fail(s)

Spec == Init /\ [][Next]_vars

-----------------------------------------------------------------------------
TypeOK ==
    /\ clock \in Time
    /\ payloads \cup manifests \subseteq Row
    /\ reviews \subseteq Review
    /\ pc \in [Syncs -> {"idle", "fetched", "merged", "done"}]
    /\ sync \in [Syncs -> Asked \cup {None}]
    /\ \A s \in Syncs :
          /\ sync[s] = None <=> pc[s] = "idle"
          /\ sync[s] # None => sync[s].at <= clock
    /\ bundle \in [Syncs -> Bundles]
    /\ alone \in [Syncs -> BOOLEAN]
    /\ {ordered, rebuilt} \subseteq BOOLEAN

(* However syncs overlap, and whatever times they are given, an app has at *)
(* most one current payload and one current manifest row, one exactly when *)
(* it has the other, and both are of the same record: what the loader      *)
(* checks by hash at its every read.                                       *)
CurrentRowsAgree ==
    /\ \A T \in {payloads, manifests} : \A r, q \in Current(T) :
          r.app = q.app => r = q
    /\ {<<r.app, r.record>> : r \in Current(payloads)}
          = {<<r.app, r.record>> : r \in Current(manifests)}

(* No two syncs under way or done have been given one generated_at_utc. *)
OneTimeEach ==
    \A s, q \in Syncs :
       s # q /\ sync[s] # None /\ sync[q] # None => sync[s].at # sync[q].at

(* While syncs have times of their own: a current app has a pending review *)
(* of its current payload, an app that is gone has one of its removal and  *)
(* none other, and until a rebuild opens a second one each has only one.   *)
PendingReviewsMatch ==
    OneTimeEach =>
       /\ \A p \in Current(payloads) : \E r \in Current(reviews) :
             r.app = p.app /\ r.sha = p.record[1]
       /\ \A r \in reviews : r.app \in AppsOf(Current(reviews))
       /\ \A r \in Current(reviews) :
             r.kind = "removed" <=> r.app \notin AppsOf(Current(payloads))
       /\ ~rebuilt => \A r, q \in Current(reviews) : r.app = q.app => r = q

(* While syncs commit in the order of their times, the payload rows of an  *)
(* app are a timeline: no interval is reversed, none overlaps another, and *)
(* the current row is the last.  (A sync that overtakes one that started   *)
(* before it is closed at a time before its own: valid_to < valid_from.)   *)
TimelineIsDisjoint ==
    ordered => \A T \in {payloads, manifests} : \A r \in T :
       /\ r.to # Open => r.from <= r.to
       /\ \A q \in T : \/ r.app # q.app
                       \/ r = q
                       \/ r.to # Open /\ r.to <= q.from
                       \/ q.to # Open /\ q.to <= r.from

Commits(s) == pc[s] = "merged" /\ pc'[s] = "done" /\ tables' # tables

(* "Changed payloads close the previous current row with valid_to and      *)
(* insert a new current row, preserving point-in-time history without      *)
(* deleting older evidence": a sync with a time of its own removes no row. *)
HistoryIsKept ==
    [][\A s \in Syncs : Commits(s) /\ OneTimeEach =>
          \A r \in payloads : \E q \in payloads' :
             q = r \/ (r.to = Open /\ q = [r EXCEPT !.to = sync[s].at])]_vars

KeepsTheRest(s) ==
    LET asked == sync[s]
        slugs == {a[1] : a \in DOMAIN asked.fetched}
        now   == {<<r.app, r.record>> : r \in Current(payloads')}
        then  == {<<r.app, r.record>> : r \in Current(payloads)}
    IN  /\ {<<a, asked.fetched[a]>> : a \in DOMAIN asked.fetched} \subseteq now
        /\ \A x \in now : x[1][1] \in slugs => x[1] \in DOMAIN asked.fetched
        /\ ~asked.partial => AppsOf(Current(payloads')) \subseteq DOMAIN asked.fetched
        /\ asked.partial /\ alone[s] =>
              {x \in now : x[1][1] \notin slugs} = {x \in then : x[1][1] \notin slugs}

(* A full sync leaves exactly what it fetched; a partial one also leaves,  *)
(* of the other slugs, what was current when it read, which is what is     *)
(* current unless another sync has committed since.                        *)
PartialSyncKeepsTheRest ==
    [][\A s \in Syncs : Commits(s) => KeepsTheRest(s)]_vars

AsOf(T, t) ==
    {<<r.app, r.record>> : r \in {q \in T : q.from <= t /\ (q.to = Open \/ t < q.to)}}

Graph(b) == {<<a, b[a]>> : a \in DOMAIN b}

Journal == INSTANCE SpecJournal WITH
    Times <- Time, Bundles <- {Graph(b) : b \in Bundles},
    asOf <- [t \in Time |-> AsOf(payloads, t)]

(* Point-in-time history: read as of a time, by valid_from and valid_to,   *)
(* the payloads are a journal.  A sync changes nothing as of a time before *)
(* its own, and what it merged is there as of its time, until a later one; *)
(* a rebuild takes the past away and keeps the present.                    *)
KeepsJournal == Journal!Spec
=============================================================================
