-------------------------- MODULE KnowledgeRebuild --------------------------
(***************************************************************************)
(* The rebuild of the knowledge database: build_knowledge_store of         *)
(* src/src/catalog/knowledge/storage.py, run by the CLIs and by the first  *)
(* tool that finds the database missing, beside the tools that keep        *)
(* writing to the database it replaces.                                    *)
(*                                                                         *)
(* A file is an inode; the database path and the build path are names for  *)
(* files.  Tools open the database in WAL mode, so their commits are       *)
(* frames of the -wal file beside it: SQLite folds the frames into the     *)
(* database and removes the -wal when the last connection closes, unless   *)
(* the database path no longer names the file that connection has open.    *)
(*                                                                         *)
(* A definition named X_..., next to a definition X, is a slip in X that   *)
(* one of the properties catches; Next uses none of them.                  *)
(***************************************************************************)
EXTENDS Naturals, FiniteSets

CONSTANTS
    Builders,   \* processes that rebuild the database
    Tools,      \* tool calls, each with a connection of its own
    Keys,       \* identities of rows
    MaxFiles,   \* bound: files ever created
    None        \* no file, no connection

ASSUME RebuildConstants ==
    /\ MaxFiles \in Nat \ {0}
    /\ None \notin Nat \cup [db : 1 .. MaxFiles, linked : BOOLEAN]

VARIABLES
    live,       \* the file at the database path
    tmp,        \* the file at <database>.build.tmp
    wal,        \* the files whose frames the -wal beside the database holds
    rows,       \* rows[f]: what a connection to file f reads
    odd,        \* odd[f]: preserved tables of f whose columns are not today's
    accepted,   \* the reader accepts the provenance of the raw specs here
    built,      \* the files whose build has passed every check
    created,    \* how many files there have been
    conn,       \* conn[t]: the connection of tool t
    pc,         \* pc[b]: where build b stands
    own,        \* own[b]: the file build b has open
    bundle,     \* bundle[b]: the raw specs read from the live database
    since,      \* history: since[b], committed after build b read their table
    acked,      \* history: rows some tool was told are committed
    excused,    \* history: rows a replacement or a stale connection dropped
    overlapped, \* history: two builds have been under way at once
    beneath     \* history: a file was replaced under an open connection, or
                \* after a tool was killed that wrote to it once it was copied

paths   == <<live, tmp, wal>>
files   == <<rows, odd, accepted, built, created>>
builds  == <<pc, own, bundle>>
history == <<since, acked, excused, overlapped, beneath>>
vars    == <<paths, files, conn, builds, history>>

-----------------------------------------------------------------------------
Files == 1 .. MaxFiles

(* Tables: "raw" are the raw-spec tables a build writes again from the     *)
(* bundle; "protected" and "ledger" are copied from the old database, and  *)
(* only the first are counted after the copy.                              *)
Preserved == {"protected", "ledger"}
Row       == (Preserved \cup {"raw"}) \X Keys
OfTable(S, tables) == {r \in S : r[1] \in tables}

(* What one commit writes: a tool's row of a loss-protected table, or a    *)
(* raw-spec sync's payload with its update review.                         *)
Commits == {{<<"protected", k>>} : k \in Keys}
           \cup {{<<"raw", k>>, <<"ledger", k>>} : k \in Keys}

Connection == [db : Files, linked : BOOLEAN]

Steps == {"idle", "unlinked", "connected", "seeded", "loaded", "ingested",
          "copied"}

Building(b)   == pc[b] # "idle"
Connected(f)  == {t \in Tools : conn[t] # None /\ conn[t].db = f}

(* The -wal beside the database belongs to the file at the path: otherwise *)
(* every new connection reads another file's pages over its own.           *)
Readable == live # None /\ wal \subseteq {live}

Init ==
    /\ \E o \in SUBSET Preserved, S \in SUBSET Commits, some \in BOOLEAN :
          /\ live  = IF some THEN 1 ELSE None
          /\ rows  = [f \in Files |-> IF f = 1 /\ some THEN UNION S ELSE {}]
          /\ odd   = [f \in Files |-> IF f = 1 /\ some THEN o ELSE {}]
          /\ built = IF some THEN {1} ELSE {}
          /\ created = IF some THEN 1 ELSE 0
          /\ acked = IF some THEN UNION S ELSE {}
    /\ accepted \in BOOLEAN
    /\ tmp = None
    /\ wal = {}
    /\ conn = [t \in Tools |-> None]
    /\ pc = [b \in Builders |-> "idle"]
    /\ own = [b \in Builders |-> None]
    /\ bundle = [b \in Builders |-> {}]
    /\ since = [b \in Builders |-> {}]
    /\ excused = {}
    /\ overlapped = FALSE
    /\ beneath = FALSE

-----------------------------------------------------------------------------
(* SQLite when connections to the database path end: with the last one the *)
(* frames move into the file and the -wal is removed, from under the       *)
(* connections that still have a replaced file open.                       *)
LastOut(leaving) == Readable /\ Connected(live) \subseteq leaving

Disconnected(leaving) ==
    [t \in Tools |->
        IF t \in leaving \/ conn[t] = None THEN None
        ELSE IF LastOut(leaving) THEN [conn[t] EXCEPT !.linked = FALSE]
        ELSE conn[t]]

Settle(leaving) ==
    /\ wal' = IF LastOut(leaving) THEN {} ELSE wal
    /\ conn' = Disconnected(leaving)

(* connect_catalog_plan_ssot: switching to WAL waits for a build that has  *)
(* the same file open.                                                     *)
ToolOpen(t) ==
    /\ conn[t] = None
    /\ Readable
    /\ \A b \in Builders : Building(b) => own[b] # live
    /\ conn' = [conn EXCEPT ![t] = [db |-> live, linked |-> TRUE]]
    /\ UNCHANGED <<paths, files, builds, history>>

(* A transaction of a tool, acknowledged to its caller. *)
ToolCommit(t) ==
    /\ conn[t] # None
    /\ conn[t].db = live => Readable
    /\ \E R \in Commits :
          /\ R \cap acked = {}
          /\ acked' = acked \cup R
          /\ rows' = [rows EXCEPT ![conn[t].db] = @ \cup R]
          /\ since' = [b \in Builders |-> since[b] \cup
                          (CASE pc[b] \in {"loaded", "ingested"} ->
                                    OfTable(R, {"raw"})
                             [] pc[b] = "copied" -> R
                             [] OTHER -> {})]
          /\ excused' = IF conn[t].db = live THEN excused ELSE excused \cup R
    /\ wal' = IF conn[t].linked THEN wal \cup {conn[t].db} ELSE wal
    /\ UNCHANGED <<live, tmp, odd, accepted, built, created, conn, builds,
                   overlapped, beneath>>

(* A connection whose file was replaced leaves the -wal alone. *)
ToolClose(t) ==
    /\ conn[t] # None
    /\ IF conn[t].db = live
       THEN Settle({t})
       ELSE conn' = [conn EXCEPT ![t] = None] /\ UNCHANGED wal
    /\ UNCHANGED <<live, tmp, files, builds, history>>

(* A tool's process is killed: its frames stay in the -wal. *)
ToolCrash(t) ==
    /\ conn[t] # None
    /\ conn' = [conn EXCEPT ![t] = None]
    /\ beneath' = (\/ beneath
                   \/ wal # {} /\ \E b \in Builders : pc[b] = "copied")
    /\ UNCHANGED <<paths, files, builds, since, acked, excused, overlapped>>

-----------------------------------------------------------------------------
(* What an earlier build left at the build path is unlinked, and then a    *)
(* connection is opened: to a new file, or to the file another build has   *)
(* created in between.                                                     *)
BuildUnlink(b) ==
    /\ pc[b] = "idle"
    /\ pc' = [pc EXCEPT ![b] = "unlinked"]
    /\ tmp' = None
    /\ since' = [since EXCEPT ![b] = {}]
    /\ overlapped' = (overlapped \/ \E c \in Builders : Building(c))
    /\ UNCHANGED <<live, wal, files, conn, own, bundle, acked, excused, beneath>>

BuildConnect_InPlace(b) ==
    /\ pc[b] = "unlinked"
    /\ created < MaxFiles
    /\ live' = created + 1
    /\ tmp' = created + 1
    /\ own' = [own EXCEPT ![b] = created + 1]
    /\ created' = created + 1
    /\ pc' = [pc EXCEPT ![b] = "connected"]
    /\ UNCHANGED <<wal, rows, odd, accepted, built, conn, bundle, history>>

BuildConnect(b) ==
    /\ pc[b] = "unlinked"
    /\ tmp = None => created < MaxFiles
    /\ LET f == IF tmp = None THEN created + 1 ELSE tmp
       IN  /\ tmp' = f
           /\ own' = [own EXCEPT ![b] = f]
           /\ created' = IF tmp = None THEN f ELSE created
    /\ pc' = [pc EXCEPT ![b] = "connected"]
    /\ UNCHANGED <<live, wal, rows, odd, accepted, built, conn, bundle, history>>

(* SQLite refuses to start a write transaction on a file that is no longer *)
(* at the path it was opened by, and lets one connection write at a time.  *)
MayBegin(b) ==
    /\ tmp = own[b]
    /\ \A c \in Builders \ {b} : own[c] = own[b] => pc[c] # "ingested"

BuildSeed(b) ==
    /\ pc[b] = "connected"
    /\ MayBegin(b)
    /\ pc' = [pc EXCEPT ![b] = "seeded"]
    /\ UNCHANGED <<paths, files, conn, own, bundle, history>>

(* load_sqlite_raw_spec_bundle: the loader compares the provenance in each *)
(* row with names of which three end in a space by mistake, and raises on  *)
(* what the syncs write.                                                   *)
Loads == LET raw == OfTable(rows[live], {"raw"}) IN raw # {} => accepted

BuildLoad(b) ==
    /\ pc[b] = "seeded"
    /\ live # None => Readable /\ Loads
    /\ bundle' = [bundle EXCEPT
           ![b] = IF live = None THEN {} ELSE OfTable(rows[live], {"raw"})]
    /\ pc' = [pc EXCEPT ![b] = "loaded"]
    /\ Settle({})
    /\ UNCHANGED <<live, tmp, files, own, history>>

BuildIngest(b) ==
    /\ pc[b] = "loaded"
    /\ MayBegin(b)
    /\ rows' = [rows EXCEPT ![own[b]] = @ \cup bundle[b]]
    /\ pc' = [pc EXCEPT ![b] = "ingested"]
    /\ UNCHANGED <<paths, odd, accepted, built, created, conn, own, bundle,
                   history>>

(* _preserve_local_state_tables: a table whose columns differ is skipped,  *)
(* and a loss-protected one that has rows fails the build.  A build whose  *)
(* file another build has published attaches its own file, and waits for   *)
(* itself.                                                                 *)
Copied == OfTable(rows[live], Preserved \ odd[live])

Counted_SkipsOddTables(new) ==
    "protected" \notin odd[live]
        => Cardinality(OfTable(new, {"protected"}))
              >= Cardinality(OfTable(rows[live], {"protected"}))

Counted(new) ==
    LET old == OfTable(rows[live], {"protected"})
    IN  old # {} => /\ "protected" \notin odd[live]
                    /\ Cardinality(OfTable(new, {"protected"})) >= Cardinality(old)

BuildCopy_ReadOnly(b) ==
    /\ pc[b] = "ingested"
    /\ live # own[b]
    /\ IF live = None
       THEN UNCHANGED rows
       ELSE /\ Readable
            /\ rows' = [rows EXCEPT ![own[b]] = @ \cup Copied]
            /\ Counted(rows'[own[b]])
    /\ built' = built \cup {own[b]}
    /\ pc' = [pc EXCEPT ![b] = "copied"]
    /\ UNCHANGED <<paths, odd, accepted, created, conn, own, bundle, history>>

BuildCopy(b) ==
    /\ pc[b] = "ingested"
    /\ live # own[b]
    /\ IF live = None
       THEN UNCHANGED rows
       ELSE /\ Readable
            /\ rows' = [rows EXCEPT ![own[b]] = @ \cup Copied]
            /\ Counted(rows'[own[b]])
    /\ built' = built \cup {own[b]}
    /\ pc' = [pc EXCEPT ![b] = "copied"]
    /\ Settle({})
    /\ UNCHANGED <<live, tmp, odd, accepted, created, own, bundle, history>>

(* The report is computed, the connection closed, and whatever is at the   *)
(* build path takes the place of the database.                             *)
BuildPublish(b) ==
    /\ pc[b] = "copied"
    /\ tmp # None
    /\ live' = tmp
    /\ tmp' = None
    /\ pc' = [pc EXCEPT ![b] = "idle"]
    /\ own' = [own EXCEPT ![b] = None]
    /\ excused' = excused \cup since[b] \cup
                     (IF live # None /\ "ledger" \in odd[live]
                      THEN OfTable(rows[live], {"ledger"}) ELSE {})
    /\ beneath' = (beneath \/ (live # None /\ Connected(live) # {}))
    /\ UNCHANGED <<wal, files, conn, bundle, since, acked, overlapped>>

BuildFail_Publishes(b) ==
    /\ pc[b] \notin {"idle", "unlinked"}
    /\ live' = IF tmp = None THEN live ELSE tmp
    /\ tmp' = None
    /\ pc' = [pc EXCEPT ![b] = "idle"]
    /\ own' = [own EXCEPT ![b] = None]
    /\ UNCHANGED <<wal, files, conn, bundle, history>>

(* An exception: the connection is closed and what is at the build path is *)
(* removed.                                                                *)
BuildFail(b) ==
    /\ pc[b] \notin {"idle", "unlinked"}
    /\ tmp' = None
    /\ pc' = [pc EXCEPT ![b] = "idle"]
    /\ own' = [own EXCEPT ![b] = None]
    /\ UNCHANGED <<live, wal, files, conn, bundle, history>>

(* The building process is killed: its file stays at the build path. *)
BuildCrash(b) ==
    /\ Building(b)
    /\ pc' = [pc EXCEPT ![b] = "idle"]
    /\ own' = [own EXCEPT ![b] = None]
    /\ UNCHANGED <<paths, files, conn, bundle, history>>

Next ==
    \/ \E t \in Tools : \/ ToolOpen(t)
                        \/ ToolCommit(t)
                        \/ ToolClose(t)
                        \/ ToolCrash(t)
    \/ \E b \in Builders : \/ BuildUnlink(b)
                           \/ BuildConnect(b)
                           \/ BuildSeed(b)
                           \/ BuildLoad(b)
                           \/ BuildIngest(b)
                           \/ BuildCopy(b)
                           \/ BuildPublish(b)
                           \/ BuildFail(b)
                           \/ BuildCrash(b)

Spec == Init /\ [][Next]_vars

-----------------------------------------------------------------------------
TypeOK ==
    /\ {live, tmp} \subseteq Files \cup {None}
    /\ wal \subseteq Files
    /\ rows \in [Files -> SUBSET Row]
    /\ odd \in [Files -> SUBSET Preserved]
    /\ built \subseteq 1 .. created
    /\ accepted \in BOOLEAN
    /\ created \in 0 .. MaxFiles
    /\ conn \in [Tools -> Connection \cup {None}]
    /\ pc \in [Builders -> Steps]
    /\ own \in [Builders -> Files \cup {None}]
    /\ \A b \in Builders : own[b] = None <=> pc[b] \in {"idle", "unlinked"}
    /\ bundle \in [Builders -> SUBSET Row]
    /\ since \in [Builders -> SUBSET Row]
    /\ {acked, excused} \subseteq SUBSET Row
    /\ {overlapped, beneath} \subseteq BOOLEAN

(* While builds do not overlap, the database path names a file whose build *)
(* ran to its end, whatever failed or was killed on the way.               *)
PublishedIsComplete == ~overlapped /\ live # None => live \in built

(* While builds do not overlap, a row that a tool was told is committed is *)
(* in the database, unless it was committed after the build that replaced  *)
(* its file had read its table, or over a connection to a replaced file.   *)
CommittedRowsSurvive ==
    ~overlapped => acked \ excused \subseteq IF live = None THEN {} ELSE rows[live]

(* New connections read the database alone, unless some build replaced it  *)
(* while a tool had it open, or a tool was killed between the copy and the *)
(* replacement.  What a tool killed earlier left in the -wal is folded in  *)
(* when the build closes the old database.                                 *)
ReadableUnlessReplacedBeneath == ~beneath /\ live # None => Readable

(* A build that fails or is killed changes nothing the tools can read, and *)
(* the database is replaced by a build that passed its checks.             *)
OnlyPublishingReplaces ==
    [][live' # live => \E b \in Builders : /\ pc[b] = "copied"
                                           /\ own[b] \in built
                                           /\ pc'[b] = "idle"]_vars
=============================================================================
