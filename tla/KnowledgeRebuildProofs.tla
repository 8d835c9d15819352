----------------------- MODULE KnowledgeRebuildProofs -----------------------
(***************************************************************************)
(* Proofs about KnowledgeRebuild, for any builds, tools and rows, and any  *)
(* bound on files.                                                         *)
(***************************************************************************)
EXTENDS KnowledgeRebuild, TLAPS

-----------------------------------------------------------------------------
\* Types.

(* Every file that has a name, or is being built, has been created. *)
Within ==
    /\ {live, tmp} \subseteq (1 .. created) \cup {None}
    /\ \A b \in Builders : own[b] \in (1 .. created) \cup {None}

TypeInv == TypeOK /\ Within

LEMMA NoneIsNoFile == None \notin Files /\ \A n \in Nat : None \notin 1 .. n
  BY RebuildConstants DEF Files

LEMMA NoneIsNoConnection == None \notin Connection
  BY RebuildConstants DEF Connection, Files

LEMMA CommitIsRows == \A R \in Commits : R \subseteq Row
  BY DEF Commits, Row, Preserved

LEMMA SettleType ==
    ASSUME TypeOK, NEW leaving, Settle(leaving)
    PROVE  /\ wal' \subseteq Files /\ wal' \subseteq wal
           /\ conn' \in [Tools -> Connection \cup {None}]
           /\ \A t \in Tools : /\ conn'[t] = None <=> conn[t] = None \/ t \in leaving
                               /\ conn'[t] # None => conn'[t].db = conn[t].db
           /\ LastOut(leaving) => wal' = {}
           /\ ~LastOut(leaving) => wal' = wal
  <1>1. conn' = Disconnected(leaving)
    BY DEF Settle
  <1>2. ASSUME NEW t \in Tools
        PROVE  /\ conn'[t] \in Connection \cup {None}
               /\ conn'[t] = None <=> conn[t] = None \/ t \in leaving
               /\ conn'[t] # None => conn'[t].db = conn[t].db
    <2>1. conn'[t] = IF t \in leaving \/ conn[t] = None THEN None
                     ELSE IF LastOut(leaving) THEN [conn[t] EXCEPT !.linked = FALSE]
                     ELSE conn[t]
      BY <1>1 DEF Disconnected
    <2>2. conn[t] \in Connection \cup {None}
      BY DEF TypeOK
    <2>3. CASE t \in leaving \/ conn[t] = None
      BY <2>1, <2>3
    <2>4. CASE ~(t \in leaving \/ conn[t] = None)
      <3>1. conn[t] \in Connection /\ conn[t] # None
        BY <2>2, <2>4
      <3>2. conn'[t].db = conn[t].db /\ conn'[t] \in Connection
        BY <2>1, <2>4, <3>1 DEF Connection
      <3>3. conn'[t] # None
        BY <2>1, <2>4, <3>1, <3>2, NoneIsNoConnection
      <3>. QED  BY <2>4, <3>1, <3>2, <3>3
    <2>. QED  BY <2>3, <2>4
  <1>3. conn' \in [Tools -> Connection \cup {None}]
    <2>1. DOMAIN conn' = Tools /\ conn' = [t \in Tools |-> conn'[t]]
      BY <1>1 DEF Disconnected
    <2>. QED  BY <1>2, <2>1
  <1>4. /\ wal' \subseteq Files /\ wal' \subseteq wal
        /\ LastOut(leaving) => wal' = {}
        /\ ~LastOut(leaving) => wal' = wal
    BY DEF Settle, TypeOK
  <1>. QED  BY <1>2, <1>3, <1>4

(* One lemma for the steps of tools, and one for those of builds. *)
LEMMA ToolTypes ==
    ASSUME TypeInv, NEW t \in Tools,
           ToolOpen(t) \/ ToolCommit(t) \/ ToolClose(t) \/ ToolCrash(t)
    PROVE  TypeInv'
  <1>. USE DEF TypeInv
  <1>1. CASE ToolOpen(t)
    <2>1. live \in Files
      BY <1>1 DEF ToolOpen, Readable, TypeOK
    <2>2. conn' \in [Tools -> Connection \cup {None}]
      BY <1>1, <2>1 DEF ToolOpen, TypeOK, Connection
    <2>. QED
      BY <1>1, <2>2 DEF ToolOpen, TypeOK, Within, paths, files, builds, history
  <1>2. CASE ToolCommit(t)
    <2>1. conn[t].db \in Files
      BY <1>2 DEF ToolCommit, TypeOK, Connection
    <2>2. PICK R \in Commits :
             /\ acked' = acked \cup R
             /\ rows' = [rows EXCEPT ![conn[t].db] = @ \cup R]
             /\ since' = [b \in Builders |-> since[b] \cup
                             (CASE pc[b] \in {"loaded", "ingested"} ->
                                       OfTable(R, {"raw"})
                                [] pc[b] = "copied" -> R
                                [] OTHER -> {})]
             /\ excused' = IF conn[t].db = live THEN excused ELSE excused \cup R
      BY <1>2 DEF ToolCommit
    <2>3. R \subseteq Row
      BY CommitIsRows
    <2>4. rows' \in [Files -> SUBSET Row]
      BY <2>1, <2>2, <2>3 DEF TypeOK
    <2>5. since' \in [Builders -> SUBSET Row]
      <3>1. \A b \in Builders : since'[b] \subseteq since[b] \cup R
        BY <2>2 DEF OfTable
      <3>. QED  BY <2>2, <2>3, <3>1 DEF TypeOK
    <2>6. acked' \subseteq Row /\ excused' \subseteq Row
      BY <2>2, <2>3 DEF TypeOK
    <2>7. wal' \subseteq Files
      BY <1>2, <2>1 DEF ToolCommit, TypeOK
    <2>. QED
      BY <1>2, <2>4, <2>5, <2>6, <2>7 DEF ToolCommit, TypeOK, Within, builds
  <1>3. CASE ToolClose(t)
    <2>1. wal' \subseteq Files /\ conn' \in [Tools -> Connection \cup {None}]
      <3>1. CASE conn[t].db = live
        BY <1>3, <3>1, SettleType DEF ToolClose
      <3>2. CASE conn[t].db # live
        BY <1>3, <3>2 DEF ToolClose, TypeOK
      <3>. QED  BY <3>1, <3>2
    <2>. QED
      BY <1>3, <2>1 DEF ToolClose, TypeOK, Within, files, builds, history
  <1>4. CASE ToolCrash(t)
    <2>1. conn' \in [Tools -> Connection \cup {None}] /\ beneath' \in BOOLEAN
      BY <1>4 DEF ToolCrash, TypeOK
    <2>. QED
      BY <1>4, <2>1 DEF ToolCrash, TypeOK, Within, paths, files, builds
  <1>. QED  BY <1>1, <1>2, <1>3, <1>4

Build(b) ==
    \/ BuildUnlink(b) \/ BuildConnect(b) \/ BuildSeed(b) \/ BuildLoad(b)
    \/ BuildIngest(b) \/ BuildCopy(b) \/ BuildPublish(b) \/ BuildFail(b)
    \/ BuildCrash(b)

LEMMA BuildTypes ==
    ASSUME TypeInv, NEW b \in Builders, Build(b)
    PROVE  TypeInv'
  <1>. USE DEF TypeInv
  <1>1. CASE BuildUnlink(b)
    BY <1>1, NoneIsNoFile
       DEF BuildUnlink, TypeOK, Within, Steps, Building, files
  <1>2. CASE BuildConnect(b)
    <2> DEFINE f == IF tmp = None THEN created + 1 ELSE tmp
    <2>0. /\ tmp' = f /\ own' = [own EXCEPT ![b] = f]
          /\ created' = IF tmp = None THEN f ELSE created
      BY <1>2 DEF BuildConnect
    <2>1. f \in Files /\ f \in 1 .. created'
      <3>1. CASE tmp = None
        <4>1. created < MaxFiles /\ f = created + 1 /\ created' = created + 1
          BY <1>2, <2>0, <3>1 DEF BuildConnect
        <4>2. created \in Nat /\ MaxFiles \in Nat
          BY RebuildConstants DEF TypeOK
        <4>3. created + 1 \in 1 .. MaxFiles /\ created + 1 \in 1 .. created + 1
          BY <4>1, <4>2
        <4>. QED  BY <3>1, <4>1, <4>3 DEF Files
      <3>2. CASE tmp # None
        BY <2>0, <3>2 DEF TypeOK, Within
      <3>. QED  BY <3>1, <3>2
    <2>2. created' \in 0 .. MaxFiles /\ created <= created'
      BY <1>2, <2>0, <2>1, RebuildConstants DEF BuildConnect, TypeOK, Files
    <2>. HIDE DEF f
    <2>3. 1 .. created \subseteq 1 .. created'
      BY <2>2, RebuildConstants DEF TypeOK
    <2>4. built' \subseteq 1 .. created'
      BY <1>2, <2>3 DEF BuildConnect, TypeOK
    <2>5. Within'
      BY <1>2, <2>0, <2>1, <2>3 DEF BuildConnect, Within, TypeOK
    <2>6. \A c \in Builders : own'[c] = None <=> pc'[c] \in {"idle", "unlinked"}
      BY <1>2, <2>0, <2>1, NoneIsNoFile DEF BuildConnect, TypeOK
    <2>7. /\ own' \in [Builders -> Files \cup {None}]
          /\ pc' \in [Builders -> Steps]
      BY <1>2, <2>0, <2>1 DEF BuildConnect, TypeOK, Steps
    <2>. QED
      BY <1>2, <2>0, <2>1, <2>2, <2>4, <2>5, <2>6, <2>7
         DEF BuildConnect, TypeOK, history
  <1>3. CASE BuildSeed(b)
    BY <1>3 DEF BuildSeed, TypeOK, Within, Steps, paths, files, history
  <1>4. CASE BuildLoad(b)
    <2>1. wal' \subseteq Files /\ conn' \in [Tools -> Connection \cup {None}]
      BY <1>4, SettleType DEF BuildLoad
    <2>2. bundle' \in [Builders -> SUBSET Row]
      <3>1. live # None => OfTable(rows[live], {"raw"}) \subseteq Row
        BY DEF TypeOK, OfTable
      <3>. QED  BY <1>4, <3>1 DEF BuildLoad, TypeOK
    <2>3. /\ pc' \in [Builders -> Steps]
          /\ \A c \in Builders : own'[c] = None <=> pc'[c] \in {"idle", "unlinked"}
      BY <1>4 DEF BuildLoad, TypeOK, Steps
    <2>. QED
      BY <1>4, <2>1, <2>2, <2>3 DEF BuildLoad, TypeOK, Within, files, history
  <1>5. CASE BuildIngest(b)
    <2>1. own[b] \in Files
      BY <1>5 DEF BuildIngest, TypeOK
    <2>2. rows' \in [Files -> SUBSET Row]
      BY <1>5, <2>1 DEF BuildIngest, TypeOK
    <2>3. /\ pc' \in [Builders -> Steps]
          /\ \A c \in Builders : own'[c] = None <=> pc'[c] \in {"idle", "unlinked"}
      BY <1>5 DEF BuildIngest, TypeOK, Steps
    <2>. QED
      BY <1>5, <2>2, <2>3 DEF BuildIngest, TypeOK, Within, paths, history
  <1>6. CASE BuildCopy(b)
    <2>1. wal' \subseteq Files /\ conn' \in [Tools -> Connection \cup {None}]
      BY <1>6, SettleType DEF BuildCopy
    <2>2. own[b] \in Files /\ own[b] \in 1 .. created
      BY <1>6 DEF BuildCopy, TypeOK, Within
    <2>3. rows' \in [Files -> SUBSET Row]
      <3>1. live # None => Copied \subseteq Row
        BY DEF TypeOK, Copied, OfTable
      <3>. QED  BY <1>6, <2>2, <3>1 DEF BuildCopy, TypeOK
    <2>4. /\ pc' \in [Builders -> Steps]
          /\ \A c \in Builders : own'[c] = None <=> pc'[c] \in {"idle", "unlinked"}
      BY <1>6 DEF BuildCopy, TypeOK, Steps
    <2>5. built' \subseteq 1 .. created'
      BY <1>6, <2>2 DEF BuildCopy, TypeOK
    <2>. QED
      BY <1>6, <2>1, <2>3, <2>4, <2>5 DEF BuildCopy, TypeOK, Within, history
  <1>7. CASE BuildPublish(b)
    <2>1. excused' \subseteq Row
      <3>1. since[b] \subseteq Row /\ excused \subseteq Row
        BY DEF TypeOK
      <3>2. live # None => OfTable(rows[live], {"ledger"}) \subseteq Row
        BY DEF TypeOK, OfTable
      <3>. QED  BY <1>7, <3>1, <3>2 DEF BuildPublish
    <2>2. /\ pc' \in [Builders -> Steps]
          /\ own' \in [Builders -> Files \cup {None}]
          /\ \A c \in Builders : own'[c] = None <=> pc'[c] \in {"idle", "unlinked"}
      BY <1>7 DEF BuildPublish, TypeOK, Steps
    <2>3. Within'
      BY <1>7 DEF BuildPublish, Within, TypeOK, files
    <2>4. beneath' \in BOOLEAN /\ {live', tmp'} \subseteq Files \cup {None}
      BY <1>7 DEF BuildPublish, TypeOK
    <2>. QED
      BY <1>7, <2>1, <2>2, <2>3, <2>4 DEF BuildPublish, TypeOK, files
  <1>8. CASE BuildFail(b)
    BY <1>8 DEF BuildFail, TypeOK, Within, Steps, files, history
  <1>9. CASE BuildCrash(b)
    BY <1>9 DEF BuildCrash, TypeOK, Within, Steps, Building, paths, files, history
  <1>. QED  BY <1>1, <1>2, <1>3, <1>4, <1>5, <1>6, <1>7, <1>8, <1>9 DEF Build

LEMMA InitTypes == Init => TypeInv
  <1>. SUFFICES ASSUME Init PROVE TypeInv
    OBVIOUS
  <1>1. PICK o \in SUBSET Preserved, S \in SUBSET Commits, some \in BOOLEAN :
          /\ live  = IF some THEN 1 ELSE None
          /\ rows  = [f \in Files |-> IF f = 1 /\ some THEN UNION S ELSE {}]
          /\ odd   = [f \in Files |-> IF f = 1 /\ some THEN o ELSE {}]
          /\ built = IF some THEN {1} ELSE {}
          /\ created = IF some THEN 1 ELSE 0
          /\ acked = IF some THEN UNION S ELSE {}
    BY DEF Init
  <1>2. UNION S \subseteq Row
    BY CommitIsRows
  <1>3. 1 \in Files /\ 1 \in 1 .. 1
    BY RebuildConstants DEF Files
  <1>4. /\ rows \in [Files -> SUBSET Row] /\ odd \in [Files -> SUBSET Preserved]
        /\ acked \subseteq Row
    BY <1>1, <1>2
  <1>5. /\ built \subseteq 1 .. created /\ created \in 0 .. MaxFiles
        /\ live \in Files \cup {None} /\ live \in (1 .. created) \cup {None}
    BY <1>1, <1>3, RebuildConstants DEF Files
  <1>. QED
    BY <1>4, <1>5 DEF Init, TypeInv, TypeOK, Within, Steps

LEMMA NextCases ==
    ASSUME [Next]_vars
    PROVE  \/ UNCHANGED vars
           \/ \E t \in Tools : ToolOpen(t) \/ ToolCommit(t) \/ ToolClose(t) \/ ToolCrash(t)
           \/ \E b \in Builders : Build(b)
  BY DEF Next, Build

LEMMA TypesAreKept == TypeInv /\ [Next]_vars => TypeInv'
  <1>. SUFFICES ASSUME TypeInv, [Next]_vars PROVE TypeInv'
    OBVIOUS
  <1>1. CASE UNCHANGED vars
    BY <1>1 DEF TypeInv, TypeOK, Within, vars, paths, files, builds, history
  <1>2. CASE \E t \in Tools : ToolOpen(t) \/ ToolCommit(t) \/ ToolClose(t) \/ ToolCrash(t)
    BY <1>2, ToolTypes
  <1>3. CASE \E b \in Builders : Build(b)
    BY <1>3, BuildTypes
  <1>. QED  BY <1>1, <1>2, <1>3, NextCases

(* Every value the model computes has its type: files are created within   *)
(* the bound, and a build has a file open exactly between its connection   *)
(* and its end.                                                            *)
THEOREM TypeCorrect == Spec => []TypeOK
  <1>1. Init => TypeInv
    BY InitTypes
  <1>2. TypeInv /\ [Next]_vars => TypeInv'
    BY TypesAreKept
  <1>3. TypeInv => TypeOK
    BY DEF TypeInv
  <1>. QED  BY <1>1, <1>2, <1>3, PTL DEF Spec

-----------------------------------------------------------------------------
\* Replacement: what is published was built.

CopiedIsBuilt == \A b \in Builders : pc[b] = "copied" => own[b] \in built

(* Before there is a database, nothing was committed and nobody has it open. *)
NothingBefore ==
    live = None => /\ acked = {} /\ wal = {}
                   /\ \A t \in Tools : conn[t] = None

Base == TypeInv /\ CopiedIsBuilt /\ NothingBefore

LEMMA InitBase == Init => Base
  <1>. SUFFICES ASSUME Init PROVE Base
    OBVIOUS
  <1>1. CopiedIsBuilt
    BY DEF Init, CopiedIsBuilt
  <1>2. live = None => acked = {}
    <2>1. \E some \in BOOLEAN, S \in SUBSET Commits :
             /\ live  = IF some THEN 1 ELSE None
             /\ acked = IF some THEN UNION S ELSE {}
      BY DEF Init
    <2>2. 1 # None
      BY RebuildConstants
    <2>. QED  BY <2>1, <2>2
  <1>3. wal = {} /\ \A t \in Tools : conn[t] = None
    BY DEF Init
  <1>. QED  BY <1>1, <1>2, <1>3, InitTypes DEF Base, NothingBefore

LEMMA ToolBase ==
    ASSUME Base, NEW t \in Tools,
           ToolOpen(t) \/ ToolCommit(t) \/ ToolClose(t) \/ ToolCrash(t)
    PROVE  Base'
  <1>1. TypeInv'
    BY ToolTypes DEF Base
  <1>2. live' = live /\ UNCHANGED builds /\ UNCHANGED built
    BY DEF ToolOpen, ToolCommit, ToolClose, ToolCrash, paths, files
  <1>3. CopiedIsBuilt'
    BY <1>2 DEF Base, CopiedIsBuilt, builds
  <1>4. NothingBefore'
    <2>. SUFFICES ASSUME live = None PROVE FALSE
      BY <1>2 DEF NothingBefore
    <2>. QED
      BY DEF Base, NothingBefore, ToolOpen, ToolCommit, ToolClose, ToolCrash, Readable,
             TypeInv, TypeOK
  <1>. QED  BY <1>1, <1>3, <1>4 DEF Base

LEMMA BuildBase ==
    ASSUME Base, NEW b \in Builders, Build(b)
    PROVE  Base'
  <1>1. TypeInv'
    BY BuildTypes DEF Base
  <1>2. CopiedIsBuilt'
    <2>. USE DEF Base, CopiedIsBuilt, TypeInv, TypeOK
    <2>1. CASE BuildUnlink(b)
      BY <2>1 DEF BuildUnlink, files
    <2>2. CASE BuildConnect(b)
      BY <2>2 DEF BuildConnect
    <2>3. CASE BuildSeed(b)
      BY <2>3 DEF BuildSeed, files
    <2>4. CASE BuildLoad(b)
      BY <2>4 DEF BuildLoad, files
    <2>5. CASE BuildIngest(b)
      BY <2>5 DEF BuildIngest
    <2>6. CASE BuildCopy(b)
      BY <2>6 DEF BuildCopy
    <2>7. CASE BuildPublish(b)
      BY <2>7 DEF BuildPublish, files
    <2>8. CASE BuildFail(b)
      BY <2>8 DEF BuildFail, files
    <2>9. CASE BuildCrash(b)
      BY <2>9 DEF BuildCrash, files
    <2>. QED  BY <2>1, <2>2, <2>3, <2>4, <2>5, <2>6, <2>7, <2>8, <2>9 DEF Build
  <1>3. NothingBefore'
    <2>1. CASE BuildPublish(b)
      BY <2>1 DEF BuildPublish, NothingBefore
    <2>2. CASE BuildLoad(b) \/ BuildCopy(b)
      <3>1. Settle({}) /\ live' = live /\ acked' = acked
        BY <2>2 DEF BuildLoad, BuildCopy, history
      <3>2. /\ wal' \subseteq wal
            /\ \A t \in Tools : conn'[t] = None <=> conn[t] = None
        BY <3>1, SettleType DEF Base, TypeInv
      <3>. QED  BY <3>1, <3>2 DEF Base, NothingBefore
    <2>3. CASE ~BuildPublish(b) /\ ~BuildLoad(b) /\ ~BuildCopy(b)
      <3>1. UNCHANGED <<live, wal, conn, acked>>
        BY <2>3 DEF Build, BuildUnlink, BuildConnect, BuildSeed, BuildIngest,
                    BuildFail, BuildCrash, paths, history
      <3>. QED  BY <3>1 DEF Base, NothingBefore
    <2>. QED  BY <2>1, <2>2, <2>3
  <1>. QED  BY <1>1, <1>2, <1>3 DEF Base

LEMMA BaseIsKept == Base /\ [Next]_vars => Base'
  <1>. SUFFICES ASSUME Base, [Next]_vars PROVE Base'
    OBVIOUS
  <1>1. CASE UNCHANGED vars
    BY <1>1, TypesAreKept
       DEF Base, CopiedIsBuilt, NothingBefore, vars, paths, files, builds, history
  <1>2. CASE \E t \in Tools : ToolOpen(t) \/ ToolCommit(t) \/ ToolClose(t) \/ ToolCrash(t)
    BY <1>2, ToolBase
  <1>3. CASE \E b \in Builders : Build(b)
    BY <1>3, BuildBase
  <1>. QED  BY <1>1, <1>2, <1>3, NextCases

(* The database is replaced by the end of a build whose checks have        *)
(* passed, and by nothing else: no failure, no death, no other build's end. *)
THEOREM OnlyPublishingReplacesHolds == Spec => OnlyPublishingReplaces
  <1> DEFINE Replacing == live' # live =>
                 \E b \in Builders : /\ pc[b] = "copied"
                                     /\ own[b] \in built
                                     /\ pc'[b] = "idle"
  <1>1. Base /\ [Next]_vars => Replacing
    <2>. SUFFICES ASSUME Base, [Next]_vars, live' # live PROVE Replacing
      OBVIOUS
    <2>1. PICK b \in Builders : BuildPublish(b)
      BY DEF Next, vars, paths, ToolOpen, ToolCommit, ToolClose, ToolCrash,
             BuildUnlink, BuildConnect, BuildSeed, BuildLoad, BuildIngest,
             BuildCopy, BuildFail, BuildCrash
    <2>2. pc[b] = "copied" /\ own[b] \in built /\ pc'[b] = "idle"
      BY <2>1 DEF Base, CopiedIsBuilt, BuildPublish, TypeInv, TypeOK
    <2>. QED  BY <2>2
  <1>2. Spec => []Base
    BY InitBase, BaseIsKept, PTL DEF Spec
  <1>3. Base /\ [Next]_vars => [Replacing]_vars
    BY <1>1
  <1>. QED  BY <1>1, <1>2, PTL DEF Spec, OnlyPublishingReplaces

-----------------------------------------------------------------------------
\* One build at a time.

(* While builds do not overlap, the one under way has the file at the build *)
(* path open, which is not the database, and the database was built.       *)
Alone ==
    ~overlapped =>
       /\ \A b, c \in Builders : Building(b) /\ Building(c) => b = c
       /\ \A b \in Builders : pc[b] = "unlinked" => tmp = None
       /\ \A b \in Builders : own[b] # None => tmp = own[b] /\ own[b] # live
       /\ live # None => live \in built

LEMMA InitAlone == Init => Alone
  <1>. SUFFICES ASSUME Init PROVE Alone
    OBVIOUS
  <1>1. \E some \in BOOLEAN : /\ live  = IF some THEN 1 ELSE None
                              /\ built = IF some THEN {1} ELSE {}
    BY DEF Init
  <1>2. \A b \in Builders : pc[b] = "idle" /\ own[b] = None
    BY DEF Init
  <1>. QED  BY <1>1, <1>2 DEF Alone, Building

LEMMA ToolAlone ==
    ASSUME Alone, NEW t \in Tools,
           ToolOpen(t) \/ ToolCommit(t) \/ ToolClose(t) \/ ToolCrash(t)
    PROVE  Alone'
  <1>1. UNCHANGED <<live, tmp, built, builds, overlapped>>
    BY DEF ToolOpen, ToolCommit, ToolClose, ToolCrash, paths, files, history
  <1>. QED  BY <1>1 DEF Alone, Building, builds

LEMMA BuildAlone ==
    ASSUME Base, Alone, NEW b \in Builders, Build(b)
    PROVE  Alone'
  <1>. SUFFICES ASSUME ~overlapped' PROVE Alone'
    BY DEF Alone
  <1>0. ~overlapped
    BY DEF Build, BuildUnlink, BuildConnect, BuildSeed, BuildLoad, BuildIngest,
           BuildCopy, BuildPublish, BuildFail, BuildCrash, history
  <1>. USE <1>0 DEF Alone, Building
  <1>1. CASE BuildUnlink(b)
    <2>1. \A c \in Builders : pc[c] = "idle" /\ own[c] = None
      BY <1>1 DEF BuildUnlink, Base, TypeInv, TypeOK
    <2>. QED
      BY <1>1, <2>1 DEF BuildUnlink, files, Base, TypeInv, TypeOK
  <1>2. CASE BuildConnect(b)
    <2>1. tmp = None
      BY <1>2 DEF BuildConnect
    <2>2. tmp' = created + 1 /\ own' = [own EXCEPT ![b] = created + 1]
      BY <1>2, <2>1 DEF BuildConnect
    <2>3. live # created + 1
      BY RebuildConstants DEF Base, TypeInv, TypeOK, Within
    <2>4. \A c \in Builders \ {b} : pc[c] = "idle" /\ own[c] = None
      BY <1>2 DEF BuildConnect, Base, TypeInv, TypeOK
    <2>. QED
      BY <1>2, <2>2, <2>3, <2>4 DEF BuildConnect, Base, TypeInv, TypeOK
  <1>3. CASE BuildSeed(b)
    BY <1>3 DEF BuildSeed, paths, files, Base, TypeInv, TypeOK
  <1>4. CASE BuildLoad(b)
    BY <1>4 DEF BuildLoad, files, Base, TypeInv, TypeOK
  <1>5. CASE BuildIngest(b)
    BY <1>5 DEF BuildIngest, paths, Base, TypeInv, TypeOK
  <1>6. CASE BuildCopy(b)
    BY <1>6 DEF BuildCopy, Base, TypeInv, TypeOK
  <1>7. CASE BuildPublish(b)
    <2>1. own[b] # None /\ own[b] \in built /\ tmp = own[b]
      BY <1>7 DEF BuildPublish, Base, CopiedIsBuilt, TypeInv, TypeOK
    <2>2. \A c \in Builders \ {b} : pc[c] = "idle" /\ own[c] = None
      BY <1>7 DEF BuildPublish, Base, TypeInv, TypeOK
    <2>. QED
      BY <1>7, <2>1, <2>2 DEF BuildPublish, files, Base, TypeInv, TypeOK
  <1>8. CASE BuildFail(b)
    <2>1. \A c \in Builders \ {b} : pc[c] = "idle" /\ own[c] = None
      BY <1>8 DEF BuildFail, Base, TypeInv, TypeOK
    <2>. QED
      BY <1>8, <2>1 DEF BuildFail, files, Base, TypeInv, TypeOK
  <1>9. CASE BuildCrash(b)
    BY <1>9 DEF BuildCrash, paths, files, Base, TypeInv, TypeOK
  <1>. QED  BY <1>1, <1>2, <1>3, <1>4, <1>5, <1>6, <1>7, <1>8, <1>9 DEF Build

(* While builds do not overlap, the database is a file whose build ended.  *)
THEOREM PublishedIsCompleteHolds == Spec => []PublishedIsComplete
  <1>1. Init => Base /\ Alone
    BY InitBase, InitAlone
  <1>2. Base /\ Alone /\ [Next]_vars => Alone'
    <2>. SUFFICES ASSUME Base, Alone, [Next]_vars PROVE Alone'
      OBVIOUS
    <2>1. CASE UNCHANGED vars
      BY <2>1 DEF Alone, Building, vars, paths, files, builds, history
    <2>2. CASE \E t \in Tools : ToolOpen(t) \/ ToolCommit(t) \/ ToolClose(t) \/ ToolCrash(t)
      BY <2>2, ToolAlone
    <2>3. CASE \E b \in Builders : Build(b)
      BY <2>3, BuildAlone
    <2>. QED  BY <2>1, <2>2, <2>3, NextCases
  <1>3. Alone => PublishedIsComplete
    BY DEF Alone, PublishedIsComplete
  <1>. QED  BY <1>1, <1>2, <1>3, BaseIsKept, PTL DEF Spec

-----------------------------------------------------------------------------
\* What a replacement loses.

RawOf(f)    == OfTable(rows[f], {"raw"})
LedgerOf(f) == OfTable(rows[f], {"ledger"})

(* How much of the database a build has: of the raw specs from the load on, *)
(* of everything from the copy on, but for what was committed since it read *)
(* and a ledger whose columns are not today's.                              *)
Survives ==
    ~overlapped /\ live # None =>
       /\ acked \ excused \subseteq rows[live]
       /\ \A b \in Builders :
             /\ pc[b] = "loaded" => RawOf(live) \subseteq bundle[b] \cup since[b]
             /\ pc[b] = "ingested" => RawOf(live) \subseteq rows[own[b]] \cup since[b]
             /\ pc[b] = "copied" =>
                   rows[live] \subseteq rows[own[b]] \cup since[b] \cup
                       (IF "ledger" \in odd[live] THEN LedgerOf(live) ELSE {})

LEMMA InitSurvives == Init => Survives
  <1>. SUFFICES ASSUME Init, live # None PROVE Survives
    BY DEF Survives
  <1>1. acked = rows[live]
    <2>1. \E some \in BOOLEAN, S \in SUBSET Commits :
             /\ live  = IF some THEN 1 ELSE None
             /\ rows  = [f \in Files |-> IF f = 1 /\ some THEN UNION S ELSE {}]
             /\ acked = IF some THEN UNION S ELSE {}
      BY DEF Init
    <2>2. 1 \in Files
      BY RebuildConstants DEF Files
    <2>. QED  BY <2>1, <2>2
  <1>2. \A b \in Builders : pc[b] = "idle"
    BY DEF Init
  <1>. QED  BY <1>1, <1>2 DEF Survives

LEMMA ToolSurvives ==
    ASSUME Base, Survives, NEW t \in Tools,
           ToolOpen(t) \/ ToolCommit(t) \/ ToolClose(t) \/ ToolCrash(t)
    PROVE  Survives'
  <1>1. UNCHANGED <<live, odd, builds, overlapped>>
    BY DEF ToolOpen, ToolCommit, ToolClose, ToolCrash, paths, files, history
  <1>. SUFFICES ASSUME ~overlapped, live # None PROVE Survives'
    BY <1>1 DEF Survives
  <1>2. CASE ToolCommit(t)
    <2>1. conn[t].db \in Files /\ live \in Files
      BY <1>2 DEF ToolCommit, Base, TypeInv, TypeOK, Connection
    <2>2. PICK R \in Commits :
             /\ acked' = acked \cup R
             /\ rows' = [rows EXCEPT ![conn[t].db] = @ \cup R]
             /\ since' = [b \in Builders |-> since[b] \cup
                             (CASE pc[b] \in {"loaded", "ingested"} ->
                                       OfTable(R, {"raw"})
                                [] pc[b] = "copied" -> R
                                [] OTHER -> {})]
             /\ excused' = IF conn[t].db = live THEN excused ELSE excused \cup R
      BY <1>2 DEF ToolCommit
    <2>3. /\ \A f \in Files : rows[f] \subseteq rows'[f]
          /\ conn[t].db = live => rows'[live] = rows[live] \cup R
          /\ conn[t].db # live => rows'[live] = rows[live]
      BY <2>1, <2>2 DEF Base, TypeInv, TypeOK
    <2>4. acked' \ excused' \subseteq rows'[live]
      BY <2>2, <2>3 DEF Survives
    <2>5. \A b \in Builders :
             /\ since[b] \subseteq since'[b]
             /\ pc[b] \in {"loaded", "ingested"} => OfTable(R, {"raw"}) \subseteq since'[b]
             /\ pc[b] = "copied" => R \subseteq since'[b]
      BY <2>2
    <2>6. (RawOf(live))' \subseteq RawOf(live) \cup OfTable(R, {"raw"})
      BY <2>3, <1>1 DEF RawOf, OfTable
    <2>7. (LedgerOf(live))' \subseteq LedgerOf(live) \cup R /\ LedgerOf(live) \subseteq (LedgerOf(live))'
      BY <2>1, <2>3, <1>1 DEF LedgerOf, OfTable
    <2>8. ASSUME NEW b \in Builders
          PROVE  /\ pc[b] = "loaded" => (RawOf(live))' \subseteq bundle[b] \cup since'[b]
                 /\ pc[b] = "ingested" => (RawOf(live))' \subseteq rows'[own[b]] \cup since'[b]
                 /\ pc[b] = "copied" =>
                       rows'[live] \subseteq rows'[own[b]] \cup since'[b] \cup
                           (IF "ledger" \in odd[live] THEN (LedgerOf(live))' ELSE {})
      <3>1. pc[b] \in {"ingested", "copied"} => own[b] \in Files
        BY DEF Base, TypeInv, TypeOK
      <3>2. CASE pc[b] = "loaded"
        BY <2>5, <2>6, <3>2 DEF Survives
      <3>3. CASE pc[b] = "ingested"
        BY <2>3, <2>5, <2>6, <3>1, <3>3 DEF Survives
      <3>4. CASE pc[b] = "copied"
        <4>1. rows[live] \subseteq rows[own[b]] \cup since[b] \cup
                  (IF "ledger" \in odd[live] THEN LedgerOf(live) ELSE {})
          BY <3>4 DEF Survives
        <4>2. rows[own[b]] \subseteq rows'[own[b]] /\ since[b] \subseteq since'[b] /\ R \subseteq since'[b]
          BY <2>3, <2>5, <3>1, <3>4
        <4>. QED  BY <2>3, <2>7, <3>4, <4>1, <4>2
      <3>. QED  BY <3>2, <3>3, <3>4
    <2>. QED  BY <1>1, <2>4, <2>8 DEF Survives, builds
  <1>3. CASE ~ToolCommit(t)
    <2>1. UNCHANGED <<rows, since, acked, excused>>
      BY <1>3 DEF ToolOpen, ToolClose, ToolCrash, files, history
    <2>. QED  BY <1>1, <2>1 DEF Survives, RawOf, LedgerOf, builds
  <1>. QED  BY <1>2, <1>3

(* A build copies all of the rows that are protected, or fails. *)
LEMMA CopyIsWhole ==
    ASSUME Base, Alone, Survives, ~overlapped, live # None, NEW b \in Builders, BuildCopy(b)
    PROVE  rows[live] \subseteq rows'[own[b]] \cup since[b] \cup
               (IF "ledger" \in odd[live] THEN LedgerOf(live) ELSE {})
  <1>1. own[b] \in Files /\ live \in Files
    BY DEF BuildCopy, Base, TypeInv, TypeOK
  <1>2. rows'[own[b]] = rows[own[b]] \cup Copied /\ Counted(rows'[own[b]])
    BY <1>1 DEF BuildCopy, Base, TypeInv, TypeOK
  <1>3. RawOf(live) \subseteq rows[own[b]] \cup since[b]
    BY DEF BuildCopy, Survives
  <1>4. ASSUME NEW r \in rows[live]
        PROVE  r \in rows'[own[b]] \cup since[b] \cup
                   (IF "ledger" \in odd[live] THEN LedgerOf(live) ELSE {})
    <2>1. r[1] \in {"raw", "protected", "ledger"}
      BY <1>1 DEF Base, TypeInv, TypeOK, Row, Preserved
    <2>2. CASE r[1] = "raw"
      BY <1>2, <1>3, <2>2 DEF RawOf, OfTable
    <2>3. CASE r[1] = "protected"
      <3>1. r \in OfTable(rows[live], {"protected"})
        BY <2>3 DEF OfTable
      <3>2. "protected" \notin odd[live]
        BY <1>2, <3>1 DEF Counted
      <3>3. r \in Copied
        BY <2>3, <3>2 DEF Copied, OfTable, Preserved
      <3>. QED  BY <1>2, <3>3
    <2>4. CASE r[1] = "ledger"
      BY <1>2, <2>4 DEF Copied, OfTable, Preserved, LedgerOf
    <2>. QED  BY <2>1, <2>2, <2>3, <2>4
  <1>. QED  BY <1>4

LEMMA BuildSurvives ==
    ASSUME Base, Alone, Survives, NEW b \in Builders, Build(b)
    PROVE  Survives'
  <1>0. overlapped' = FALSE => ~overlapped
    BY DEF Build, BuildUnlink, BuildConnect, BuildSeed, BuildLoad, BuildIngest,
           BuildCopy, BuildPublish, BuildFail, BuildCrash, history,
           Base, TypeInv, TypeOK
  <1>1. SUFFICES ASSUME ~overlapped', ~overlapped, live' # None PROVE Survives'
    BY <1>0 DEF Survives, Base, TypeInv, TypeOK, Build, BuildUnlink, BuildConnect,
       BuildSeed, BuildLoad, BuildIngest, BuildCopy, BuildPublish, BuildFail,
       BuildCrash, history
  <1>2. CASE BuildPublish(b)
    <2>1. live' = own[b] /\ own[b] # None
      BY <1>1, <1>2 DEF BuildPublish, Alone, Base, TypeInv, TypeOK
    <2>2. \A c \in Builders : pc'[c] = "idle"
      BY <1>1, <1>2 DEF BuildPublish, Alone, Building, Base, TypeInv, TypeOK
    <2>3. acked' \ excused' \subseteq rows'[live']
      <3>1. acked' = acked /\ rows' = rows /\ excused \cup since[b] \subseteq excused'
        BY <1>2 DEF BuildPublish, files
      <3>2. CASE live = None
        BY <3>1, <3>2 DEF Base, NothingBefore
      <3>3. CASE live # None
        <4>1. acked \ excused \subseteq rows[own[b]] \cup since[b] \cup
                  (IF "ledger" \in odd[live] THEN LedgerOf(live) ELSE {})
          BY <1>1, <1>2, <3>3 DEF Survives, BuildPublish
        <4>2. (IF "ledger" \in odd[live] THEN LedgerOf(live) ELSE {}) \subseteq excused'
          BY <1>2, <3>3 DEF BuildPublish, LedgerOf
        <4>. QED  BY <2>1, <3>1, <4>1, <4>2
      <3>. QED  BY <3>2, <3>3
    <2>. QED  BY <2>2, <2>3 DEF Survives
  <1>3. CASE ~BuildPublish(b)
    <2>1. UNCHANGED <<live, odd, since, acked, excused>> \/ BuildUnlink(b)
      BY <1>3 DEF Build, BuildConnect, BuildSeed, BuildLoad, BuildIngest, BuildCopy,
             BuildFail, BuildCrash, paths, files, history
    <2>2. UNCHANGED <<live, odd, acked, excused>> /\ live # None
      BY <1>1, <2>1 DEF BuildUnlink, files
    <2>3. \A c \in Builders \ {b} : pc'[c] = pc[c] /\ ~(pc'[c] \in {"loaded", "ingested", "copied"})
      BY <1>1, <1>3
         DEF Build, Alone, Building, BuildUnlink, BuildConnect, BuildSeed, BuildLoad,
             BuildIngest, BuildCopy, BuildFail, BuildCrash, Base, TypeInv, TypeOK
    <2>4. live \in Files /\ rows \in [Files -> SUBSET Row]
      BY <2>2 DEF Base, TypeInv, TypeOK
    <2>5. CASE BuildLoad(b)
      <3>1. /\ bundle'[b] = RawOf(live) /\ pc'[b] = "loaded"
            /\ UNCHANGED <<rows, own, since>>
        BY <2>2, <2>5 DEF BuildLoad, RawOf, Base, TypeInv, TypeOK, files, history
      <3>. QED  BY <1>1, <2>2, <2>3, <3>1 DEF Survives, RawOf, LedgerOf
    <2>6. CASE BuildIngest(b)
      <3>1. own[b] \in Files /\ own[b] # live /\ pc[b] = "loaded"
        BY <1>1, <2>6 DEF BuildIngest, Alone, Base, TypeInv, TypeOK
      <3>2. /\ rows'[own[b]] = rows[own[b]] \cup bundle[b] /\ rows'[live] = rows[live]
            /\ pc'[b] = "ingested" /\ UNCHANGED <<own, since>>
        BY <2>4, <2>6, <3>1 DEF BuildIngest, Base, TypeInv, TypeOK, history
      <3>3. (RawOf(live))' \subseteq rows'[own'[b]] \cup since'[b]
        BY <1>1, <2>2, <3>1, <3>2 DEF Survives, RawOf
      <3>. QED  BY <1>1, <2>2, <2>3, <3>2, <3>3 DEF Survives
    <2>7. CASE BuildCopy(b)
      <3>1. own[b] \in Files /\ own[b] # live
        BY <1>1, <2>7 DEF BuildCopy, Base, TypeInv, TypeOK
      <3>2. /\ rows'[live] = rows[live] /\ pc'[b] = "copied" /\ UNCHANGED <<own, since>>
        BY <2>2, <2>4, <2>7, <3>1 DEF BuildCopy, Base, TypeInv, TypeOK, history
      <3>3. rows[live] \subseteq rows'[own[b]] \cup since[b] \cup
               (IF "ledger" \in odd[live] THEN LedgerOf(live) ELSE {})
        BY <1>1, <2>2, <2>7, CopyIsWhole
      <3>4. (LedgerOf(live))' = LedgerOf(live)
        BY <2>2, <3>2 DEF LedgerOf
      <3>. QED  BY <1>1, <2>2, <2>3, <3>2, <3>3, <3>4 DEF Survives
    <2>8. CASE ~BuildLoad(b) /\ ~BuildIngest(b) /\ ~BuildCopy(b)
      <3>1. UNCHANGED rows /\ pc'[b] \notin {"loaded", "ingested", "copied"}
        BY <1>3, <2>8 DEF Build, BuildUnlink, BuildConnect, BuildSeed, BuildFail,
               BuildCrash, files, Base, TypeInv, TypeOK
      <3>. QED  BY <1>1, <2>2, <2>3, <3>1 DEF Survives
    <2>. QED  BY <2>5, <2>6, <2>7, <2>8
  <1>. QED  BY <1>2, <1>3

(* While builds do not overlap, what a tool was told is committed is in    *)
(* the database, but for what the replacement read too early.              *)
THEOREM CommittedRowsSurviveHolds == Spec => []CommittedRowsSurvive
  <1> DEFINE I == Base /\ Alone /\ Survives
  <1>1. Init => I
    BY InitBase, InitAlone, InitSurvives
  <1>2. I /\ [Next]_vars => I'
    <2>. SUFFICES ASSUME I, [Next]_vars PROVE I'
      OBVIOUS
    <2>0. Base'
      BY BaseIsKept
    <2>1. CASE UNCHANGED vars
      <3>1. UNCHANGED <<live, tmp, rows, odd, built, pc, own, bundle, since, acked,
                        excused, overlapped>>
        BY <2>1 DEF vars, paths, files, builds, history
      <3>. QED
        BY <2>0, <3>1 DEF Alone, Building, Survives, RawOf, LedgerOf
    <2>2. CASE \E t \in Tools : ToolOpen(t) \/ ToolCommit(t) \/ ToolClose(t) \/ ToolCrash(t)
      BY <2>0, <2>2, ToolAlone, ToolSurvives
    <2>3. CASE \E b \in Builders : Build(b)
      BY <2>0, <2>3, BuildAlone, BuildSurvives
    <2>. QED  BY <2>1, <2>2, <2>3, NextCases
  <1>3. I => CommittedRowsSurvive
    BY DEF Base, NothingBefore, Survives, CommittedRowsSurvive
  <1>. QED  BY <1>1, <1>2, <1>3, PTL DEF Spec

-----------------------------------------------------------------------------
\* What new connections read.

(* Unless a file was replaced beneath a tool, every connection is to the    *)
(* database, and so is every frame; and a build that has closed the         *)
(* database left no frame where no tool had it open.                        *)
Clean ==
    ~beneath /\ live # None =>
       /\ wal \subseteq {live}
       /\ \A t \in Tools : conn[t] # None => conn[t].db = live
       /\ \A b \in Builders : pc[b] = "copied" /\ Connected(live) = {} => wal = {}

LEMMA InitClean == Init => Clean
  BY DEF Init, Clean

LEMMA ToolClean ==
    ASSUME Base, Clean, NEW t \in Tools,
           ToolOpen(t) \/ ToolCommit(t) \/ ToolClose(t) \/ ToolCrash(t)
    PROVE  Clean'
  <1>0. \/ beneath' = beneath
        \/ beneath' = (beneath \/ (wal # {} /\ \E b \in Builders : pc[b] = "copied"))
    BY DEF ToolOpen, ToolCommit, ToolClose, ToolCrash, history
  <1>1. live' = live /\ pc' = pc /\ (~beneath' => ~beneath)
    <2>1. live' = live /\ pc' = pc
      BY DEF ToolOpen, ToolCommit, ToolClose, ToolCrash, paths, builds
    <2>2. ~beneath' => ~beneath
      BY <1>0, Zenon
    <2>. QED  BY <2>1, <2>2, Zenon
  <1>. SUFFICES ASSUME ~beneath', ~beneath, live # None PROVE Clean'
    BY <1>1 DEF Clean
  <1>2. CASE ToolOpen(t)
    <2>1. conn' = [conn EXCEPT ![t] = [db |-> live, linked |-> TRUE]] /\ wal' = wal
      BY <1>2 DEF ToolOpen, paths
    <2>2. /\ conn'[t].db = live /\ conn'[t] # None
          /\ \A s \in Tools \ {t} : conn'[s] = conn[s]
      <3>1. live \in Files
        BY <1>2 DEF ToolOpen, Readable, Base, TypeInv, TypeOK
      <3>2. [db |-> live, linked |-> TRUE] \in Connection
        BY <3>1 DEF Connection
      <3>3. /\ conn'[t] = [db |-> live, linked |-> TRUE]
            /\ \A s \in Tools \ {t} : conn'[s] = conn[s]
        BY <2>1 DEF Base, TypeInv, TypeOK
      <3>4. conn'[t] # None
        BY <3>2, <3>3, NoneIsNoConnection
      <3>5. conn'[t].db = live
        BY <3>3
      <3>. QED  BY <3>3, <3>4, <3>5
    <2>3. t \in Connected(live)'
      BY <1>1, <2>2 DEF Connected
    <2>. QED  BY <1>1, <2>1, <2>2, <2>3 DEF Clean
  <1>3. CASE ToolCommit(t)
    <2>1. conn[t] # None /\ conn[t].db = live /\ conn' = conn /\ wal' \subseteq wal \cup {live}
      BY <1>3 DEF ToolCommit, Clean
    <2>2. t \in Connected(live)'
      BY <1>1, <2>1 DEF Connected
    <2>. QED  BY <1>1, <2>1, <2>2 DEF Clean
  <1>4. CASE ToolClose(t)
    <2>1. conn[t].db = live /\ Settle({t}) /\ Readable
      BY <1>4 DEF ToolClose, Clean, Readable
    <2>2. /\ wal' \subseteq wal
          /\ \A s \in Tools : conn'[s] # None => conn[s] # None /\ conn'[s].db = conn[s].db
          /\ \A s \in Tools \ {t} : conn[s] # None => conn'[s] # None
          /\ LastOut({t}) => wal' = {}
      BY <2>1, SettleType DEF Base, TypeInv
    <2>3. Connected(live)' = {} => wal' = {}
      <3>1. SUFFICES ASSUME ~LastOut({t}) PROVE Connected(live)' # {}
        BY <2>2
      <3>2. PICK s \in Tools \ {t} : conn[s] # None /\ conn[s].db = live
        BY <2>1, <3>1 DEF LastOut, Connected
      <3>. QED  BY <1>1, <2>2, <3>2 DEF Connected
    <2>. QED  BY <1>1, <2>2, <2>3 DEF Clean
  <1>5. CASE ToolCrash(t)
    <2>1. /\ wal' = wal /\ \A s \in Tools : conn'[s] # None => conn'[s] = conn[s]
          /\ wal = {} \/ \A b \in Builders : pc[b] # "copied"
      BY <1>5 DEF ToolCrash, paths, Base, TypeInv, TypeOK
    <2>. QED  BY <1>1, <2>1 DEF Clean
  <1>. QED  BY <1>2, <1>3, <1>4, <1>5

LEMMA BuildClean ==
    ASSUME Base, Clean, NEW b \in Builders, Build(b)
    PROVE  Clean'
  <1>1. CASE BuildPublish(b)
    <2>. SUFFICES ASSUME ~beneath', live' # None PROVE Clean'
      BY DEF Clean
    <2>1. ~beneath /\ (live = None \/ Connected(live) = {}) /\ wal' = wal /\ conn' = conn
      BY <1>1 DEF BuildPublish
    <2>2. wal = {}
      BY <1>1, <2>1 DEF BuildPublish, Clean, Base, NothingBefore
    <2>3. \A t \in Tools : conn[t] = None
      BY <2>1 DEF Clean, Connected, Base, NothingBefore
    <2>. QED  BY <2>1, <2>2, <2>3 DEF Clean
  <1>2. CASE BuildLoad(b) \/ BuildCopy(b)
    <2>. SUFFICES ASSUME ~beneath', live' # None PROVE Clean'
      BY DEF Clean
    <2>1. /\ Settle({}) /\ live' = live /\ beneath' = beneath /\ Readable
          /\ \A c \in Builders \ {b} : pc'[c] = pc[c]
      BY <1>2 DEF BuildLoad, BuildCopy, history, Base, TypeInv, TypeOK
    <2>2. /\ wal' \subseteq wal
          /\ \A s \in Tools : /\ conn'[s] # None <=> conn[s] # None
                              /\ conn'[s] # None => conn'[s].db = conn[s].db
          /\ LastOut({}) => wal' = {}
      BY <2>1, SettleType DEF Base, TypeInv
    <2>3. Connected(live)' = Connected(live)
      BY <2>1, <2>2 DEF Connected
    <2>4. Connected(live)' = {} => wal' = {}
      BY <2>1, <2>2, <2>3 DEF LastOut
    <2>. QED  BY <2>1, <2>2, <2>4 DEF Clean
  <1>3. CASE ~BuildPublish(b) /\ ~BuildLoad(b) /\ ~BuildCopy(b)
    <2>1. UNCHANGED <<live, wal, conn, beneath>>
      BY <1>3 DEF Build, BuildUnlink, BuildConnect, BuildSeed, BuildIngest,
                  BuildFail, BuildCrash, paths, history
    <2>2. \A c \in Builders : pc'[c] = "copied" => pc[c] = "copied"
      BY <1>3 DEF Build, BuildUnlink, BuildConnect, BuildSeed, BuildIngest,
                  BuildFail, BuildCrash, Base, TypeInv, TypeOK
    <2>. QED  BY <2>1, <2>2 DEF Clean, Connected
  <1>. QED  BY <1>1, <1>2, <1>3

(* New connections read the database alone unless it was replaced beneath  *)
(* a tool: a build that closes the old database folds in what is left.     *)
THEOREM ReadableHolds == Spec => []ReadableUnlessReplacedBeneath
  <1>1. Init => Base /\ Clean
    BY InitBase, InitClean
  <1>2. Base /\ Clean /\ [Next]_vars => Clean'
    <2>. SUFFICES ASSUME Base, Clean, [Next]_vars PROVE Clean'
      OBVIOUS
    <2>1. CASE UNCHANGED vars
      BY <2>1 DEF Clean, Connected, vars, paths, files, builds, history
    <2>2. CASE \E t \in Tools : ToolOpen(t) \/ ToolCommit(t) \/ ToolClose(t) \/ ToolCrash(t)
      BY <2>2, ToolClean
    <2>3. CASE \E b \in Builders : Build(b)
      BY <2>3, BuildClean
    <2>. QED  BY <2>1, <2>2, <2>3, NextCases
  <1>3. Clean => ReadableUnlessReplacedBeneath
    BY DEF Clean, ReadableUnlessReplacedBeneath, Readable
  <1>. QED  BY <1>1, <1>2, <1>3, BaseIsKept, PTL DEF Spec
=============================================================================
