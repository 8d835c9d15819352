------------------------- MODULE RawSpecLedgerProofs -------------------------
(***************************************************************************)
(* Proofs about RawSpecLedger, for any apps, payloads, sources and syncs,  *)
(* and any bound on the clock.                                             *)
(***************************************************************************)
EXTENDS RawSpecLedger, TLAPS

-----------------------------------------------------------------------------
\* Lemmas on rows and bundles.

LEMMA TimeIsNotOpen == \A t \in Time : t # Open /\ t \in Nat
  BY LedgerConstants DEF Time, Open

LEMMA BundleType ==
    ASSUME NEW b \in Bundles
    PROVE  /\ DOMAIN b \subseteq Apps
           /\ \A a \in DOMAIN b : b[a] \in Record
           /\ b = [a \in DOMAIN b |-> b[a]]
  BY DEF Bundles

LEMMA IsBundle ==
    ASSUME NEW S \in SUBSET Apps, NEW b, b \in [S -> Record]
    PROVE  b \in Bundles
  BY DEF Bundles

LEMMA RowOfIsCurrent ==
    ASSUME NEW T, NEW a \in AppsOf(Current(T))
    PROVE  RowOf(T, a) \in Current(T) /\ RowOf(T, a).app = a
  <1>1. \E r \in Current(T) : r.app = a
    BY DEF AppsOf
  <1>. QED  BY <1>1 DEF RowOf

OnePerApp(T) == \A r, q \in Current(T) : r.app = q.app => r = q

LEMMA RowOfIsTheRow ==
    ASSUME NEW T, OnePerApp(T), NEW r \in Current(T)
    PROVE  r.app \in AppsOf(Current(T)) /\ RowOf(T, r.app) = r
  <1>1. r.app \in AppsOf(Current(T))
    BY DEF AppsOf
  <1>. QED  BY <1>1, RowOfIsCurrent DEF OnePerApp

LEMMA ClosedType ==
    ASSUME NEW T \in SUBSET Row, NEW apps, NEW t \in Time
    PROVE  Closed(T, apps, t) \in SUBSET Row
  BY DEF Closed, Row

LEMMA StoredType ==
    ASSUME NEW T \in SUBSET Row, NEW N \in SUBSET Row
    PROVE  Stored(T, N) \in SUBSET Row
  BY DEF Stored

LEMMA RowsForType ==
    ASSUME NEW b \in Bundles, NEW apps \in SUBSET DOMAIN b, NEW t \in Time
    PROVE  /\ RowsFor(b, apps, t) \in SUBSET Row
           /\ \A q \in RowsFor(b, apps, t) :
                 q.app \in apps /\ q.record = b[q.app] /\ q.from = t /\ q.to = Open
           /\ \A a \in apps : \E q \in RowsFor(b, apps, t) : q.app = a
  <1>1. \A a \in apps : a \in Apps /\ b[a] \in Record
    BY BundleType
  <1> DEFINE N == {[app |-> a, record |-> b[a], from |-> t, to |-> Open] : a \in apps}
  <1>2. RowsFor(b, apps, t) = N
    BY DEF RowsFor
  <1>3. \A q \in N : /\ q.app \in apps /\ q.record = b[q.app] /\ q.from = t /\ q.to = Open
                    /\ q \in Row
    BY <1>1 DEF Row
  <1>4. \A a \in apps : \E q \in N : q.app = a
    <2>. SUFFICES ASSUME NEW a \in apps PROVE \E q \in N : q.app = a
      OBVIOUS
    <2>1. [app |-> a, record |-> b[a], from |-> t, to |-> Open] \in N
      OBVIOUS
    <2>2. [app |-> a, record |-> b[a], from |-> t, to |-> Open].app = a
      OBVIOUS
    <2>. QED  BY <2>1, <2>2
  <1>. QED  BY <1>2, <1>3, <1>4

(* Every row of Closed(T, apps, t) is a row of T, open only if it was and  *)
(* its app is not among them, and otherwise the same.                      *)
LEMMA ClosedRows ==
    ASSUME NEW T \in SUBSET Row, NEW apps, NEW t \in Time, NEW q \in Closed(T, apps, t)
    PROVE  \E r \in T :
              /\ q = r \/ (r.to = Open /\ r.app \in apps /\ q = [r EXCEPT !.to = t])
              /\ q.app = r.app /\ q.record = r.record /\ q.from = r.from
              /\ q.to = Open => q = r /\ r.app \notin apps
              /\ q.to = r.to \/ (r.to = Open /\ q.to = t)
  <1>1. PICK r \in T : q = IF r.app \in apps /\ r.to = Open THEN [r EXCEPT !.to = t] ELSE r
    BY DEF Closed
  <1>2. CASE r.app \in apps /\ r.to = Open
    <2>1. q = [r EXCEPT !.to = t]
      BY <1>1, <1>2
    <2>2. q.app = r.app /\ q.record = r.record /\ q.from = r.from /\ q.to = t
      BY <2>1 DEF Row
    <2>. QED  BY <1>2, <2>1, <2>2, TimeIsNotOpen
  <1>3. CASE ~(r.app \in apps /\ r.to = Open)
    BY <1>1, <1>3
  <1>. QED  BY <1>2, <1>3

(* and every row of T is there still, or closed.                           *)
LEMMA ClosedKeeps ==
    ASSUME NEW T \in SUBSET Row, NEW apps, NEW t \in Time, NEW r \in T
    PROVE  \E q \in Closed(T, apps, t) :
              /\ q = r \/ (r.to = Open /\ q = [r EXCEPT !.to = t])
              /\ q.app = r.app /\ q.from = r.from
              /\ r.app \notin apps => q = r
  <1> DEFINE q == IF r.app \in apps /\ r.to = Open THEN [r EXCEPT !.to = t] ELSE r
  <1>1. q \in Closed(T, apps, t)
    BY DEF Closed
  <1>2. q.app = r.app /\ q.from = r.from
    BY DEF Row
  <1>. QED  BY <1>1, <1>2

(* Closing rows and putting new ones in for apps that were closed leaves,  *)
(* as current, the new ones and those of the other apps.                   *)
LEMMA CurrentAfter ==
    ASSUME NEW T \in SUBSET Row, NEW apps, NEW t \in Time, NEW N \in SUBSET Row,
           \A q \in N : q.app \in apps /\ q.from = t /\ q.to = Open
    PROVE  Current(Stored(Closed(T, apps, t), N))
              = N \cup {r \in Current(T) : r.app \notin apps}
  <1>1. ASSUME NEW r \in Current(Stored(Closed(T, apps, t), N)), r \notin N
        PROVE  r \in Current(T) /\ r.app \notin apps
    <2>1. r \in Closed(T, apps, t) /\ r.to = Open
      BY <1>1 DEF Current, Stored
    <2>2. PICK q \in T : q = r /\ q.to = Open /\ q.app \notin apps
      BY <2>1, ClosedRows
    <2>. QED  BY <2>2 DEF Current
  <1>2. ASSUME NEW r \in Current(T), r.app \notin apps
        PROVE  r \in Current(Stored(Closed(T, apps, t), N))
    <2>1. r \in T /\ r.to = Open
      BY DEF Current
    <2>2. r \in Closed(T, apps, t)
      BY <1>2, <2>1, ClosedKeeps
    <2>3. \A q \in N : q.app # r.app
      BY <1>2
    <2>. QED  BY <2>1, <2>2, <2>3 DEF Current, Stored
  <1>3. N \subseteq Current(Stored(Closed(T, apps, t), N))
    BY DEF Current, Stored
  <1>. QED  BY <1>1, <1>2, <1>3

-----------------------------------------------------------------------------
\* What a sync leaves: exactly the bundle it writes.

Pairs(T) == {<<r.app, r.record>> : r \in Current(T)}

Agree ==
    /\ OnePerApp(payloads) /\ OnePerApp(manifests)
    /\ Pairs(payloads) = Pairs(manifests)

LEMMA AgreeIsCurrentRowsAgree == Agree <=> CurrentRowsAgree
  BY DEF Agree, CurrentRowsAgree, OnePerApp, Pairs

LEMMA PairsOf ==
    ASSUME NEW T
    PROVE  /\ \A r \in Current(T) : <<r.app, r.record>> \in Pairs(T)
           /\ \A x \in Pairs(T) : \E r \in Current(T) : x = <<r.app, r.record>>
  BY DEF Pairs

LEMMA SameApps ==
    ASSUME NEW T, NEW U, Pairs(T) = Pairs(U)
    PROVE  AppsOf(Current(T)) = AppsOf(Current(U))
  <1>1. ASSUME NEW V, NEW W, Pairs(V) = Pairs(W), NEW a \in AppsOf(Current(V))
        PROVE  a \in AppsOf(Current(W))
    <2>1. PICK r \in Current(V) : r.app = a
      BY DEF AppsOf
    <2>2. PICK q \in Current(W) : <<r.app, r.record>> = <<q.app, q.record>>
      BY <1>1, PairsOf
    <2>. QED  BY <2>1, <2>2 DEF AppsOf
  <1>. QED  BY <1>1

(* If what is not closed agrees with b, and the new rows are b's, then the *)
(* current rows are b, one for each app.                                   *)
LEMMA AfterIsBundle ==
    ASSUME NEW T \in SUBSET Row, NEW apps, NEW t \in Time, NEW b \in Bundles,
           NEW new \in SUBSET DOMAIN b, new \subseteq apps, OnePerApp(T),
           \A r \in Current(T) : r.app \notin apps => r.app \in DOMAIN b /\ r.record = b[r.app],
           \A a \in DOMAIN b \ new : a \notin apps /\ a \in AppsOf(Current(T))
    PROVE  LET after == Stored(Closed(T, apps, t), RowsFor(b, new, t))
           IN  OnePerApp(after) /\ Pairs(after) = Graph(b)
  <1> DEFINE after == Stored(Closed(T, apps, t), RowsFor(b, new, t))
             N == RowsFor(b, new, t)
  <1>1. /\ N \in SUBSET Row
        /\ \A q \in N : /\ q.app \in new /\ q.app \in apps /\ q.record = b[q.app]
                        /\ q.from = t /\ q.to = Open
        /\ \A a \in new : \E q \in N : q.app = a
    BY RowsForType
  <1>2. Current(after) = N \cup {r \in Current(T) : r.app \notin apps}
    BY <1>1, CurrentAfter
  <1>3. \A q, r \in N : q.app = r.app => q = r
    BY DEF RowsFor
  <1>4. OnePerApp(after)
    BY <1>1, <1>2, <1>3 DEF OnePerApp
  <1>5. Pairs(after) \subseteq Graph(b)
    <2>. SUFFICES ASSUME NEW r \in Current(after) PROVE <<r.app, r.record>> \in Graph(b)
      BY PairsOf
    <2>1. r.app \in DOMAIN b /\ r.record = b[r.app]
      BY <1>1, <1>2
    <2>. QED  BY <2>1 DEF Graph
  <1>6. Graph(b) \subseteq Pairs(after)
    <2>. SUFFICES ASSUME NEW a \in DOMAIN b PROVE <<a, b[a]>> \in Pairs(after)
      BY DEF Graph
    <2>1. CASE a \in new
      <3>1. PICK q \in N : q.app = a
        BY <1>1, <2>1
      <3>2. q \in Current(after) /\ q.record = b[a]
        BY <1>1, <1>2, <3>1
      <3>. QED  BY <3>1, <3>2, PairsOf
    <2>2. CASE a \notin new
      <3>1. a \notin apps /\ RowOf(T, a) \in Current(T) /\ RowOf(T, a).app = a
        BY <2>2, RowOfIsCurrent
      <3>2. RowOf(T, a) \in Current(after) /\ RowOf(T, a).record = b[a]
        BY <1>2, <3>1
      <3>. QED  BY <3>1, <3>2, PairsOf
    <2>. QED  BY <2>1, <2>2
  <1>. QED  BY <1>4, <1>5, <1>6

LEMMA WrittenIsTheBundle ==
    ASSUME payloads \in SUBSET Row, manifests \in SUBSET Row, Agree,
           NEW b \in Bundles, NEW t \in Time, Written(b, t)
    PROVE  /\ Agree'
           /\ Pairs(payloads') = Graph(b)
  <1> DEFINE fresh == New(b) \cup Changed(b)
             ended == fresh \cup Gone(b)
  <1>1. AppsOf(Current(payloads)) = AppsOf(Current(manifests))
    BY SameApps DEF Agree
  <1>2. fresh \subseteq DOMAIN b
    BY DEF New, Changed
  <1>3. \A r \in Current(payloads) :
           r.app \notin ended => r.app \in DOMAIN b /\ r.record = b[r.app]
    <2>. SUFFICES ASSUME NEW r \in Current(payloads), r.app \notin ended
                  PROVE  r.app \in DOMAIN b /\ r.record = b[r.app]
      OBVIOUS
    <2>1. r.app \in AppsOf(Current(payloads)) /\ RowOf(payloads, r.app) = r
      BY RowOfIsTheRow DEF Agree
    <2>2. r.app \in DOMAIN b
      BY <1>1, <2>1 DEF Gone
    <2>. QED  BY <2>1, <2>2 DEF New, Changed
  <1>4. \A r \in Current(manifests) :
           r.app \notin ended => r.app \in DOMAIN b /\ r.record = b[r.app]
    <2>. SUFFICES ASSUME NEW r \in Current(manifests), r.app \notin ended
                  PROVE  r.app \in DOMAIN b /\ r.record = b[r.app]
      OBVIOUS
    <2>1. <<r.app, r.record>> \in Pairs(payloads)
      BY PairsOf DEF Agree
    <2>2. PICK p \in Current(payloads) : p.app = r.app /\ p.record = r.record
      BY <2>1, PairsOf
    <2>. QED  BY <1>3, <2>2
  <1>5. \A a \in DOMAIN b \ fresh : a \notin ended /\ a \in AppsOf(Current(payloads))
    BY DEF New, Gone
  <1>6. \A a \in DOMAIN b \ (fresh \cup Advanced(b, t)) :
           a \notin ended \cup Advanced(b, t) /\ a \in AppsOf(Current(manifests))
    BY <1>1, <1>5
  <1>7. fresh \cup Advanced(b, t) \subseteq DOMAIN b
    BY <1>2 DEF Advanced
  <1>8. OnePerApp(payloads') /\ Pairs(payloads') = Graph(b)
    <2>1. payloads' = Stored(Closed(payloads, ended, t), RowsFor(b, fresh, t))
      BY DEF Written
    <2>2. fresh \subseteq ended /\ OnePerApp(payloads)
      BY DEF Agree
    <2>. HIDE DEF fresh, ended
    <2>. QED  BY <1>2, <1>3, <1>5, <2>1, <2>2, AfterIsBundle
  <1>9. OnePerApp(manifests') /\ Pairs(manifests') = Graph(b)
    <2>1. manifests' = Stored(Closed(manifests, ended \cup Advanced(b, t), t),
                              RowsFor(b, fresh \cup Advanced(b, t), t))
      BY DEF Written
    <2>2. /\ fresh \cup Advanced(b, t) \subseteq ended \cup Advanced(b, t)
          /\ OnePerApp(manifests)
      BY DEF Agree
    <2>. HIDE DEF fresh, ended
    <2>3. \A r \in Current(manifests) : r.app \notin ended \cup Advanced(b, t) =>
             r.app \in DOMAIN b /\ r.record = b[r.app]
      BY <1>4
    <2>. QED  BY <1>6, <1>7, <2>1, <2>2, <2>3, AfterIsBundle
  <1>. QED  BY <1>8, <1>9 DEF Agree

LEMMA CurrentBundleType ==
    ASSUME manifests \in SUBSET Row
    PROVE  CurrentBundle \in Bundles
  <1>1. \A a \in AppsOf(Current(manifests)) :
           a \in Apps /\ RowOf(manifests, a).record \in Record
    <2>. SUFFICES ASSUME NEW a \in AppsOf(Current(manifests))
                  PROVE  a \in Apps /\ RowOf(manifests, a).record \in Record
      OBVIOUS
    <2>1. RowOf(manifests, a) \in Row /\ RowOf(manifests, a).app = a
      BY RowOfIsCurrent DEF Current
    <2>. QED  BY <2>1 DEF Row
  <1>2. CurrentBundle \in [AppsOf(Current(manifests)) -> Record]
    BY <1>1 DEF CurrentBundle
  <1>3. AppsOf(Current(manifests)) \in SUBSET Apps
    BY <1>1
  <1>. QED  BY <1>2, <1>3, IsBundle

LEMMA MergedType ==
    ASSUME manifests \in SUBSET Row, NEW asked \in Asked
    PROVE  Merged(asked) \in Bundles
  <1>1. asked.fetched \in Bundles
    BY DEF Asked
  <1>2. CASE asked.partial
    <2> DEFINE slugs == {a[1] : a \in DOMAIN asked.fetched}
               kept  == {a \in DOMAIN CurrentBundle : a[1] \notin slugs}
               m == [a \in kept \cup DOMAIN asked.fetched |->
                        IF a \in kept THEN CurrentBundle[a] ELSE asked.fetched[a]]
    <2>1. Merged(asked) = m
      BY <1>2 DEF Merged
    <2>2. CurrentBundle \in Bundles
      BY CurrentBundleType
    <2>3. /\ \A a \in DOMAIN CurrentBundle : a \in Apps /\ CurrentBundle[a] \in Record
          /\ \A a \in DOMAIN asked.fetched : a \in Apps /\ asked.fetched[a] \in Record
      BY <1>1, <2>2, BundleType
    <2>4. m \in [kept \cup DOMAIN asked.fetched -> Record]
      BY <2>3
    <2>5. kept \cup DOMAIN asked.fetched \in SUBSET Apps
      BY <2>3
    <2>. HIDE DEF m, kept
    <2>. QED  BY <2>1, <2>4, <2>5, IsBundle
  <1>3. CASE ~asked.partial
    BY <1>1, <1>3 DEF Merged
  <1>. QED  BY <1>2, <1>3

-----------------------------------------------------------------------------
\* Types.

LEMMA ReviewsType ==
    ASSUME payloads \in SUBSET Row, manifests \in SUBSET Row,
           NEW b \in Bundles, NEW t \in Time
    PROVE  ReviewsFor(b, t) \in SUBSET Review /\ Anew(b, t) \in SUBSET Review
  <1>1. \A a \in DOMAIN b : a \in Apps /\ b[a][1] \in Specs
    BY BundleType DEF Record
  <1>2. ASSUME NEW T \in SUBSET Row, NEW a \in AppsOf(Current(T))
        PROVE  /\ a \in Apps /\ RowOf(T, a).record[1] \in Specs
               /\ RowOf(T, a).from \in Time
    <2>1. RowOf(T, a) \in Row /\ RowOf(T, a).app = a
      BY RowOfIsCurrent DEF Current
    <2>. QED  BY <2>1 DEF Row, Record
  <1>3. ASSUME NEW a \in New(b)
        PROVE  [app |-> a, kind |-> "new", sha |-> b[a][1], previous |-> None,
                since |-> Open, from |-> t, to |-> Open] \in Review
    BY <1>1 DEF New, Review
  <1>4. ASSUME NEW a \in Changed(b)
        PROVE  [app |-> a, kind |-> "changed", sha |-> b[a][1],
                previous |-> RowOf(payloads, a).record[1],
                since |-> RowOf(payloads, a).from, from |-> t, to |-> Open] \in Review
    <2>1. a \in DOMAIN b /\ a \in AppsOf(Current(payloads))
      BY DEF Changed, New
    <2>. QED  BY <1>1, <1>2, <2>1 DEF Review
  <1>5. ASSUME NEW a \in Gone(b)
        PROVE  [app |-> a, kind |-> "removed", sha |-> None,
                previous |-> RowOf(manifests, a).record[1],
                since |-> RowOf(manifests, a).from, from |-> t, to |-> Open] \in Review
    BY <1>2 DEF Gone, Review
  <1>6. \A a \in DOMAIN b : [app |-> a, kind |-> "new", sha |-> b[a][1], previous |-> None,
                             since |-> Open, from |-> t, to |-> Open] \in Review
    BY <1>1 DEF Review
  <1>. QED  BY <1>3, <1>4, <1>5, <1>6 DEF ReviewsFor, Anew

LEMMA WrittenTypes ==
    ASSUME TypeOK, NEW b \in Bundles, NEW t \in Time, Written(b, t)
    PROVE  payloads' \cup manifests' \subseteq Row /\ reviews' \subseteq Review
  <1> DEFINE fresh == New(b) \cup Changed(b)
             ended == fresh \cup Gone(b)
  <1>1. payloads \in SUBSET Row /\ manifests \in SUBSET Row /\ reviews \in SUBSET Review
    BY DEF TypeOK
  <1>2. fresh \in SUBSET DOMAIN b /\ Advanced(b, t) \in SUBSET DOMAIN b
    BY DEF New, Changed, Advanced
  <1>3. payloads' \in SUBSET Row
    <2>1. payloads' = Stored(Closed(payloads, ended, t), RowsFor(b, fresh, t))
      BY DEF Written
    <2>. HIDE DEF fresh, ended
    <2>. QED  BY <1>1, <1>2, <2>1, ClosedType, RowsForType, StoredType
  <1>4. manifests' \in SUBSET Row
    <2>1. manifests' = Stored(Closed(manifests, ended \cup Advanced(b, t), t),
                              RowsFor(b, fresh \cup Advanced(b, t), t))
      BY DEF Written
    <2>. HIDE DEF fresh, ended
    <2>2. RowsFor(b, fresh \cup Advanced(b, t), t) \in SUBSET Row
      BY <1>2, RowsForType
    <2>. QED  BY <1>1, <2>1, <2>2, ClosedType, StoredType
  <1>5. reviews' \in SUBSET Review
    <2>1. reviews' = Opened(Closed(reviews, ended, t), ReviewsFor(b, t))
      BY DEF Written
    <2>2. Closed(reviews, ended, t) \in SUBSET Review
      BY <1>1 DEF Closed, Review
    <2>. HIDE DEF ended
    <2>. QED  BY <1>1, <2>1, <2>2, ReviewsType DEF Opened
  <1>. QED  BY <1>3, <1>4, <1>5

LEMMA EmptyType == Empty \in Bundles
  BY IsBundle DEF Empty, Bundles

LEMMA AskedType ==
    ASSUME TypeOK, NEW s \in Syncs, pc[s] # "idle"
    PROVE  /\ sync[s] \in Asked /\ sync[s] # None
           /\ sync[s].at \in Time /\ sync[s].at <= clock
           /\ bundle[s] \in Bundles
  <1>1. \A q \in Syncs : /\ sync[q] = None <=> pc[q] = "idle"
                         /\ sync[q] # None => sync[q].at <= clock
    BY DEF TypeOK
  <1>2. sync \in [Syncs -> Asked \cup {None}] /\ bundle \in [Syncs -> Bundles]
    BY DEF TypeOK
  <1>3. sync[s] \in Asked
    BY <1>1, <1>2
  <1>. QED  BY <1>1, <1>2, <1>3 DEF Asked

LEMMA EndedTypes ==
    ASSUME TypeOK, NEW s \in Syncs, pc[s] \in {"fetched", "merged"}, Ended(s), clock' = clock
    PROVE  /\ pc' \in [Syncs -> {"idle", "fetched", "merged", "done"}]
           /\ sync' \in [Syncs -> Asked \cup {None}]
           /\ \A q \in Syncs : /\ sync'[q] = None <=> pc'[q] = "idle"
                               /\ sync'[q] # None => sync'[q].at <= clock'
                               /\ sync'[q] # None => sync'[q].at = sync[q].at /\ sync[q] # None
           /\ bundle' \in [Syncs -> Bundles]
  <1>1. sync[s] \in Asked /\ sync[s].at <= clock
    BY AskedType
  <1>2. sync' = [sync EXCEPT ![s] = [sync[s] EXCEPT !.partial = FALSE, !.fetched = Empty]]
    BY DEF Ended, TypeOK
  <1> DEFINE ended == [sync[s] EXCEPT !.partial = FALSE, !.fetched = Empty]
  <1>3. ended \in Asked /\ ended.at = sync[s].at
    BY <1>1, EmptyType DEF Asked
  <1>4. ended # None
    BY <1>3, NoneIsNotAsked
  <1>. HIDE DEF ended
  <1>5. sync'[s] = ended /\ \A q \in Syncs \ {s} : sync'[q] = sync[q]
    BY <1>2 DEF TypeOK, ended
  <1>6. sync' \in [Syncs -> Asked \cup {None}]
    BY <1>2, <1>3 DEF TypeOK, ended
  <1>7. pc'[s] = "done" /\ \A q \in Syncs \ {s} : pc'[q] = pc[q]
    BY DEF Ended, TypeOK
  <1>8. /\ pc' \in [Syncs -> {"idle", "fetched", "merged", "done"}]
        /\ bundle' \in [Syncs -> Bundles]
    BY EmptyType DEF Ended, TypeOK
  <1>9. ASSUME NEW q \in Syncs
        PROVE  /\ sync'[q] = None <=> pc'[q] = "idle"
               /\ sync'[q] # None => sync'[q].at <= clock'
               /\ sync'[q] # None => sync'[q].at = sync[q].at /\ sync[q] # None
    <2>1. CASE q = s
      <3>1. sync'[q] = ended /\ pc'[q] = "done"
        BY <1>5, <1>7, <2>1
      <3>2. sync[q] # None
        BY <1>1, <2>1, NoneIsNotAsked
      <3>. QED  BY <1>1, <1>3, <1>4, <2>1, <3>1, <3>2
    <2>2. CASE q # s
      BY <1>5, <1>7, <2>2 DEF TypeOK
    <2>. QED  BY <2>1, <2>2
  <1>. QED  BY <1>6, <1>8, <1>9

LEMMA StartTypes ==
    ASSUME TypeOK, NEW s \in Syncs, Start(s)
    PROVE  TypeOK'
  <1>0. PICK apps \in SUBSET Apps, from \in Sources, partial \in BOOLEAN :
          \E spec \in [apps -> Specs] : sync' = [sync EXCEPT ![s] =
             [at |-> clock', partial |-> partial,
              fetched |-> [a \in apps |-> <<spec[a], from>>]]]
    BY DEF Start
  <1>1. PICK spec \in [apps -> Specs] : sync' = [sync EXCEPT ![s] =
             [at |-> clock', partial |-> partial,
              fetched |-> [a \in apps |-> <<spec[a], from>>]]]
    BY <1>0
  <1> DEFINE asked == [at |-> clock', partial |-> partial,
                       fetched |-> [a \in apps |-> <<spec[a], from>>]]
  <1>2. clock' \in Time /\ clock <= clock'
    BY LedgerConstants DEF Start, TypeOK, Time
  <1>3. [a \in apps |-> <<spec[a], from>>] \in Bundles
    <2>1. [a \in apps |-> <<spec[a], from>>] \in [apps -> Record]
      BY DEF Record
    <2>. QED  BY <2>1, IsBundle
  <1>4. asked \in Asked /\ asked.at = clock'
    BY <1>2, <1>3 DEF Asked
  <1>. HIDE DEF asked
  <1>5. /\ sync' \in [Syncs -> Asked \cup {None}] /\ sync'[s] = asked
        /\ \A q \in Syncs \ {s} : sync'[q] = sync[q]
    BY <1>1, <1>4 DEF TypeOK, asked
  <1>6. /\ pc' \in [Syncs -> {"idle", "fetched", "merged", "done"}] /\ pc'[s] = "fetched"
        /\ \A q \in Syncs \ {s} : pc'[q] = pc[q]
    BY DEF Start, TypeOK
  <1>7. \A q \in Syncs : /\ sync'[q] = None <=> pc'[q] = "idle"
                         /\ sync'[q] # None => sync'[q].at <= clock'
    <2>. SUFFICES ASSUME NEW q \in Syncs
                  PROVE  /\ sync'[q] = None <=> pc'[q] = "idle"
                         /\ sync'[q] # None => sync'[q].at <= clock'
      OBVIOUS
    <2>1. CASE q = s
      BY <1>2, <1>4, <1>5, <1>6, <2>1, NoneIsNotAsked, TimeIsNotOpen
    <2>2. CASE q # s
      <3>1. sync[q] # None => sync[q].at \in Nat /\ clock \in Nat /\ clock' \in Nat
        BY <1>2, TimeIsNotOpen DEF TypeOK, Asked
      <3>. QED  BY <1>2, <1>5, <1>6, <2>2, <3>1 DEF TypeOK
    <2>. QED  BY <2>1, <2>2
  <1>8. UNCHANGED <<payloads, manifests, reviews, bundle, alone, ordered, rebuilt>>
    BY DEF Start, tables, history
  <1>. QED  BY <1>2, <1>5, <1>6, <1>7, <1>8 DEF TypeOK

LEMMA TypesAreKept ==
    ASSUME TypeOK, [Next]_vars
    PROVE  TypeOK'
  <1>1. CASE UNCHANGED vars
    BY <1>1 DEF TypeOK, vars, tables, history
  <1>2. CASE Rebuild
    <2>1. manifests \in SUBSET Row
      BY DEF TypeOK
    <2>2. CurrentBundle \in Bundles
      BY <2>1, CurrentBundleType
    <2>3. PICK t \in Time :
             /\ payloads'  = RowsFor(CurrentBundle, DOMAIN CurrentBundle, t)
             /\ manifests' = RowsFor(CurrentBundle, DOMAIN CurrentBundle, t)
             /\ reviews'   = Opened(reviews, Anew(CurrentBundle, t))
      BY <1>2 DEF Rebuild
    <2>4. payloads' \cup manifests' \subseteq Row
      BY <2>2, <2>3, RowsForType
    <2>5. reviews' \subseteq Review
      BY <2>1, <2>2, <2>3, ReviewsType DEF Opened, TypeOK
    <2>. QED  BY <1>2, <2>4, <2>5 DEF Rebuild, TypeOK
  <1>3. ASSUME NEW s \in Syncs, Start(s) PROVE TypeOK'
    BY <1>3, StartTypes
  <1>4. ASSUME NEW s \in Syncs, Read(s) PROVE TypeOK'
    <2>0. pc[s] = "fetched"
      BY <1>4 DEF Read
    <2>1. sync[s] \in Asked /\ manifests \in SUBSET Row
      BY <2>0, AskedType DEF TypeOK
    <2>2. bundle' \in [Syncs -> Bundles]
      BY <1>4, <2>1, MergedType DEF Read, TypeOK
    <2>3. UNCHANGED <<clock, payloads, manifests, reviews, sync, ordered, rebuilt>>
      BY <1>4 DEF Read, tables
    <2>4. /\ pc' \in [Syncs -> {"idle", "fetched", "merged", "done"}]
          /\ \A q \in Syncs : pc'[q] = "idle" <=> pc[q] = "idle"
          /\ alone' \in [Syncs -> BOOLEAN]
      BY <1>4 DEF Read, TypeOK
    <2>. QED  BY <2>2, <2>3, <2>4 DEF TypeOK
  <1>5. ASSUME NEW s \in Syncs, Persist(s) PROVE TypeOK'
    <2>1. bundle[s] \in Bundles /\ sync[s].at \in Time
      BY <1>5, AskedType DEF Persist
    <2>2. payloads' \cup manifests' \subseteq Row /\ reviews' \subseteq Review
      BY <1>5, <2>1, WrittenTypes DEF Persist
    <2>3. ordered' \in BOOLEAN /\ alone' \in [Syncs -> BOOLEAN]
      BY <1>5 DEF Persist, TypeOK
    <2>4. /\ pc[s] \in {"fetched", "merged"} /\ Ended(s) /\ clock' = clock /\ rebuilt' = rebuilt
      BY <1>5 DEF Persist
    <2>. QED  BY <2>2, <2>3, <2>4, EndedTypes DEF TypeOK
  <1>6. ASSUME NEW s \in Syncs, Fail(s) PROVE TypeOK'
    <2>1. /\ pc[s] \in {"fetched", "merged"} /\ Ended(s)
          /\ UNCHANGED <<clock, payloads, manifests, reviews, alone, ordered, rebuilt>>
      BY <1>6 DEF Fail, tables, history
    <2>. QED  BY <2>1, EndedTypes DEF TypeOK
  <1>. QED  BY <1>1, <1>2, <1>3, <1>4, <1>5, <1>6 DEF Next

LEMMA InitTypes == Init => TypeOK
  <1>1. 1 \in Time /\ Time \subseteq Nat
    BY LedgerConstants DEF Time
  <1>. QED  BY <1>1, EmptyType DEF Init, TypeOK

(* Every value of the ledger has its type, and no sync has a time that is  *)
(* yet to come.                                                            *)
THEOREM TypeCorrect == Spec => []TypeOK
  BY InitTypes, TypesAreKept, PTL DEF Spec

-----------------------------------------------------------------------------
\* The current rows are one bundle.

LEMMA InitAgree == Init => Agree
  BY DEF Init, Agree, OnePerApp, Pairs, Current

LEMMA AnewIsTheBundle ==
    ASSUME NEW b \in Bundles, NEW t \in Time, NEW T, T = RowsFor(b, DOMAIN b, t)
    PROVE  OnePerApp(T) /\ Pairs(T) = Graph(b)
  <1>1. Current(T) = T
    BY RowsForType DEF Current
  <1>2. \A q, r \in T : q.app = r.app => q = r
    BY DEF RowsFor
  <1>3. Pairs(T) \subseteq Graph(b)
    <2>. SUFFICES ASSUME NEW r \in T PROVE <<r.app, r.record>> \in Graph(b)
      BY <1>1, PairsOf
    <2>. QED  BY RowsForType DEF Graph
  <1>4. Graph(b) \subseteq Pairs(T)
    <2>. SUFFICES ASSUME NEW a \in DOMAIN b PROVE <<a, b[a]>> \in Pairs(T)
      BY DEF Graph
    <2>1. PICK q \in T : q.app = a /\ q.record = b[a]
      BY RowsForType
    <2>. QED  BY <1>1, <2>1, PairsOf
  <1>. QED  BY <1>1, <1>2, <1>3, <1>4 DEF OnePerApp

LEMMA AgreeIsKept ==
    ASSUME TypeOK, Agree, [Next]_vars
    PROVE  Agree'
  <1>0. payloads \in SUBSET Row /\ manifests \in SUBSET Row
    BY DEF TypeOK
  <1>1. CASE Rebuild
    <2>1. PICK t \in Time :
             /\ payloads'  = RowsFor(CurrentBundle, DOMAIN CurrentBundle, t)
             /\ manifests' = RowsFor(CurrentBundle, DOMAIN CurrentBundle, t)
      BY <1>1 DEF Rebuild
    <2>. QED  BY <1>0, <2>1, CurrentBundleType, AnewIsTheBundle DEF Agree
  <1>2. ASSUME NEW s \in Syncs, Persist(s) PROVE Agree'
    <2>1. bundle[s] \in Bundles /\ sync[s].at \in Time /\ Written(bundle[s], sync[s].at)
      BY <1>2, AskedType DEF Persist
    <2>. QED  BY <1>0, <2>1, WrittenIsTheBundle
  <1>3. CASE UNCHANGED tables
    BY <1>3 DEF tables, Agree, OnePerApp, Pairs, Current
  <1>. QED  BY <1>1, <1>2, <1>3 DEF Next, vars, Start, Read, Fail

(* However syncs overlap, an app has one current payload and one current   *)
(* manifest row, or neither, and both are of one record.                   *)
THEOREM CurrentRowsAgreeHolds == Spec => []CurrentRowsAgree
  <1>1. TypeOK /\ Agree /\ [Next]_vars => Agree'
    BY AgreeIsKept
  <1>2. Agree => CurrentRowsAgree
    BY AgreeIsCurrentRowsAgree
  <1>. QED  BY <1>1, <1>2, InitAgree, TypeCorrect, PTL DEF Spec

-----------------------------------------------------------------------------
\* A partial sync.

Slugs(asked) == {a[1] : a \in DOMAIN asked.fetched}
OfOthers(x, asked) == x[1][1] \notin Slugs(asked)

(* What a sync that has merged is about to write. *)
Merges(s) ==
    /\ Graph(sync[s].fetched) \subseteq Graph(bundle[s])
    /\ \A x \in Graph(bundle[s]) : ~OfOthers(x, sync[s]) => x[1] \in DOMAIN sync[s].fetched
    /\ ~sync[s].partial => \A x \in Graph(bundle[s]) : x[1] \in DOMAIN sync[s].fetched
    /\ sync[s].partial /\ alone[s] =>
          {x \in Graph(bundle[s]) : OfOthers(x, sync[s])}
             = {x \in Pairs(payloads) : OfOthers(x, sync[s])}

Merging == \A s \in Syncs : pc[s] = "merged" => Merges(s)

LEMMA GraphOf ==
    ASSUME NEW b
    PROVE  /\ \A a \in DOMAIN b : <<a, b[a]>> \in Graph(b)
           /\ \A x \in Graph(b) : x[1] \in DOMAIN b /\ x = <<x[1], b[x[1]]>>
  BY DEF Graph

LEMMA CurrentBundleIsCurrent ==
    ASSUME Agree
    PROVE  Graph(CurrentBundle) = Pairs(payloads)
  <1>1. \A a \in AppsOf(Current(manifests)) : CurrentBundle[a] = RowOf(manifests, a).record
    BY DEF CurrentBundle
  <1>2. DOMAIN CurrentBundle = AppsOf(Current(manifests))
    BY DEF CurrentBundle
  <1>3. ASSUME NEW a \in AppsOf(Current(manifests))
        PROVE  <<a, CurrentBundle[a]>> \in Pairs(manifests)
    BY <1>1, RowOfIsCurrent, PairsOf
  <1>4. ASSUME NEW r \in Current(manifests)
        PROVE  <<r.app, r.record>> \in Graph(CurrentBundle)
    <2>1. r.app \in AppsOf(Current(manifests)) /\ RowOf(manifests, r.app) = r
      BY RowOfIsTheRow DEF Agree
    <2>. QED  BY <1>1, <1>2, <2>1, GraphOf
  <1>5. Graph(CurrentBundle) \subseteq Pairs(manifests)
    BY <1>2, <1>3 DEF Graph
  <1>6. Pairs(manifests) \subseteq Graph(CurrentBundle)
    BY <1>4, PairsOf
  <1>. QED  BY <1>5, <1>6 DEF Agree

LEMMA MergedMerges ==
    ASSUME Agree, NEW asked \in Asked
    PROVE  /\ Graph(asked.fetched) \subseteq Graph(Merged(asked))
           /\ \A x \in Graph(Merged(asked)) : ~OfOthers(x, asked) => x[1] \in DOMAIN asked.fetched
           /\ ~asked.partial => \A x \in Graph(Merged(asked)) : x[1] \in DOMAIN asked.fetched
           /\ asked.partial =>
                 {x \in Graph(Merged(asked)) : OfOthers(x, asked)}
                    = {x \in Pairs(payloads) : OfOthers(x, asked)}
  <1>1. CASE ~asked.partial
    BY <1>1, GraphOf DEF Merged
  <1>2. CASE asked.partial
    <2> DEFINE kept == {a \in DOMAIN CurrentBundle : a[1] \notin Slugs(asked)}
               m == [a \in kept \cup DOMAIN asked.fetched |->
                        IF a \in kept THEN CurrentBundle[a] ELSE asked.fetched[a]]
    <2>1. Merged(asked) = m
      BY <1>2 DEF Merged, Slugs
    <2>2. \A a \in DOMAIN asked.fetched : a[1] \in Slugs(asked) /\ a \notin kept
      BY DEF Slugs
    <2>3. /\ DOMAIN m = kept \cup DOMAIN asked.fetched
          /\ \A a \in kept : m[a] = CurrentBundle[a] /\ a[1] \notin Slugs(asked)
          /\ \A a \in DOMAIN asked.fetched : m[a] = asked.fetched[a]
      BY <2>2
    <2>4. \A a \in DOMAIN CurrentBundle : a[1] \notin Slugs(asked) => a \in kept
      OBVIOUS
    <2>5. kept \subseteq DOMAIN CurrentBundle
      OBVIOUS
    <2>. HIDE DEF m, kept
    <2>6. Graph(asked.fetched) \subseteq Graph(m)
      BY <2>3 DEF Graph
    <2>7. \A x \in Graph(m) : ~OfOthers(x, asked) => x[1] \in DOMAIN asked.fetched
      <3>. SUFFICES ASSUME NEW x \in Graph(m), ~OfOthers(x, asked)
                    PROVE  x[1] \in DOMAIN asked.fetched
        OBVIOUS
      <3>1. x[1] \in DOMAIN m /\ x[1][1] \in Slugs(asked)
        BY GraphOf DEF OfOthers
      <3>. QED  BY <2>3, <3>1
    <2>8. ASSUME NEW x, OfOthers(x, asked)
          PROVE  x \in Graph(m) <=> x \in Graph(CurrentBundle)
      <3>1. x[1][1] \notin Slugs(asked)
        BY <2>8 DEF OfOthers
      <3>2. ASSUME x \in Graph(m) PROVE x \in Graph(CurrentBundle)
        <4>1. x[1] \in DOMAIN m /\ x = <<x[1], m[x[1]]>>
          BY <3>2, GraphOf
        <4>2. x[1] \in kept
          BY <2>2, <2>3, <3>1, <4>1
        <4>3. x = <<x[1], CurrentBundle[x[1]]>> /\ x[1] \in DOMAIN CurrentBundle
          BY <2>3, <2>5, <4>1, <4>2
        <4>. QED  BY <4>3, GraphOf
      <3>3. ASSUME x \in Graph(CurrentBundle) PROVE x \in Graph(m)
        <4>1. x[1] \in DOMAIN CurrentBundle /\ x = <<x[1], CurrentBundle[x[1]]>>
          BY <3>3, GraphOf
        <4>2. x[1] \in kept /\ x[1] \in DOMAIN m /\ x = <<x[1], m[x[1]]>>
          BY <2>3, <2>4, <3>1, <4>1
        <4>. QED  BY <4>2, GraphOf
      <3>. QED  BY <3>2, <3>3
    <2>9. {x \in Graph(m) : OfOthers(x, asked)}
             = {x \in Pairs(payloads) : OfOthers(x, asked)}
      BY <2>8, CurrentBundleIsCurrent
    <2>. QED  BY <1>2, <2>1, <2>6, <2>7, <2>9
  <1>. QED  BY <1>1, <1>2 DEF Asked

LEMMA SameMerges ==
    ASSUME NEW q \in Syncs, Merges(q), sync'[q] = sync[q], bundle'[q] = bundle[q],
           alone'[q] => alone[q] /\ Pairs(payloads') = Pairs(payloads)
    PROVE  Merges(q)'
  <1>1. \A x : OfOthers(x, sync'[q]) <=> OfOthers(x, sync[q])
    BY DEF OfOthers, Slugs
  <1>. QED  BY <1>1 DEF Merges

LEMMA MergingIsKept ==
    ASSUME TypeOK, Agree, Merging, [Next]_vars
    PROVE  Merging'
  <1>1. CASE Rebuild
    BY <1>1 DEF Rebuild, Merging
  <1>2. ASSUME NEW s \in Syncs, Start(s) \/ Fail(s) PROVE Merging'
    <2>1. /\ UNCHANGED <<payloads, alone>>
          /\ pc'[s] # "merged"
          /\ \A q \in Syncs \ {s} : pc'[q] = pc[q] /\ sync'[q] = sync[q] /\ bundle'[q] = bundle[q]
      <3>1. CASE Start(s)
        <4>1. pc'[s] # "merged" /\ \A q \in Syncs \ {s} : pc'[q] = pc[q]
          BY <3>1 DEF Start, TypeOK
        <4>2. \A q \in Syncs \ {s} : sync'[q] = sync[q]
          BY <3>1 DEF Start, TypeOK
        <4>. QED  BY <3>1, <4>1, <4>2 DEF Start, tables, history
      <3>2. CASE Fail(s)
        BY <3>2 DEF Fail, Ended, TypeOK, tables, history
      <3>. QED  BY <1>2, <3>1, <3>2
    <2>2. Pairs(payloads') = Pairs(payloads)
      BY <2>1 DEF Pairs, Current
    <2>3. ASSUME NEW q \in Syncs, pc'[q] = "merged" PROVE Merges(q)'
      BY <2>1, <2>2, <2>3, SameMerges DEF Merging
    <2>. QED  BY <2>3 DEF Merging
  <1>3. ASSUME NEW s \in Syncs, Read(s) PROVE Merging'
    <2>1. /\ sync[s] \in Asked
          /\ UNCHANGED <<payloads, manifests, sync>>
          /\ \A q \in Syncs \ {s} : pc'[q] = pc[q] /\ alone'[q] = alone[q] /\ bundle'[q] = bundle[q]
      BY <1>3, AskedType DEF Read, TypeOK, tables
    <2>2. Pairs(payloads') = Pairs(payloads)
      BY <2>1 DEF Pairs, Current
    <2>3. bundle'[s] = Merged(sync[s]) /\ sync'[s] = sync[s]
      BY <1>3 DEF Read, TypeOK
    <2>4. Merges(s)'
      <3>1. \A x : OfOthers(x, sync'[s]) <=> OfOthers(x, sync[s])
        BY <2>3 DEF OfOthers, Slugs
      <3>. QED  BY <2>1, <2>2, <2>3, <3>1, MergedMerges DEF Merges
    <2>5. ASSUME NEW q \in Syncs, pc'[q] = "merged" PROVE Merges(q)'
      BY <2>1, <2>2, <2>4, <2>5, SameMerges DEF Merging
    <2>. QED  BY <2>5 DEF Merging
  <1>4. ASSUME NEW s \in Syncs, Persist(s) PROVE Merging'
    <2>1. /\ pc'[s] # "merged"
          /\ \A q \in Syncs \ {s} : /\ pc'[q] = pc[q] /\ sync'[q] = sync[q]
                                    /\ bundle'[q] = bundle[q] /\ ~alone'[q]
      BY <1>4 DEF Persist, Ended, TypeOK
    <2>2. ASSUME NEW q \in Syncs, pc'[q] = "merged" PROVE Merges(q)'
      BY <2>1, <2>2, SameMerges DEF Merging
    <2>. QED  BY <2>2 DEF Merging
  <1>5. CASE UNCHANGED vars
    <2>1. UNCHANGED <<payloads, pc, sync, bundle, alone>>
      BY <1>5 DEF vars, tables, history
    <2>2. Pairs(payloads') = Pairs(payloads)
      BY <2>1 DEF Pairs, Current
    <2>3. ASSUME NEW q \in Syncs, pc'[q] = "merged" PROVE Merges(q)'
      BY <2>1, <2>2, <2>3, SameMerges DEF Merging
    <2>. QED  BY <2>3 DEF Merging
  <1>. QED  BY <1>1, <1>2, <1>3, <1>4, <1>5 DEF Next

LEMMA OnlyPersistCommits ==
    ASSUME TypeOK, [Next]_vars, NEW s \in Syncs, Commits(s)
    PROVE  Persist(s)
  <1>1. pc'[s] # pc[s] /\ tables' # tables
    BY DEF Commits
  <1>2. ASSUME NEW q \in Syncs, Persist(q) PROVE q = s
    BY <1>1, <1>2 DEF Persist, Ended, TypeOK
  <1>3. ~Rebuild /\ vars' # vars
    BY <1>1 DEF Rebuild, vars
  <1>4. PICK q \in Syncs : Start(q) \/ Read(q) \/ Persist(q) \/ Fail(q)
    BY <1>3 DEF Next
  <1>5. Persist(q)
    BY <1>1, <1>4 DEF Start, Read, Fail
  <1>. QED  BY <1>2, <1>5

LEMMA CommitKeepsTheRest ==
    ASSUME TypeOK, Agree, Merging, NEW s \in Syncs, Persist(s)
    PROVE  KeepsTheRest(s)
  <1> DEFINE now  == {<<r.app, r.record>> : r \in Current(payloads')}
             then == {<<r.app, r.record>> : r \in Current(payloads)}
             slugs == {a[1] : a \in DOMAIN sync[s].fetched}
  <1>1. Merges(s)
    BY DEF Merging, Persist
  <1>2. payloads \in SUBSET Row /\ manifests \in SUBSET Row
    BY DEF TypeOK
  <1>3. bundle[s] \in Bundles /\ sync[s].at \in Time /\ Written(bundle[s], sync[s].at)
    BY AskedType DEF Persist
  <1>4. Pairs(payloads') = Graph(bundle[s])
    BY <1>2, <1>3, WrittenIsTheBundle
  <1>5. now = Graph(bundle[s]) /\ then = Pairs(payloads)
    BY <1>4 DEF Pairs
  <1>6. \A x : OfOthers(x, sync[s]) <=> x[1][1] \notin slugs
    BY DEF OfOthers, Slugs
  <1>7. {<<a, sync[s].fetched[a]>> : a \in DOMAIN sync[s].fetched} \subseteq now
    BY <1>1, <1>5 DEF Merges, Graph
  <1>8. \A x \in now : x[1][1] \in slugs => x[1] \in DOMAIN sync[s].fetched
    BY <1>1, <1>5, <1>6 DEF Merges
  <1>9. ASSUME ~sync[s].partial, NEW r \in Current(payloads')
        PROVE  r.app \in DOMAIN sync[s].fetched
    <2>1. <<r.app, r.record>> \in now
      OBVIOUS
    <2>. QED  BY <1>1, <1>5, <1>9, <2>1 DEF Merges
  <1>10. sync[s].partial /\ alone[s] =>
            {x \in now : x[1][1] \notin slugs} = {x \in then : x[1][1] \notin slugs}
    BY <1>1, <1>5, <1>6 DEF Merges
  <1>. QED  BY <1>7, <1>8, <1>9, <1>10 DEF KeepsTheRest, AppsOf

(* A full sync leaves what it fetched, and a partial one that nobody       *)
(* overtook changes nothing of the slugs it was not asked for.             *)
THEOREM PartialSyncKeepsTheRestHolds == Spec => PartialSyncKeepsTheRest
  <1> DEFINE Inv == TypeOK /\ Agree /\ Merging
  <1>1. Init => Inv
    BY InitTypes, InitAgree DEF Init, Merging
  <1>2. Inv /\ [Next]_vars => Inv'
    BY TypesAreKept, AgreeIsKept, MergingIsKept
  <1>3. Inv /\ [Next]_vars => [\A s \in Syncs : Commits(s) => KeepsTheRest(s)]_vars
    BY OnlyPersistCommits, CommitKeepsTheRest
  <1>. QED  BY <1>1, <1>2, <1>3, PTL DEF Spec, PartialSyncKeepsTheRest

-----------------------------------------------------------------------------
\* The times of the rows, and the history.

(* The time t is that of a sync that is done.                              *)
Spent(t) == \E q \in Syncs : pc[q] = "done" /\ sync[q].at = t

Times ==
    \A r \in payloads \cup manifests : Spent(r.from) /\ (r.to = Open \/ Spent(r.to))

LEMMA DoneStaysDone ==
    ASSUME TypeOK, [Next]_vars, NEW t, Spent(t)
    PROVE  Spent(t)'
  <1>1. PICK q \in Syncs : pc[q] = "done" /\ sync[q].at = t
    BY DEF Spent
  <1>2. CASE UNCHANGED <<pc, sync>>
    BY <1>1, <1>2 DEF Spent
  <1>3. ASSUME NEW s \in Syncs, Start(s) \/ Read(s) \/ Persist(s) \/ Fail(s)
        PROVE  pc'[q] = "done" /\ sync'[q] = sync[q]
    <2>1. pc[s] # "done" /\ q # s
      BY <1>1, <1>3 DEF Start, Read, Persist, Fail
    <2>2. CASE Start(s)
      BY <1>1, <2>1, <2>2 DEF Start, TypeOK
    <2>3. CASE Read(s)
      BY <1>1, <2>1, <2>3 DEF Read, TypeOK
    <2>4. CASE Persist(s) \/ Fail(s)
      BY <1>1, <2>1, <2>4 DEF Persist, Fail, Ended, TypeOK
    <2>. QED  BY <1>3, <2>2, <2>3, <2>4
  <1>. QED  BY <1>1, <1>2, <1>3 DEF Next, Rebuild, vars, Spent

(* What a commit leaves of a table: new rows of its own time, one for each *)
(* of the apps it closes, and the old rows, closed or not.                 *)
LEMMA RowsAfter ==
    ASSUME NEW T \in SUBSET Row, NEW apps, NEW t \in Time, NEW N,
           NEW r \in Stored(Closed(T, apps, t), N)
    PROVE  r \in N \/ r \in Closed(T, apps, t)
  BY DEF Stored

(* How Written writes one of the two tables.                               *)
Wrote(T, after, b, t) ==
    \E apps, new \in SUBSET Apps :
       /\ new \subseteq apps /\ new \subseteq DOMAIN b
       /\ after = Stored(Closed(T, apps, t), RowsFor(b, new, t))

LEMMA WrittenWrote ==
    ASSUME TypeOK, NEW b \in Bundles, NEW t \in Time, Written(b, t)
    PROVE  Wrote(payloads, payloads', b, t) /\ Wrote(manifests, manifests', b, t)
  <1> DEFINE fresh == New(b) \cup Changed(b)
             ended == fresh \cup Gone(b)
  <1>1. fresh \subseteq DOMAIN b /\ Advanced(b, t) \subseteq DOMAIN b /\ DOMAIN b \subseteq Apps
    BY BundleType DEF New, Changed, Advanced
  <1>2. Gone(b) \subseteq Apps
    BY DEF Gone, AppsOf, Current, TypeOK, Row
  <1>3. /\ payloads' = Stored(Closed(payloads, ended, t), RowsFor(b, fresh, t))
        /\ manifests' = Stored(Closed(manifests, ended \cup Advanced(b, t), t),
                               RowsFor(b, fresh \cup Advanced(b, t), t))
    BY DEF Written
  <1>4. /\ fresh \subseteq ended
        /\ fresh \cup Advanced(b, t) \subseteq ended \cup Advanced(b, t)
    OBVIOUS
  <1>5. /\ fresh \in SUBSET Apps /\ ended \in SUBSET Apps
        /\ fresh \cup Advanced(b, t) \in SUBSET Apps
        /\ ended \cup Advanced(b, t) \in SUBSET Apps
        /\ fresh \cup Advanced(b, t) \subseteq DOMAIN b
    BY <1>1, <1>2
  <1>. HIDE DEF fresh, ended
  <1>. QED  BY <1>1, <1>3, <1>4, <1>5 DEF Wrote

LEMMA TimesAfter ==
    ASSUME NEW T \in SUBSET Row, NEW after, NEW b \in Bundles, NEW t \in Time,
           Wrote(T, after, b, t), NEW r \in after
    PROVE  \/ r.from = t /\ r.to = Open
           \/ \E q \in T : r.from = q.from /\ (r.to = q.to \/ r.to = t)
  <1>1. PICK apps, new \in SUBSET Apps :
           /\ new \subseteq DOMAIN b
           /\ after = Stored(Closed(T, apps, t), RowsFor(b, new, t))
    BY DEF Wrote
  <1>2. CASE r \in RowsFor(b, new, t)
    BY <1>1, <1>2, RowsForType
  <1>3. CASE r \in Closed(T, apps, t)
    BY <1>3, ClosedRows
  <1>. QED  BY <1>1, <1>2, <1>3, RowsAfter

LEMMA TimesAreKept ==
    ASSUME TypeOK, Times, [Next]_vars
    PROVE  Times'
  <1>0. payloads \in SUBSET Row /\ manifests \in SUBSET Row
    BY DEF TypeOK
  <1>1. CASE Rebuild
    <2>1. PICK t \in Time :
             /\ \E r \in Current(manifests) : r.from = t
             /\ payloads'  = RowsFor(CurrentBundle, DOMAIN CurrentBundle, t)
             /\ manifests' = RowsFor(CurrentBundle, DOMAIN CurrentBundle, t)
      BY <1>1 DEF Rebuild
    <2>2. Spent(t)'
      BY <2>1, DoneStaysDone DEF Times, Current
    <2>3. \A r \in payloads' \cup manifests' : r.from = t /\ r.to = Open
      BY <1>0, <2>1, CurrentBundleType, RowsForType
    <2>. QED  BY <2>2, <2>3 DEF Times
  <1>2. ASSUME NEW s \in Syncs, Persist(s) PROVE Times'
    <2>1. bundle[s] \in Bundles /\ \E t \in Time : t = sync[s].at /\ Written(bundle[s], t)
      BY <1>2, AskedType DEF Persist
    <2>0. PICK t \in Time : t = sync[s].at /\ Written(bundle[s], t)
      BY <2>1
    <2>2. Spent(t)'
      <3>1. pc'[s] = "done"
        BY <1>2 DEF Persist, Ended, TypeOK
      <3>2. sync'[s] # None /\ sync'[s].at = t
        BY <1>2, <2>0, <3>1, EndedTypes DEF Persist
      <3>. QED  BY <3>1, <3>2 DEF Spent
    <2>3. Wrote(payloads, payloads', bundle[s], t) /\ Wrote(manifests, manifests', bundle[s], t)
      BY <2>0, <2>1, WrittenWrote
    <2>4. ASSUME NEW r \in payloads' \cup manifests'
          PROVE  Spent(r.from)' /\ (r.to = Open \/ Spent(r.to)')
      <3>1. \/ r.from = t /\ r.to = Open
            \/ \E q \in payloads \cup manifests :
                  r.from = q.from /\ (r.to = q.to \/ r.to = t)
        BY <1>0, <2>1, <2>3, TimesAfter
      <3>. QED  BY <2>2, <3>1, DoneStaysDone DEF Times
    <2>. QED  BY <2>4 DEF Times
  <1>3. CASE UNCHANGED tables
    BY <1>3, DoneStaysDone DEF tables, Times
  <1>. QED  BY <1>1, <1>2, <1>3 DEF Next, vars, Start, Read, Fail

LEMMA CommitKeepsRows ==
    ASSUME TypeOK, Times, OneTimeEach, NEW s \in Syncs, Persist(s), NEW r \in payloads
    PROVE  \E q \in payloads' : q = r \/ (r.to = Open /\ q = [r EXCEPT !.to = sync[s].at])
  <1> DEFINE b == bundle[s]
             t == sync[s].at
  <1>1. payloads \in SUBSET Row /\ b \in Bundles /\ t \in Time /\ Written(b, t)
    BY AskedType DEF TypeOK, Persist
  <1>2. PICK apps, new \in SUBSET Apps :
           /\ new \subseteq DOMAIN b
           /\ payloads' = Stored(Closed(payloads, apps, t), RowsFor(b, new, t))
    BY <1>1, WrittenWrote DEF Wrote
  <1>3. PICK q \in Closed(payloads, apps, t) :
           (q = r \/ (r.to = Open /\ q = [r EXCEPT !.to = t])) /\ q.from = r.from
    BY <1>1, ClosedKeeps
  <1>4. r.from # t
    <2>1. PICK p \in Syncs : pc[p] = "done" /\ sync[p].at = r.from
      BY DEF Times, Spent
    <2>2. p # s /\ sync[p] # None /\ sync[s] # None
      BY <2>1, AskedType DEF Persist
    <2>. QED  BY <2>1, <2>2 DEF OneTimeEach
  <1>5. \A n \in RowsFor(b, new, t) : n.from = t
    BY <1>1, <1>2, RowsForType
  <1>6. q \in payloads'
    BY <1>2, <1>3, <1>4, <1>5 DEF Stored
  <1>. QED  BY <1>3, <1>6

(* A sync that has its generated_at_utc to itself deletes no payload row:  *)
(* each is there after its commit, as it was or closed at its time.        *)
THEOREM HistoryIsKeptHolds == Spec => HistoryIsKept
  <1>1. Init => Times
    BY DEF Init, Times
  <1>2. TypeOK /\ Times /\ [Next]_vars => Times'
    BY TimesAreKept
  <1>3. TypeOK /\ Times /\ [Next]_vars =>
           [\A s \in Syncs : Commits(s) /\ OneTimeEach =>
              \A r \in payloads : \E q \in payloads' :
                 q = r \/ (r.to = Open /\ q = [r EXCEPT !.to = sync[s].at])]_vars
    BY OnlyPersistCommits, CommitKeepsRows
  <1>. QED  BY <1>1, <1>2, <1>3, TypeCorrect, PTL DEF Spec, HistoryIsKept

-----------------------------------------------------------------------------
\* The timeline of an app.

(* Row r is over before row q begins.                                      *)
Precedes(r, q) == r.to # Open /\ r.to <= q.from

Disjoint(T) ==
    \A r \in T :
       /\ r.to # Open => r.from <= r.to
       /\ \A q \in T : r.app # q.app \/ r = q \/ Precedes(r, q) \/ Precedes(q, r)

(* Every time in T is before t.                                            *)
AllBefore(T, t) == \A r \in T : r.from < t /\ (r.to # Open => r.to < t)

Timeline == ordered => Disjoint(payloads) /\ Disjoint(manifests)

LEMMA RowTimes ==
    ASSUME NEW r \in Row
    PROVE  r.from \in Nat /\ r.to \in Nat /\ (r.to # Open => r.to \in Time)
  BY TimeIsNotOpen DEF Row, Open

LEMMA DisjointAfter ==
    ASSUME NEW T \in SUBSET Row, NEW after, NEW b \in Bundles, NEW t \in Time,
           Disjoint(T), Wrote(T, after, b, t),
           AllBefore(T, t)
    PROVE  Disjoint(after)
  <1>1. PICK apps, new \in SUBSET Apps :
           /\ new \subseteq apps /\ new \subseteq DOMAIN b
           /\ after = Stored(Closed(T, apps, t), RowsFor(b, new, t))
    BY DEF Wrote
  <1> DEFINE N == RowsFor(b, new, t)
  <1>2. \A n \in N : n.app \in apps /\ n.from = t /\ n.to = Open
    BY <1>1, RowsForType
  <1>3. \A n, m \in N : n.app = m.app => n = m
    BY DEF RowsFor
  <1>4. \A r \in after : r \in N \/ r \in Closed(T, apps, t)
    BY <1>1, RowsAfter
  <1>5. t \in Nat /\ t # Open
    BY TimeIsNotOpen
  <1>. HIDE DEF N
  <1>6. ASSUME NEW r \in Closed(T, apps, t)
        PROVE  r.to # Open => r.from <= r.to
    <2>1. PICK o \in T : r.from = o.from /\ (r.to = o.to \/ r.to = t)
      BY ClosedRows
    <2>. QED  BY <1>5, <2>1, RowTimes DEF Disjoint, AllBefore
  <1>7. ASSUME NEW n \in N, NEW r \in Closed(T, apps, t), n.app = r.app
        PROVE  Precedes(r, n)
    <2>1. PICK o \in T : /\ r.app = o.app
                         /\ r.to = Open => r.app \notin apps
                         /\ r.to = o.to \/ r.to = t
      BY ClosedRows
    <2>2. r.to # Open /\ n.from = t
      BY <1>2, <1>7, <2>1
    <2>. QED  BY <1>5, <2>1, <2>2, RowTimes DEF Precedes, AllBefore
  <1>8. ASSUME NEW r \in Closed(T, apps, t), NEW q \in Closed(T, apps, t), r.app = q.app
        PROVE  r = q \/ Precedes(r, q) \/ Precedes(q, r)
    <2>1. PICK o \in T : /\ r = o \/ (o.to = Open /\ o.app \in apps /\ r = [o EXCEPT !.to = t])
                         /\ r.app = o.app /\ r.from = o.from
                         /\ r.to = Open => r = o /\ o.app \notin apps
                         /\ r.to = o.to \/ (o.to = Open /\ r.to = t)
      BY ClosedRows
    <2>2. PICK p \in T : /\ q = p \/ (p.to = Open /\ p.app \in apps /\ q = [p EXCEPT !.to = t])
                         /\ q.app = p.app /\ q.from = p.from
                         /\ q.to = Open => q = p /\ p.app \notin apps
                         /\ q.to = p.to \/ (p.to = Open /\ q.to = t)
      BY ClosedRows
    <2>3. CASE o = p
      BY <2>1, <2>2, <2>3
    <2>4. CASE o # p
      <3>1. Precedes(o, p) \/ Precedes(p, o)
        BY <1>8, <2>1, <2>2, <2>4 DEF Disjoint
      <3>. QED  BY <2>1, <2>2, <3>1 DEF Precedes
    <2>. QED  BY <2>3, <2>4
  <1>9. ASSUME NEW r \in after
        PROVE  r.to # Open => r.from <= r.to
    BY <1>2, <1>4, <1>6
  <1>10. ASSUME NEW r \in after, NEW q \in after, r.app = q.app
         PROVE  r = q \/ Precedes(r, q) \/ Precedes(q, r)
    BY <1>3, <1>4, <1>7, <1>8, <1>10
  <1>. QED  BY <1>9, <1>10 DEF Disjoint

LEMMA TimelineIsKept ==
    ASSUME TypeOK, Times, Timeline, [Next]_vars
    PROVE  Timeline'
  <1>0. payloads \in SUBSET Row /\ manifests \in SUBSET Row
    BY DEF TypeOK
  <1>1. CASE Rebuild
    <2>1. PICK t \in Time :
             /\ payloads'  = RowsFor(CurrentBundle, DOMAIN CurrentBundle, t)
             /\ manifests' = RowsFor(CurrentBundle, DOMAIN CurrentBundle, t)
      BY <1>1 DEF Rebuild
    <2>2. \A r \in payloads' : r.to = Open
      BY <1>0, <2>1, CurrentBundleType, RowsForType
    <2>3. \A r, q \in payloads' : r.app = q.app => r = q
      BY <2>1 DEF RowsFor
    <2>. QED  BY <2>1, <2>2, <2>3 DEF Disjoint, Timeline
  <1>2. ASSUME NEW s \in Syncs, Persist(s), ordered' PROVE Disjoint(payloads') /\ Disjoint(manifests')
    <2>1. bundle[s] \in Bundles /\ \E t \in Time : t = sync[s].at /\ Written(bundle[s], t)
      BY <1>2, AskedType DEF Persist
    <2>2. PICK t \in Time : t = sync[s].at /\ Written(bundle[s], t)
      BY <2>1
    <2>3. ordered /\ InOrder(t)
      BY <1>2, <2>2 DEF Persist, TypeOK
    <2>4. AllBefore(payloads, t) /\ AllBefore(manifests, t)
      BY <2>3 DEF Times, Spent, InOrder, AllBefore
    <2>5. Wrote(payloads, payloads', bundle[s], t) /\ Wrote(manifests, manifests', bundle[s], t)
      BY <2>1, <2>2, WrittenWrote
    <2>6. Disjoint(payloads) /\ Disjoint(manifests)
      BY <2>3 DEF Timeline
    <2>. QED  BY <1>0, <2>1, <2>4, <2>5, <2>6, DisjointAfter
  <1>3. CASE UNCHANGED <<tables, ordered>>
    BY <1>3 DEF tables, Timeline, Disjoint
  <1>. QED  BY <1>1, <1>2, <1>3 DEF Next, vars, history, Start, Read, Fail, Timeline

(* While syncs commit in the order of their times, the rows of an app      *)
(* follow one another in time, in both tables.                             *)
THEOREM TimelineIsDisjointHolds == Spec => []TimelineIsDisjoint
  <1>1. Init => Times /\ Timeline
    BY DEF Init, Times, Timeline, Disjoint
  <1>2. TypeOK /\ Times /\ Timeline /\ [Next]_vars => Times' /\ Timeline'
    BY TimesAreKept, TimelineIsKept
  <1>3. Timeline => TimelineIsDisjoint
    BY DEF Timeline, Disjoint, Precedes, TimelineIsDisjoint
  <1>. QED  BY <1>1, <1>2, <1>3, TypeCorrect, PTL DEF Spec

-----------------------------------------------------------------------------
\* The reviews.

ReviewedAt(T) == \A r \in T : Spent(r.from)

Pending(a) == \E r \in Current(reviews) : r.app = a

Matching ==
    /\ \A p \in Current(payloads) : \E r \in Current(reviews) :
          r.app = p.app /\ r.sha = p.record[1]
    /\ \A r \in reviews : Pending(r.app)
    /\ \A r \in Current(reviews) :
          r.kind = "removed" <=> r.app \notin AppsOf(Current(payloads))
    /\ ~rebuilt => \A r, q \in Current(reviews) : r.app = q.app => r = q

Reviewed == ReviewedAt(reviews) /\ (OneTimeEach => Matching)

LEMMA ReviewsAre ==
    ASSUME NEW b \in Bundles, NEW t \in Time
    PROVE  /\ \A r \in ReviewsFor(b, t) :
                 /\ r.from = t /\ r.to = Open
                 /\ r.app \in New(b) \cup Changed(b) \cup Gone(b)
                 /\ r.kind = "removed" <=> r.app \notin DOMAIN b
                 /\ r.app \in DOMAIN b => r.sha = b[r.app][1]
           /\ \A a \in New(b) \cup Changed(b) \cup Gone(b) :
                 \E r \in ReviewsFor(b, t) : r.app = a
           /\ \A r, q \in ReviewsFor(b, t) : r.app = q.app => r = q
  <1> DEFINE OfNew(a) == [app |-> a, kind |-> "new", sha |-> b[a][1], previous |-> None,
                          since |-> Open, from |-> t, to |-> Open]
             OfChanged(a) == [app |-> a, kind |-> "changed", sha |-> b[a][1],
                              previous |-> RowOf(payloads, a).record[1],
                              since |-> RowOf(payloads, a).from, from |-> t, to |-> Open]
             OfGone(a) == [app |-> a, kind |-> "removed", sha |-> None,
                           previous |-> RowOf(manifests, a).record[1],
                           since |-> RowOf(manifests, a).from, from |-> t, to |-> Open]
             Is(r) == \/ r.app \in New(b) /\ r = OfNew(r.app)
                      \/ r.app \in Changed(b) /\ r = OfChanged(r.app)
                      \/ r.app \in Gone(b) /\ r = OfGone(r.app)
  <1>1. \A r \in ReviewsFor(b, t) : Is(r)
    BY DEF ReviewsFor
  <1>2. /\ New(b) \subseteq DOMAIN b /\ Changed(b) \subseteq DOMAIN b
        /\ Changed(b) \cap New(b) = {} /\ Gone(b) \cap DOMAIN b = {}
    BY DEF New, Changed, Gone
  <1>3. ASSUME NEW r, Is(r)
        PROVE  /\ r.from = t /\ r.to = Open
               /\ r.app \in New(b) \cup Changed(b) \cup Gone(b)
               /\ r.kind = "removed" <=> r.app \notin DOMAIN b
               /\ r.app \in DOMAIN b => r.sha = b[r.app][1]
    <2>1. CASE r.app \in New(b) /\ r = OfNew(r.app)
      <3>1. r.from = t /\ r.to = Open /\ r.kind = "new" /\ r.sha = b[r.app][1]
        BY <2>1
      <3>. QED  BY <1>2, <2>1, <3>1
    <2>2. CASE r.app \in Changed(b) /\ r = OfChanged(r.app)
      <3>1. r.from = t /\ r.to = Open /\ r.kind = "changed" /\ r.sha = b[r.app][1]
        BY <2>2
      <3>. QED  BY <1>2, <2>2, <3>1
    <2>3. CASE r.app \in Gone(b) /\ r = OfGone(r.app)
      <3>1. r.from = t /\ r.to = Open /\ r.kind = "removed"
        BY <2>3
      <3>. QED  BY <1>2, <2>3, <3>1
    <2>. QED  BY <1>3, <2>1, <2>2, <2>3
  <1>4. ASSUME NEW r, NEW q, Is(r), Is(q), r.app = q.app
        PROVE  r = q
    BY <1>2, <1>4
  <1>5. ASSUME NEW a \in New(b) \cup Changed(b) \cup Gone(b)
        PROVE  \E r \in ReviewsFor(b, t) : r.app = a
    <2>1. CASE a \in New(b)
      <3>1. OfNew(a) \in ReviewsFor(b, t) /\ OfNew(a).app = a
        BY <2>1 DEF ReviewsFor
      <3>. QED  BY <3>1
    <2>2. CASE a \in Changed(b)
      <3>1. OfChanged(a) \in ReviewsFor(b, t) /\ OfChanged(a).app = a
        BY <2>2 DEF ReviewsFor
      <3>. QED  BY <3>1
    <2>3. CASE a \in Gone(b)
      <3>1. OfGone(a) \in ReviewsFor(b, t) /\ OfGone(a).app = a
        BY <2>3 DEF ReviewsFor
      <3>. QED  BY <3>1
    <2>. QED  BY <2>1, <2>2, <2>3
  <1>. HIDE DEF Is
  <1>. QED  BY <1>1, <1>3, <1>4, <1>5

LEMMA ClosedReviews ==
    ASSUME NEW T \in SUBSET Review, NEW apps, NEW t \in Time
    PROVE  /\ \A q \in Closed(T, apps, t) : \E r \in T :
                 /\ q.app = r.app /\ q.from = r.from
                 /\ q.to = Open => q = r /\ r \in Current(T) /\ r.app \notin apps
           /\ \A r \in Current(T) : r.app \notin apps => r \in Current(Closed(T, apps, t))
  <1>1. ASSUME NEW q \in Closed(T, apps, t)
        PROVE  \E r \in T : /\ q.app = r.app /\ q.from = r.from
                            /\ q.to = Open => q = r /\ r \in Current(T) /\ r.app \notin apps
    <2>1. PICK r \in T : q = IF r.app \in apps /\ r.to = Open THEN [r EXCEPT !.to = t] ELSE r
      BY DEF Closed
    <2>2. CASE r.app \in apps /\ r.to = Open
      <3>1. q = [r EXCEPT !.to = t]
        BY <2>1, <2>2
      <3>2. q.app = r.app /\ q.from = r.from /\ q.to = t
        BY <3>1 DEF Review
      <3>. QED  BY <3>2, TimeIsNotOpen
    <2>3. CASE ~(r.app \in apps /\ r.to = Open)
      BY <2>1, <2>3 DEF Current
    <2>. QED  BY <2>2, <2>3
  <1>2. ASSUME NEW r \in Current(T), r.app \notin apps
        PROVE  r \in Current(Closed(T, apps, t))
    BY <1>2 DEF Closed, Current
  <1>. QED  BY <1>1, <1>2

LEMMA CommitMatches ==
    ASSUME TypeOK, Agree, ReviewedAt(reviews), OneTimeEach, Matching,
           NEW s \in Syncs, Persist(s)
    PROVE  Matching'
  <1>0. bundle[s] \in Bundles /\ \E t \in Time : t = sync[s].at /\ Written(bundle[s], t)
    BY AskedType DEF Persist
  <1>1. PICK t \in Time : t = sync[s].at /\ Written(bundle[s], t)
    BY <1>0
  <1>2. PICK b \in Bundles : b = bundle[s]
    BY <1>0
  <1> DEFINE ended == New(b) \cup Changed(b) \cup Gone(b)
             R == ReviewsFor(b, t)
             C == Closed(reviews, ended, t)
  <1>3. /\ payloads \in SUBSET Row /\ manifests \in SUBSET Row
        /\ reviews \in SUBSET Review /\ Written(b, t)
    BY <1>1, <1>2 DEF TypeOK
  <1>4. Pairs(payloads') = Graph(b)
    BY <1>3, WrittenIsTheBundle
  <1>5. /\ \A p \in Current(payloads') : p.app \in DOMAIN b /\ p.record = b[p.app]
        /\ DOMAIN b = AppsOf(Current(payloads'))
    <2>1. ASSUME NEW p \in Current(payloads') PROVE p.app \in DOMAIN b /\ p.record = b[p.app]
      <3>1. <<p.app, p.record>> \in Graph(b)
        BY <1>4, PairsOf
      <3>. QED  BY <3>1, GraphOf
    <2>2. ASSUME NEW a \in DOMAIN b PROVE a \in AppsOf(Current(payloads'))
      <3>1. <<a, b[a]>> \in Pairs(payloads')
        BY <1>4, GraphOf
      <3>. QED  BY <3>1, PairsOf DEF AppsOf
    <2>3. AppsOf(Current(payloads')) \subseteq DOMAIN b
      BY <2>1 DEF AppsOf
    <2>. QED  BY <2>1, <2>2, <2>3
  <1>6. \A q \in C : q.from # t
    <2>. SUFFICES ASSUME NEW q \in C PROVE q.from # t
      OBVIOUS
    <2>1. PICK r \in reviews : q.from = r.from
      BY <1>3, ClosedReviews
    <2>2. PICK p \in Syncs : pc[p] = "done" /\ sync[p].at = r.from
      BY DEF ReviewedAt, Spent
    <2>3. p # s /\ sync[p] # None /\ sync[s] # None
      BY <2>2, AskedType DEF Persist
    <2>. QED  BY <1>1, <2>1, <2>2, <2>3 DEF OneTimeEach
  <1>7. reviews' = C \cup R
    <2>1. reviews' = Opened(C, R)
      BY <1>3 DEF Written
    <2>2. \A r \in R : r.from = t
      BY ReviewsAre
    <2>3. \A r \in R, q \in C : Id(q) # Id(r)
      BY <1>6, <2>2 DEF Id
    <2>. QED  BY <2>1, <2>3 DEF Opened
  <1>8. Current(reviews') = R \cup {r \in Current(reviews) : r.app \notin ended}
    <2>1. \A r \in R : r.to = Open
      BY ReviewsAre
    <2>2. \A q \in C : q.to = Open => q \in Current(reviews) /\ q.app \notin ended
      BY <1>3, ClosedReviews
    <2>3. \A r \in Current(reviews) : r.app \notin ended => r \in C /\ r.to = Open
      BY <1>3, ClosedReviews DEF Current
    <2>. HIDE DEF C, R, ended
    <2>. QED  BY <1>7, <2>1, <2>2, <2>3 DEF Current
  <1>9. AppsOf(Current(payloads)) = AppsOf(Current(manifests))
    BY SameApps DEF Agree
  <1>10. ASSUME NEW a, a \notin ended
         PROVE  /\ a \in DOMAIN b <=> a \in AppsOf(Current(payloads))
                /\ a \in DOMAIN b => RowOf(payloads, a).record = b[a]
    BY <1>9, <1>10 DEF New, Changed, Gone
  <1>11. /\ \A r \in R : /\ r.app \in ended
                         /\ r.kind = "removed" <=> r.app \notin DOMAIN b
                         /\ r.app \in DOMAIN b => r.sha = b[r.app][1]
         /\ \A a \in ended : \E r \in R : r.app = a
         /\ \A r, q \in R : r.app = q.app => r = q
    BY ReviewsAre
  <1>12. ASSUME NEW q \in C PROVE \E r \in reviews : q.app = r.app
    <2>. HIDE DEF ended
    <2>. QED  BY <1>3, ClosedReviews
  <1>. HIDE DEF ended, R, C
  <1>13. ASSUME NEW p \in Current(payloads')
         PROVE  \E r \in Current(reviews') : r.app = p.app /\ r.sha = p.record[1]
    <2>1. CASE p.app \in ended
      <3>1. PICK r \in R : r.app = p.app
        BY <1>11, <2>1
      <3>. QED  BY <1>5, <1>8, <1>11, <3>1
    <2>2. CASE p.app \notin ended
      <3>1. p.app \in AppsOf(Current(payloads)) /\ RowOf(payloads, p.app).record = p.record
        BY <1>5, <1>10, <2>2
      <3>2. RowOf(payloads, p.app) \in Current(payloads) /\ RowOf(payloads, p.app).app = p.app
        BY <3>1, RowOfIsCurrent
      <3>3. PICK r \in Current(reviews) : r.app = p.app /\ r.sha = p.record[1]
        BY <3>1, <3>2 DEF Matching
      <3>. QED  BY <1>8, <2>2, <3>3
    <2>. QED  BY <2>1, <2>2
  <1>14. ASSUME NEW r \in reviews' PROVE \E q \in Current(reviews') : q.app = r.app
    <2>1. CASE r.app \in ended
      BY <1>8, <1>11, <2>1
    <2>2. CASE r.app \notin ended
      <3>1. PICK o \in reviews : o.app = r.app
        BY <1>7, <1>11, <1>12, <2>2
      <3>2. PICK q \in Current(reviews) : q.app = r.app
        BY <3>1 DEF Matching, Pending
      <3>. QED  BY <1>8, <2>2, <3>2
    <2>. QED  BY <2>1, <2>2
  <1>15. ASSUME NEW r \in Current(reviews')
         PROVE  r.kind = "removed" <=> r.app \notin AppsOf(Current(payloads'))
    <2>1. CASE r \in R
      BY <1>5, <1>11, <2>1
    <2>2. CASE r \in Current(reviews) /\ r.app \notin ended
      BY <1>5, <1>10, <2>2 DEF Matching
    <2>. QED  BY <1>8, <2>1, <2>2
  <1>16. ~rebuilt' => \A r, q \in Current(reviews') : r.app = q.app => r = q
    <2>1. rebuilt' = rebuilt
      BY DEF Persist
    <2>2. ~rebuilt => \A r, q \in Current(reviews) : r.app = q.app => r = q
      BY DEF Matching
    <2>. QED  BY <1>8, <1>11, <2>1, <2>2
  <1>. QED  BY <1>13, <1>14, <1>15, <1>16 DEF Matching, Pending

LEMMA AnewAre ==
    ASSUME NEW b \in Bundles, NEW t \in Time, NEW r \in Anew(b, t)
    PROVE  r.app \in DOMAIN b /\ r.kind = "new" /\ r.from = t /\ r.to = Open
  BY DEF Anew

LEMMA RebuildMatches ==
    ASSUME TypeOK, Agree, Matching, Rebuild
    PROVE  Matching'
  <1>1. PICK t \in Time :
           /\ payloads'  = RowsFor(CurrentBundle, DOMAIN CurrentBundle, t)
           /\ reviews'   = Opened(reviews, Anew(CurrentBundle, t))
    BY DEF Rebuild
  <1>2. payloads \in SUBSET Row /\ manifests \in SUBSET Row /\ CurrentBundle \in Bundles
    BY CurrentBundleType DEF TypeOK
  <1>3. Pairs(payloads') = Pairs(payloads)
    BY <1>1, <1>2, AnewIsTheBundle, CurrentBundleIsCurrent
  <1>4. AppsOf(Current(payloads')) = AppsOf(Current(payloads))
    BY <1>3, SameApps
  <1>5. Graph(CurrentBundle) = Pairs(payloads)
    BY CurrentBundleIsCurrent
  <1>6. ASSUME NEW a \in DOMAIN CurrentBundle
        PROVE  /\ a \in AppsOf(Current(payloads))
               /\ \E r \in Current(reviews) : r.app = a
    <2>1. <<a, CurrentBundle[a]>> \in Pairs(payloads)
      BY <1>5, GraphOf
    <2>2. PICK p \in Current(payloads) : p.app = a
      BY <2>1, PairsOf
    <2>. QED  BY <2>2 DEF Matching, AppsOf
  <1>7. Current(reviews) \subseteq Current(reviews')
    BY <1>1 DEF Opened, Current
  <1>8. \A r \in reviews' : r \in reviews \/ r \in Anew(CurrentBundle, t)
    BY <1>1 DEF Opened
  <1>9. ASSUME NEW p \in Current(payloads')
        PROVE  \E r \in Current(reviews') : r.app = p.app /\ r.sha = p.record[1]
    <2>1. <<p.app, p.record>> \in Pairs(payloads)
      BY <1>3, PairsOf
    <2>2. PICK o \in Current(payloads) : <<o.app, o.record>> = <<p.app, p.record>>
      BY <2>1, PairsOf
    <2>. QED  BY <1>7, <2>2 DEF Matching
  <1>10. ASSUME NEW r \in reviews' PROVE \E q \in Current(reviews') : q.app = r.app
    <2>1. CASE r \in reviews
      BY <1>7, <2>1 DEF Matching, Pending
    <2>2. CASE r \in Anew(CurrentBundle, t)
      BY <1>2, <1>6, <1>7, <2>2, AnewAre
    <2>. QED  BY <1>8, <2>1, <2>2
  <1>11. ASSUME NEW r \in Current(reviews')
         PROVE  r.kind = "removed" <=> r.app \notin AppsOf(Current(payloads'))
    <2>1. CASE r \in reviews
      BY <1>4, <2>1 DEF Matching, Current
    <2>2. CASE r \in Anew(CurrentBundle, t)
      BY <1>2, <1>4, <1>6, <2>2, AnewAre
    <2>. QED  BY <1>8, <2>1, <2>2 DEF Current
  <1>12. rebuilt'
    BY DEF Rebuild
  <1>. QED  BY <1>9, <1>10, <1>11, <1>12 DEF Matching, Pending

(* A time that two syncs share stays shared.                               *)
LEMMA SharedStaysShared ==
    ASSUME TypeOK, [Next]_vars, OneTimeEach'
    PROVE  OneTimeEach
  <1>1. \A q \in Syncs : sync[q] # None => sync'[q] # None /\ sync'[q].at = sync[q].at
    <2>1. CASE UNCHANGED sync
      BY <2>1
    <2>2. ASSUME NEW s \in Syncs, Start(s), NEW q \in Syncs, sync[q] # None
          PROVE  sync'[q] = sync[q]
      <3>1. q # s
        BY <2>2 DEF Start, TypeOK
      <3>. QED  BY <2>2, <3>1 DEF Start, TypeOK
    <2>3. ASSUME NEW s \in Syncs, Persist(s) \/ Fail(s), NEW q \in Syncs, sync[q] # None
          PROVE  sync'[q] # None /\ sync'[q].at = sync[q].at
      <3>1. pc[s] \in {"fetched", "merged"} /\ Ended(s) /\ clock' = clock
        BY <2>3 DEF Persist, Fail
      <3>2. pc[q] # "idle"
        BY <2>3 DEF TypeOK
      <3>3. pc'[q] # "idle"
        BY <3>1, <3>2 DEF Ended, TypeOK
      <3>. QED  BY <3>1, <3>3, EndedTypes
    <2>. QED  BY <2>1, <2>2, <2>3 DEF Next, vars, Rebuild, Read
  <1>. QED  BY <1>1 DEF OneTimeEach

LEMMA ReviewedIsKept ==
    ASSUME TypeOK, Agree, Times, Reviewed, [Next]_vars
    PROVE  Reviewed'
  <1>1. CASE Rebuild
    <2>1. PICK t \in Time :
             /\ \E r \in Current(manifests) : r.from = t
             /\ reviews' = Opened(reviews, Anew(CurrentBundle, t))
      BY <1>1 DEF Rebuild
    <2>2. CurrentBundle \in Bundles
      BY CurrentBundleType DEF TypeOK
    <2>3. Spent(t)'
      BY <2>1, DoneStaysDone DEF Times, Current
    <2>4. \A r \in reviews' : r \in reviews \/ r \in Anew(CurrentBundle, t)
      BY <2>1 DEF Opened
    <2>5. ReviewedAt(reviews)'
      BY <2>2, <2>3, <2>4, AnewAre, DoneStaysDone DEF Reviewed, ReviewedAt
    <2>. QED  BY <1>1, <2>5, RebuildMatches, SharedStaysShared DEF Reviewed
  <1>2. ASSUME NEW s \in Syncs, Persist(s) PROVE Reviewed'
    <2>0. bundle[s] \in Bundles /\ \E t \in Time : t = sync[s].at /\ Written(bundle[s], t)
      BY <1>2, AskedType DEF Persist
    <2>1. PICK t \in Time : t = sync[s].at /\ Written(bundle[s], t)
      BY <2>0
    <2>2. Spent(t)'
      <3>1. pc'[s] = "done"
        BY <1>2 DEF Persist, Ended, TypeOK
      <3>2. sync'[s] # None /\ sync'[s].at = t
        BY <1>2, <2>1, <3>1, EndedTypes DEF Persist
      <3>. QED  BY <3>1, <3>2 DEF Spent
    <2>3. PICK apps : reviews' = Opened(Closed(reviews, apps, t), ReviewsFor(bundle[s], t))
      BY <2>1 DEF Written
    <2>4. ASSUME NEW r \in reviews'
          PROVE  r.from = t \/ \E q \in reviews : r.from = q.from
      <3>1. CASE r \in Closed(reviews, apps, t)
        BY <3>1, ClosedReviews DEF TypeOK
      <3>2. CASE r \in ReviewsFor(bundle[s], t)
        BY <2>0, <3>2, ReviewsAre
      <3>. QED  BY <2>3, <3>1, <3>2 DEF Opened
    <2>5. ReviewedAt(reviews)'
      BY <2>2, <2>4, DoneStaysDone DEF Reviewed, ReviewedAt
    <2>. QED  BY <1>2, <2>5, CommitMatches, SharedStaysShared DEF Reviewed
  <1>3. CASE UNCHANGED <<tables, rebuilt>>
    <2>1. ReviewedAt(reviews)'
      BY <1>3, DoneStaysDone DEF tables, Reviewed, ReviewedAt
    <2>2. Matching => Matching'
      BY <1>3 DEF tables, Matching, Pending, Current, AppsOf
    <2>. QED  BY <2>1, <2>2, SharedStaysShared DEF Reviewed
  <1>. QED  BY <1>1, <1>2, <1>3 DEF Next, vars, history, Start, Read, Fail

(* While syncs have times of their own, each current payload has a pending *)
(* review of it, and each app that is gone one of its removal.             *)
THEOREM PendingReviewsMatchHolds == Spec => []PendingReviewsMatch
  <1> DEFINE Inv == TypeOK /\ Agree /\ Times /\ Reviewed
  <1>1. Init => Inv
    <2>1. Init => Times /\ Reviewed
      BY DEF Init, Times, Reviewed, ReviewedAt, Matching, Current
    <2>. QED  BY <2>1, InitTypes, InitAgree
  <1>2. Inv /\ [Next]_vars => Inv'
    BY TypesAreKept, AgreeIsKept, TimesAreKept, ReviewedIsKept
  <1>3. Inv => PendingReviewsMatch
    BY DEF Reviewed, Matching, Pending, PendingReviewsMatch, AppsOf
  <1>. QED  BY <1>1, <1>2, <1>3, PTL DEF Spec
-----------------------------------------------------------------------------
\* The ledger as of a time, for each of the two tables.

(* Every time in T is u or earlier.                                        *)
UpTo(T, u) == \A r \in T : r.from <= u /\ (r.to # Open => r.to <= u)

(* The current manifest rows are those of the last sync.                   *)
Latest ==
    ordered => \A m \in Current(manifests) :
                  UpTo(payloads, m.from) /\ UpTo(manifests, m.from)

(* A row counts as of u when it was there already and not closed yet.      *)
LEMMA AsOfRows ==
    ASSUME NEW T, NEW u
    PROVE  /\ \A r \in T : r.from <= u /\ (r.to = Open \/ u < r.to) =>
                 <<r.app, r.record>> \in AsOf(T, u)
           /\ \A x \in AsOf(T, u) : \E r \in T :
                 x = <<r.app, r.record>> /\ r.from <= u /\ (r.to = Open \/ u < r.to)
  BY DEF AsOf

LEMMA AsOfTheEnd ==
    ASSUME NEW T \in SUBSET Row, NEW u \in Time, UpTo(T, u)
    PROVE  AsOf(T, u) = Pairs(T)
  <1>1. ASSUME NEW r \in T
        PROVE  r.from <= u /\ ((r.to = Open \/ u < r.to) <=> r \in Current(T))
    BY TimeIsNotOpen, RowTimes DEF UpTo, Current
  <1>2. AsOf(T, u) \subseteq Pairs(T)
    BY <1>1, AsOfRows, PairsOf
  <1>3. Pairs(T) \subseteq AsOf(T, u)
    <2>. SUFFICES ASSUME NEW x \in Pairs(T) PROVE x \in AsOf(T, u)
      OBVIOUS
    <2>1. PICK r \in Current(T) : x = <<r.app, r.record>>
      BY PairsOf
    <2>2. r \in T
      BY DEF Current
    <2>. QED  BY <1>1, <2>1, <2>2, AsOfRows
  <1>. QED  BY <1>2, <1>3

(* A commit at a time after all others leaves what was as of every earlier *)
(* time, and its bundle from its own time on.                              *)
LEMMA AsOfAfter ==
    ASSUME NEW T \in SUBSET Row, NEW after \in SUBSET Row, NEW b \in Bundles,
           NEW t \in Time, Wrote(T, after, b, t), AllBefore(T, t),
           Pairs(after) = Graph(b), NEW u \in Time
    PROVE  AsOf(after, u) = IF u < t THEN AsOf(T, u) ELSE Graph(b)
  <1>1. PICK apps, new \in SUBSET Apps :
           /\ new \subseteq DOMAIN b
           /\ after = Stored(Closed(T, apps, t), RowsFor(b, new, t))
    BY DEF Wrote
  <1> DEFINE N == RowsFor(b, new, t)
  <1>2. \A n \in N : n.from = t
    BY <1>1, RowsForType
  <1>3. u \in Nat /\ t \in Nat /\ t # Open
    BY TimeIsNotOpen
  <1>. HIDE DEF N
  <1>4. ASSUME u < t, NEW x \in AsOf(after, u)
        PROVE  x \in AsOf(T, u)
    <2>1. PICK r \in after : x = <<r.app, r.record>> /\ r.from <= u /\ (r.to = Open \/ u < r.to)
      BY AsOfRows
    <2>2. r \in Closed(T, apps, t)
      BY <1>1, <1>2, <1>3, <1>4, <2>1, RowsAfter DEF N
    <2>3. PICK o \in T : /\ r.app = o.app /\ r.record = o.record /\ r.from = o.from
                         /\ r.to = o.to \/ (o.to = Open /\ r.to = t)
      BY <2>2, ClosedRows
    <2>4. o.from <= u /\ (o.to = Open \/ u < o.to)
      BY <2>1, <2>3
    <2>. QED  BY <2>1, <2>3, <2>4, AsOfRows
  <1>5. ASSUME u < t, NEW x \in AsOf(T, u)
        PROVE  x \in AsOf(after, u)
    <2>1. PICK o \in T : x = <<o.app, o.record>> /\ o.from <= u /\ (o.to = Open \/ u < o.to)
      BY AsOfRows
    <2>2. PICK q \in Closed(T, apps, t) :
             /\ q = o \/ (o.to = Open /\ q = [o EXCEPT !.to = t])
             /\ q.app = o.app /\ q.from = o.from
      BY ClosedKeeps
    <2>3. q.record = o.record /\ (q.to = o.to \/ q.to = t)
      BY <2>2 DEF Row
    <2>4. q.from # t
      BY <1>3, <2>1, <2>2, RowTimes DEF AllBefore
    <2>5. q \in after
      BY <1>1, <1>2, <2>2, <2>4 DEF Stored, N
    <2>6. q.from <= u /\ (q.to = Open \/ u < q.to)
      BY <1>5, <2>1, <2>2, <2>3
    <2>. QED  BY <2>1, <2>2, <2>3, <2>5, <2>6, AsOfRows
  <1>6. ASSUME ~(u < t)
        PROVE  AsOf(after, u) = Graph(b)
    <2>1. ASSUME NEW r \in after
          PROVE  r.from <= u /\ (r.to # Open => r.to <= u)
      <3>1. \/ r.from = t /\ r.to = Open
            \/ \E q \in T : r.from = q.from /\ (r.to = q.to \/ r.to = t)
        BY TimesAfter
      <3>. QED  BY <1>3, <1>6, <3>1, RowTimes DEF AllBefore
    <2>2. UpTo(after, u)
      BY <2>1 DEF UpTo
    <2>. QED  BY <2>2, AsOfTheEnd
  <1>7. u < t => AsOf(after, u) = AsOf(T, u)
    BY <1>4, <1>5
  <1>. QED  BY <1>6, <1>7

LEMMA AsOfAnew ==
    ASSUME NEW b \in Bundles, NEW t \in Time, NEW u \in Time
    PROVE  AsOf(RowsFor(b, DOMAIN b, t), u) = IF u < t THEN {} ELSE Graph(b)
  <1> DEFINE N == RowsFor(b, DOMAIN b, t)
  <1>1. /\ N \in SUBSET Row /\ \A q \in N : q.from = t /\ q.to = Open
        /\ Pairs(N) = Graph(b)
    BY RowsForType, AnewIsTheBundle
  <1>2. u \in Nat /\ t \in Nat
    BY TimeIsNotOpen
  <1>. HIDE DEF N
  <1>3. CASE u < t
    <2>1. \A q \in N : ~(q.from <= u)
      BY <1>1, <1>2, <1>3
    <2>2. AsOf(N, u) = {}
      BY <2>1 DEF AsOf
    <2>. QED  BY <1>3, <2>2 DEF N
  <1>4. CASE ~(u < t)
    <2>1. UpTo(N, u)
      BY <1>1, <1>2, <1>4 DEF UpTo
    <2>2. AsOf(N, u) = Graph(b)
      BY <1>1, <2>1, AsOfTheEnd
    <2>. QED  BY <1>4, <2>2 DEF N
  <1>. QED  BY <1>3, <1>4

LEMMA OrderedCommit ==
    ASSUME TypeOK, Times, NEW s \in Syncs, Persist(s), ordered'
    PROVE  \E t \in Time, b \in Bundles :
              /\ Written(b, t)
              /\ ordered = TRUE /\ AllBefore(payloads, t) /\ AllBefore(manifests, t)
              /\ Wrote(payloads, payloads', b, t) /\ Wrote(manifests, manifests', b, t)
  <1>1. bundle[s] \in Bundles /\ \E t \in Time : t = sync[s].at /\ Written(bundle[s], t)
    BY AskedType DEF Persist
  <1>2. PICK t \in Time : t = sync[s].at /\ Written(bundle[s], t)
    BY <1>1
  <1>3. ordered = TRUE /\ InOrder(t)
    BY <1>2 DEF Persist, TypeOK
  <1>4. AllBefore(payloads, t) /\ AllBefore(manifests, t)
    BY <1>3 DEF Times, Spent, InOrder, AllBefore
  <1>. QED  BY <1>1, <1>2, <1>3, <1>4, WrittenWrote

(* Of what is current, a commit closes and opens all that it does not find *)
(* with its own time: whatever is in the bundle has that time then.        *)
LEMMA CurrentIsLatest ==
    ASSUME TypeOK, Agree, NEW b \in Bundles, NEW t \in Time, Written(b, t),
           NEW m \in Current(manifests')
    PROVE  m.from = t
  <1> DEFINE fresh == New(b) \cup Changed(b)
             ended == fresh \cup Gone(b)
             N == RowsFor(b, fresh \cup Advanced(b, t), t)
  <1>1. manifests \in SUBSET Row
    BY DEF TypeOK
  <1>2. fresh \cup Advanced(b, t) \in SUBSET DOMAIN b
    BY DEF New, Changed, Advanced
  <1>3. N \in SUBSET Row /\ \A q \in N : /\ q.app \in fresh \cup Advanced(b, t)
                                        /\ q.from = t /\ q.to = Open
    BY <1>2, RowsForType
  <1>4. manifests' = Stored(Closed(manifests, ended \cup Advanced(b, t), t), N)
    BY DEF Written
  <1>5. Current(manifests') =
           N \cup {r \in Current(manifests) : r.app \notin ended \cup Advanced(b, t)}
    <2> DEFINE E == ended \cup Advanced(b, t)
    <2>1. \A q \in N : q.app \in E /\ q.from = t /\ q.to = Open
      BY <1>3
    <2>2. manifests' = Stored(Closed(manifests, E, t), N)
      BY <1>4
    <2>. HIDE DEF N, E
    <2>3. Current(Stored(Closed(manifests, E, t), N)) =
             N \cup {r \in Current(manifests) : r.app \notin E}
      BY <1>1, <1>3, <2>1, CurrentAfter
    <2>4. Current(manifests') = N \cup {r \in Current(manifests) : r.app \notin E}
      BY <2>2, <2>3 DEF Current
    <2>. QED  BY <2>4 DEF E
  <1>6. ASSUME m \in Current(manifests), m.app \notin ended \cup Advanced(b, t)
        PROVE  m.from = t
    <2>1. m.app \in AppsOf(Current(manifests)) /\ RowOf(manifests, m.app) = m
      BY <1>6, RowOfIsTheRow DEF Agree
    <2>2. m.app \in DOMAIN b /\ m.app \notin New(b) \cup Changed(b)
      BY <1>6, <2>1 DEF Gone
    <2>. QED  BY <1>6, <2>1, <2>2 DEF Advanced
  <1>. QED  BY <1>3, <1>5, <1>6

LEMMA UpToAfter ==
    ASSUME NEW T \in SUBSET Row, NEW after, NEW b \in Bundles, NEW t \in Time,
           Wrote(T, after, b, t), AllBefore(T, t)
    PROVE  UpTo(after, t)
  <1>1. t \in Nat
    BY TimeIsNotOpen
  <1>2. ASSUME NEW r \in after
        PROVE  r.from <= t /\ (r.to # Open => r.to <= t)
    <2>1. \/ r.from = t /\ r.to = Open
          \/ \E q \in T : r.from = q.from /\ (r.to = q.to \/ r.to = t)
      BY TimesAfter
    <2>. QED  BY <1>1, <2>1, RowTimes DEF AllBefore
  <1>. QED  BY <1>2 DEF UpTo

LEMMA LatestIsKept ==
    ASSUME TypeOK, Agree, Times, Latest, [Next]_vars
    PROVE  Latest'
  <1>0. payloads \in SUBSET Row /\ manifests \in SUBSET Row
    BY DEF TypeOK
  <1>1. CASE Rebuild
    <2>1. PICK t \in Time :
             /\ payloads'  = RowsFor(CurrentBundle, DOMAIN CurrentBundle, t)
             /\ manifests' = RowsFor(CurrentBundle, DOMAIN CurrentBundle, t)
      BY <1>1 DEF Rebuild
    <2>2. \A r \in payloads' \cup manifests' : r.from = t /\ r.to = Open
      BY <1>0, <2>1, CurrentBundleType, RowsForType
    <2>3. t \in Nat
      BY TimeIsNotOpen
    <2>. QED  BY <2>2, <2>3 DEF Latest, UpTo, Current
  <1>2. ASSUME NEW s \in Syncs, Persist(s), ordered',
               NEW m \in Current(manifests')
        PROVE  UpTo(payloads', m.from) /\ UpTo(manifests', m.from)
    <2>1. PICK t \in Time, b \in Bundles :
             /\ Written(b, t) /\ AllBefore(payloads, t) /\ AllBefore(manifests, t)
             /\ Wrote(payloads, payloads', b, t) /\ Wrote(manifests, manifests', b, t)
      BY <1>2, OrderedCommit
    <2>2. m.from = t
      BY <2>1, CurrentIsLatest
    <2>. QED  BY <1>0, <2>1, <2>2, UpToAfter
  <1>3. CASE UNCHANGED <<tables, ordered>>
    BY <1>3 DEF tables, Latest, UpTo, Current
  <1>. QED  BY <1>1, <1>2, <1>3 DEF Next, vars, history, Start, Read, Fail, Latest

ManifestJournal == INSTANCE SpecJournal WITH
    Times <- Time, Bundles <- {Graph(b) : b \in Bundles},
    asOf <- [t \in Time |-> AsOf(manifests, t)]

(* What a step makes of one table, as of each time.                        *)
Enters(T, after) ==
    \E t \in Time, b \in Bundles :
       /\ AllBefore(T, t)
       /\ \A u \in Time : AsOf(after, u) = IF u < t THEN AsOf(T, u) ELSE Graph(b)

Forgets(T, after) ==
    \E t \in Time :
       /\ UpTo(T, t)
       /\ \A u \in Time : AsOf(after, u) = IF u < t THEN {} ELSE AsOf(T, u)

LEMMA JournalSteps ==
    ASSUME TypeOK, Agree, Times, Latest, [Next]_vars, ordered'
    PROVE  /\ ordered = TRUE
           /\ \/ UNCHANGED tables
              \/ Enters(payloads, payloads') /\ Enters(manifests, manifests')
              \/ Forgets(payloads, payloads') /\ Forgets(manifests, manifests')
  <1>0. payloads \in SUBSET Row /\ manifests \in SUBSET Row
    BY DEF TypeOK
  <1>1. CASE Rebuild
    <2>1. PICK t \in Time :
             /\ \E m \in Current(manifests) : m.from = t
             /\ payloads'  = RowsFor(CurrentBundle, DOMAIN CurrentBundle, t)
             /\ manifests' = RowsFor(CurrentBundle, DOMAIN CurrentBundle, t)
      BY <1>1 DEF Rebuild
    <2>2. ordered = TRUE
      BY <1>1 DEF Rebuild, TypeOK
    <2>3. UpTo(payloads, t) /\ UpTo(manifests, t)
      BY <2>1, <2>2 DEF Latest
    <2>4. Graph(CurrentBundle) = Pairs(payloads) /\ Pairs(payloads) = Pairs(manifests)
      BY CurrentBundleIsCurrent DEF Agree
    <2>5. ASSUME NEW u \in Time, ~(u < t)
          PROVE  AsOf(payloads, u) = Pairs(payloads) /\ AsOf(manifests, u) = Pairs(manifests)
      <3>1. UpTo(payloads, u) /\ UpTo(manifests, u)
        BY <1>0, <2>3, <2>5, TimeIsNotOpen, RowTimes DEF UpTo
      <3>. QED  BY <1>0, <3>1, AsOfTheEnd
    <2>6. \A u \in Time :
             /\ AsOf(payloads', u) = IF u < t THEN {} ELSE AsOf(payloads, u)
             /\ AsOf(manifests', u) = IF u < t THEN {} ELSE AsOf(manifests, u)
      BY <1>0, <2>1, <2>4, <2>5, AsOfAnew, CurrentBundleType
    <2>. QED  BY <2>2, <2>3, <2>6 DEF Forgets
  <1>2. ASSUME NEW s \in Syncs, Persist(s)
        PROVE  ordered = TRUE /\ Enters(payloads, payloads') /\ Enters(manifests, manifests')
    <2>1. PICK t \in Time, b \in Bundles :
             /\ Written(b, t)
             /\ ordered = TRUE /\ AllBefore(payloads, t) /\ AllBefore(manifests, t)
             /\ Wrote(payloads, payloads', b, t) /\ Wrote(manifests, manifests', b, t)
      BY <1>2, OrderedCommit
    <2>2. /\ payloads' \in SUBSET Row /\ manifests' \in SUBSET Row
          /\ Pairs(payloads') = Graph(b) /\ Pairs(manifests') = Graph(b)
      BY <1>0, <2>1, WrittenTypes, WrittenIsTheBundle DEF Agree
    <2>3. \A u \in Time :
             /\ AsOf(payloads', u) = IF u < t THEN AsOf(payloads, u) ELSE Graph(b)
             /\ AsOf(manifests', u) = IF u < t THEN AsOf(manifests, u) ELSE Graph(b)
      BY <1>0, <2>1, <2>2, AsOfAfter
    <2>. QED  BY <2>1, <2>3 DEF Enters
  <1>3. CASE UNCHANGED <<tables, ordered>>
    BY <1>3 DEF TypeOK
  <1>. QED  BY <1>1, <1>2, <1>3 DEF Next, vars, history, Start, Read, Fail

(* A change of the rows of one table is a change of its journal. *)
LEMMA JournalMoves ==
    ASSUME NEW T \in SUBSET Row, NEW after, Enters(T, after) \/ Forgets(T, after)
    PROVE  LET was == [u \in Time |-> AsOf(T, u)]
               now == [u \in Time |-> AsOf(after, u)]
           IN  \/ was = now
               \/ \E t \in Time : \/ Journal!Entered(t, was, now)
                                  \/ Journal!Forgotten(t, was, now)
  <1> DEFINE was == [u \in Time |-> AsOf(T, u)]
             now == [u \in Time |-> AsOf(after, u)]
  <1>1. CASE Enters(T, after)
    <2>1. PICK t \in Time, b \in Bundles :
             /\ AllBefore(T, t)
             /\ \A u \in Time : AsOf(after, u) = IF u < t THEN AsOf(T, u) ELSE Graph(b)
      BY <1>1 DEF Enters
    <2>2. t \in Nat
      BY TimeIsNotOpen
    <2>3. ASSUME NEW u \in Time, t <= u + 1
          PROVE  was[u] = Pairs(T)
      <3>1. u \in Nat
        BY TimeIsNotOpen
      <3>2. UpTo(T, u)
        BY <2>1, <2>2, <2>3, <3>1, RowTimes DEF UpTo, AllBefore
      <3>. QED  BY <3>2, AsOfTheEnd
    <2>4. Journal!ChangedBefore(t, was)
      BY <2>3 DEF Journal!ChangedBefore
    <2>5. now[t] = Graph(b)
      BY <2>1, <2>2
    <2>6. now[t] \in {Graph(c) : c \in Bundles}
      BY <2>5
    <2>7. now = [u \in Time |-> IF u < t THEN was[u] ELSE now[t]]
      BY <2>1, <2>5
    <2>. HIDE DEF was, now
    <2>. QED  BY <2>4, <2>6, <2>7 DEF Journal!Entered, was, now
  <1>2. CASE Forgets(T, after)
    <2>1. PICK t \in Time :
             /\ UpTo(T, t)
             /\ \A u \in Time : AsOf(after, u) = IF u < t THEN {} ELSE AsOf(T, u)
      BY <1>2 DEF Forgets
    <2>2. t \in Nat
      BY TimeIsNotOpen
    <2>3. ASSUME NEW u \in Time, t + 1 <= u + 1
          PROVE  was[u] = Pairs(T)
      <3>1. u \in Nat
        BY TimeIsNotOpen
      <3>2. UpTo(T, u)
        BY <2>1, <2>2, <2>3, <3>1, RowTimes DEF UpTo
      <3>. QED  BY <3>2, AsOfTheEnd
    <2>4. Journal!ChangedBefore(t + 1, was)
      BY <2>3 DEF Journal!ChangedBefore
    <2>5. now = [u \in Time |-> IF u < t THEN {} ELSE was[u]]
      BY <2>1
    <2>. HIDE DEF was, now
    <2>. QED  BY <2>4, <2>5 DEF Journal!Forgotten, was, now
  <1>. QED  BY <1>1, <1>2

JournalInv == TypeOK /\ Agree /\ Times /\ Latest

LEMMA JournalInductive == Spec => []JournalInv
  <1>1. Init => JournalInv
    <2>1. Init => Times /\ Latest
      BY DEF Init, Times, Latest, Current
    <2>. QED  BY <2>1, InitTypes, InitAgree DEF JournalInv
  <1>2. JournalInv /\ [Next]_vars => JournalInv'
    BY TypesAreKept, AgreeIsKept, TimesAreKept, LatestIsKept DEF JournalInv
  <1>. QED  BY <1>1, <1>2, PTL DEF Spec

(* Read as of a time, the payloads are a journal while syncs commit in the *)
(* order of their times: a sync changes nothing as of a time before its    *)
(* own, its bundle is there as of its time and until a later one, and a    *)
(* rebuild takes away the past and keeps the present.                      *)
THEOREM ImplementsJournal == Spec => KeepsJournal
  <1>1. Init => Journal!Init
    BY DEF Init, Journal!Init, AsOf
  <1>2. JournalInv /\ JournalInv' /\ [Next]_vars => [Journal!Next]_Journal!vars
    <2>. SUFFICES ASSUME JournalInv, JournalInv', [Next]_vars
                  PROVE  Journal!Next \/ UNCHANGED Journal!vars
      OBVIOUS
    <2>1. CASE ordered'
      <3>1. ordered = TRUE /\ ordered' = TRUE
        BY <2>1, JournalSteps DEF JournalInv, TypeOK
      <3>2. CASE UNCHANGED tables
        BY <3>1, <3>2 DEF tables, Journal!vars
      <3>3. CASE Enters(payloads, payloads') \/ Forgets(payloads, payloads')
        <4>1. payloads \in SUBSET Row
          BY DEF JournalInv, TypeOK
        <4>. QED  BY <3>1, <3>3, <4>1, JournalMoves
                  DEF Journal!Next, Journal!Changed, Journal!vars
      <3>. QED  BY <2>1, <3>2, <3>3, JournalSteps DEF JournalInv
    <2>2. CASE ~ordered'
      BY <2>2 DEF JournalInv, TypeOK, Journal!Next
    <2>. QED  BY <2>1, <2>2
  <1>. QED  BY <1>1, <1>2, JournalInductive, PTL DEF Spec, KeepsJournal, Journal!Spec

(* And so are the manifest rows, though each sync closes and opens all of  *)
(* them.                                                                   *)
THEOREM ManifestsImplementJournal == Spec => ManifestJournal!Spec
  <1>1. Init => ManifestJournal!Init
    BY DEF Init, ManifestJournal!Init, AsOf
  <1>2. JournalInv /\ JournalInv' /\ [Next]_vars
          => [ManifestJournal!Next]_ManifestJournal!vars
    <2>. SUFFICES ASSUME JournalInv, JournalInv', [Next]_vars
                  PROVE  ManifestJournal!Next \/ UNCHANGED ManifestJournal!vars
      OBVIOUS
    <2>1. CASE ordered'
      <3>1. ordered = TRUE /\ ordered' = TRUE
        BY <2>1, JournalSteps DEF JournalInv, TypeOK
      <3>2. CASE UNCHANGED tables
        BY <3>1, <3>2 DEF tables, ManifestJournal!vars
      <3>3. CASE Enters(manifests, manifests') \/ Forgets(manifests, manifests')
        <4>1. manifests \in SUBSET Row
          BY DEF JournalInv, TypeOK
        <4>. QED  BY <3>1, <3>3, <4>1, JournalMoves
                  DEF ManifestJournal!Next, ManifestJournal!Changed, ManifestJournal!vars,
                      Journal!Entered, Journal!Forgotten, Journal!ChangedBefore,
                      ManifestJournal!Entered, ManifestJournal!Forgotten,
                      ManifestJournal!ChangedBefore
      <3>. QED  BY <2>1, <3>2, <3>3, JournalSteps DEF JournalInv
    <2>2. CASE ~ordered'
      BY <2>2 DEF JournalInv, TypeOK, ManifestJournal!Next
    <2>. QED  BY <2>1, <2>2
  <1>. QED  BY <1>1, <1>2, JournalInductive, PTL DEF Spec, ManifestJournal!Spec

=============================================================================
