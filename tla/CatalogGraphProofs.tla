------------------------- MODULE CatalogGraphProofs -------------------------
(***************************************************************************)
(* Proofs about CatalogGraph, for any sets of ids, domains, contents,      *)
(* proposals and runs, and any bound on times and events.                  *)
(***************************************************************************)
EXTENDS CatalogGraph, TLAPS

-----------------------------------------------------------------------------
\* Lemmas on rows.

LEMMA NewRowType ==
    ASSUME NEW id \in Ids, NEW d \in Domains, NEW v \in Values,
           NEW p \in Proposals \cup {None}, NEW t \in Time, NEW run \in Runs \cup {None}
    PROVE  /\ NewRow(id, d, v, p, t, run) \in Row
           /\ NewRow(id, d, v, p, t, run).to = Open
  BY DEF NewRow, Row, Open

LEMMA TimeIsNotOpen == \A t \in Time : t # Open
  BY GraphConstants DEF Time, Open

LEMMA ClosedType ==
    ASSUME NEW T \in SUBSET Row, NEW S, NEW t \in Time
    PROVE  Closed(T, S, t) \in SUBSET Row
  BY DEF Closed, Row

(* Every row of Closed(T, S, t) is a row of T, open only if it was and if  *)
(* it is not in S, and otherwise the same.                                 *)
LEMMA ClosedRows ==
    ASSUME NEW T \in SUBSET Row, NEW S, NEW t \in Time, NEW q \in Closed(T, S, t)
    PROVE  \E r \in T :
              /\ q = r \/ (r.to = Open /\ q = [r EXCEPT !.to = t])
              /\ q.id = r.id /\ q.domain = r.domain /\ q.value = r.value
              /\ q.via = r.via /\ q.from = r.from /\ q.run = r.run
              /\ q.to = Open => q = r /\ r \notin S
  <1>1. PICK r \in T : q = IF r \in S /\ r.to = Open THEN [r EXCEPT !.to = t] ELSE r
    BY DEF Closed
  <1>2. r \in Row
    OBVIOUS
  <1>3. CASE r \in S /\ r.to = Open
    <2>1. q = [r EXCEPT !.to = t]
      BY <1>1, <1>3
    <2>2. /\ q.id = r.id /\ q.domain = r.domain /\ q.value = r.value
          /\ q.via = r.via /\ q.from = r.from /\ q.run = r.run /\ q.to = t
      BY <1>2, <2>1 DEF Row
    <2>. QED  BY <1>3, <2>1, <2>2, TimeIsNotOpen
  <1>4. CASE ~(r \in S /\ r.to = Open)
    BY <1>1, <1>4
  <1>. QED  BY <1>3, <1>4

LEMMA ClosedSucceeds ==
    ASSUME NEW T \in SUBSET Row, NEW S, NEW t \in Time, NEW r \in T
    PROVE  \E q \in Closed(T, S, t) : q.id = r.id /\ q.from = r.from /\
              (q = r \/ (r.to = Open /\ q = [r EXCEPT !.to = q.to]))
  <1> DEFINE q == IF r \in S /\ r.to = Open THEN [r EXCEPT !.to = t] ELSE r
  <1>1. q \in Closed(T, S, t)
    BY DEF Closed
  <1>2. r \in Row
    OBVIOUS
  <1>3. q.id = r.id /\ q.from = r.from /\ (q = r \/ (r.to = Open /\ q = [r EXCEPT !.to = q.to]))
    BY <1>2 DEF Row
  <1>. HIDE DEF q
  <1>. QED  BY <1>1, <1>3

LEMMA IndexedType ==
    ASSUME NEW T \in SUBSET Row, NEW D \in SUBSET Ids, NEW found \in [D -> Values],
           NEW run \in Runs, NEW t \in Time
    PROVE  Indexed(T, found, run, t) \in SUBSET Row
  <1> DEFINE S == {r \in T : r.domain = Catalog /\ r.run = run /\ r.id \in DOMAIN found}
             new == {NewRow(id, Catalog, found[id], None, t, run) : id \in DOMAIN found}
  <1>1. new \subseteq Row
    BY NewRowType, GraphConstants
  <1>2. Closed(T, S, t) \subseteq Row
    BY ClosedType
  <1>. HIDE DEF S, new
  <1>3. Replaced(Closed(T, S, t), new) \subseteq Row
    BY <1>1, <1>2 DEF Replaced
  <1>. QED  BY <1>3 DEF Indexed, S, new

(* A save puts in one row for each id it found, and leaves of the others   *)
(* those that do not have their keys, closed where they are its own run's. *)
LEMMA IndexedRows ==
    ASSUME NEW T \in SUBSET Row, NEW D \in SUBSET Ids, NEW found \in [D -> Values],
           NEW run \in Runs, NEW t \in Time, NEW q \in Indexed(T, found, run, t)
    PROVE  \/ \E id \in D : q = NewRow(id, Catalog, found[id], None, t, run)
           \/ \E r \in T :
                 /\ q.id = r.id /\ q.domain = r.domain /\ q.value = r.value
                 /\ q.via = r.via /\ q.from = r.from /\ q.run = r.run
                 /\ q.to = Open => /\ q = r
                                   /\ ~(r.domain = Catalog /\ r.run = run /\ r.id \in D)
  <1> DEFINE S == {r \in T : r.domain = Catalog /\ r.run = run /\ r.id \in DOMAIN found}
             new == {NewRow(id, Catalog, found[id], None, t, run) : id \in DOMAIN found}
  <1>1. q \in new \/ q \in Closed(T, S, t)
    BY DEF Indexed, Replaced
  <1>2. CASE q \in new
    BY <1>2
  <1>3. CASE q \in Closed(T, S, t)
    <2>. HIDE DEF S
    <2>1. PICK r \in T :
              /\ q.id = r.id /\ q.domain = r.domain /\ q.value = r.value
              /\ q.via = r.via /\ q.from = r.from /\ q.run = r.run
              /\ q.to = Open => q = r /\ r \notin S
      BY <1>3, ClosedRows
    <2>. QED  BY <2>1 DEF S
  <1>. QED  BY <1>1, <1>2, <1>3

LEMMA IndexedSucceeds ==
    ASSUME NEW T \in SUBSET Row, NEW D \in SUBSET Ids, NEW found \in [D -> Values],
           NEW run \in Runs, NEW t \in Time, NEW r \in T
    PROVE  \E q \in Indexed(T, found, run, t) : Succeeds(q, r)
  <1> DEFINE S == {x \in T : x.domain = Catalog /\ x.run = run /\ x.id \in DOMAIN found}
             new == {NewRow(id, Catalog, found[id], None, t, run) : id \in DOMAIN found}
  <1>1. Indexed(T, found, run, t) = Replaced(Closed(T, S, t), new)
    BY DEF Indexed
  <1>2. \A q \in new : q.run = run /\ q.to = Open
    BY DEF NewRow
  <1>. HIDE DEF S, new
  <1>3. PICK c \in Closed(T, S, t) : c.id = r.id /\ c.from = r.from /\
              (c = r \/ (r.to = Open /\ c = [r EXCEPT !.to = c.to]))
    BY ClosedSucceeds
  <1>4. CASE \E q \in new : q.id = c.id /\ q.from = c.from
    <2>1. PICK q \in new : q.id = c.id /\ q.from = c.from
      BY <1>4
    <2>2. q \in Indexed(T, found, run, t)
      BY <1>1 DEF Replaced
    <2>. QED  BY <1>2, <1>3, <2>1, <2>2 DEF Succeeds
  <1>5. CASE ~\E q \in new : q.id = c.id /\ q.from = c.from
    <2>1. c \in Indexed(T, found, run, t)
      BY <1>1, <1>5 DEF Replaced
    <2>. QED  BY <1>3, <2>1 DEF Succeeds
  <1>. QED  BY <1>4, <1>5

-----------------------------------------------------------------------------
\* Type correctness.

LEMMA LoggedType ==
    ASSUME TypeOK, NEW op \in Ops, NEW target \in Ids \cup Proposals, NEW t \in Time,
           NEW value \in Values \cup {None}, NEW via \in Proposals \cup {None},
           Logged(op, target, t, value, via)
    PROVE  log' \in Seq(Event)
  BY DEF TypeOK, Logged, Event

LEMMA FoundType ==
    ASSUME NEW S \in SUBSET Values, NEW f \in Found(S)
    PROVE  \E D \in SUBSET Ids : f \in [D -> Values]
  BY DEF Found

(* Nodes, edges, proposals and events keep their types, whichever tools    *)
(* and saves run.                                                          *)
THEOREM TypeCorrect == Spec => []TypeOK
  <1>1. Init => TypeOK
    BY DEF Init, TypeOK
  <1>2. TypeOK /\ [Next]_vars => TypeOK'
    <2> SUFFICES ASSUME TypeOK, [Next]_vars PROVE TypeOK'
      OBVIOUS
    <2>1. ASSUME NEW t \in Time, NEW id \in Ids, NEW d \in Domains, NEW v \in Payloads,
                 NodeModify(id, d, v, t)
          PROVE  TypeOK'
      <3>1. log' \in Seq(Event)
        BY <2>1, LoggedType DEF NodeModify, Ops, Values
      <3>2. nodes' \subseteq Row
        <4>1. NewRow(id, d, v, None, t, None) \in Row
          BY NewRowType DEF Values
        <4>2. Closed(nodes, Of(nodes, id, d), t) \subseteq Row
          BY ClosedType DEF TypeOK
        <4>. QED  BY <2>1, <4>1, <4>2 DEF NodeModify
      <3>. QED  BY <2>1, <3>1, <3>2 DEF NodeModify, TypeOK
    <2>2. ASSUME NEW t \in Time, NEW p \in Proposals, NEW c \in Contents, Propose(p, c, t)
          PROVE  TypeOK'
      <3>1. log' \in Seq(Event)
        BY <2>2, LoggedType DEF Propose, Ops, Values
      <3>. QED  BY <2>2, <3>1 DEF Propose, TypeOK, Proposal
    <2>3. ASSUME NEW t \in Time, NEW p \in Proposals, NEW st \in {"approved", "rejected"},
                 SetStatus(p, st, t)
          PROVE  TypeOK'
      <3>1. log' \in Seq(Event)
        BY <2>3, LoggedType DEF SetStatus, Ops
      <3>2. proposals[p] \in Proposal
        BY <2>3 DEF SetStatus, TypeOK
      <3>3. [proposals[p] EXCEPT !.status = st] \in Proposal
        BY <3>2 DEF Proposal
      <3>. QED  BY <2>3, <3>1, <3>3 DEF SetStatus, TypeOK
    <2>4. ASSUME NEW t \in Time, NEW p \in Proposals, Applicable(p),
                 NEW id \in EdgeIdsFor(p), Apply(p, id, t)
          PROVE  TypeOK'
      <3>1. proposals[p] \in Proposal /\ proposals[p].content \in Contents
        BY <2>4 DEF Applicable, TypeOK, Proposal
      <3>2. id \in Ids /\ DomainOf[proposals[p].content] \in Domains
        BY <3>1, GraphConstants DEF EdgeIdsFor
      <3>3. log' \in Seq(Event)
        BY <2>4, <3>2, LoggedType DEF Apply, Ops
      <3>4. edges' \subseteq Row
        BY <2>4, <3>1, <3>2, NewRowType, ClosedType DEF Apply, Values, TypeOK
      <3>5. [proposals[p] EXCEPT !.status = "applied", !.edge = id] \in Proposal
        BY <3>1, <3>2 DEF Proposal
      <3>. QED  BY <2>4, <3>3, <3>4, <3>5 DEF Apply, TypeOK
    <2>5. ASSUME NEW t \in Time, NEW run \in Runs, NEW n \in Found(Payloads),
                 NEW e \in Found(Contents), Save(run, n, e, t)
          PROVE  TypeOK'
      <3>1. PICK D \in SUBSET Ids : n \in [D -> Values]
        BY FoundType DEF Values
      <3>2. PICK E \in SUBSET Ids : e \in [E -> Values]
        BY FoundType DEF Values
      <3>3. nodes' \subseteq Row
        BY <2>5, <3>1, IndexedType DEF Save, TypeOK
      <3>4. edges' \subseteq Row
        BY <2>5, <3>2, IndexedType DEF Save, TypeOK
      <3>. QED  BY <2>5, <3>3, <3>4 DEF Save, TypeOK
    <2>6. CASE UNCHANGED vars
      BY <2>6 DEF vars, TypeOK
    <2>. QED  BY <2>1, <2>2, <2>3, <2>4, <2>5, <2>6 DEF Next
  <1>. QED  BY <1>1, <1>2, PTL DEF Spec

-----------------------------------------------------------------------------
\* One open row.

OneOpenIn(T) == \A r, q \in T :
    /\ r.id = q.id /\ r.domain = q.domain /\ r.run = q.run /\ r.to = Open /\ q.to = Open
    => r = q

LEMMA InsertKeepsOne ==
    ASSUME NEW T \in SUBSET Row, OneOpenIn(T), NEW id \in Ids, NEW d \in Domains,
           NEW v \in Values, NEW p \in Proposals \cup {None}, NEW t \in Time
    PROVE  OneOpenIn(Closed(T, Of(T, id, d), t) \cup {NewRow(id, d, v, p, t, None)})
  <1> DEFINE x == NewRow(id, d, v, p, t, None)
             C == Closed(T, Of(T, id, d), t)
  <1>1. x.id = id /\ x.domain = d
    BY DEF NewRow
  <1>2. \A q \in C : q.to = Open => q \in T /\ ~(q.id = id /\ q.domain = d)
    <2> SUFFICES ASSUME NEW q \in C, q.to = Open
                 PROVE  q \in T /\ ~(q.id = id /\ q.domain = d)
      OBVIOUS
    <2>1. \E r \in T : q = r /\ r \notin Of(T, id, d)
      BY ClosedRows
    <2>. QED  BY <2>1 DEF Of
  <1>. HIDE DEF x, C
  <1>3. OneOpenIn(C \cup {x})
    BY <1>1, <1>2 DEF OneOpenIn
  <1>. QED  BY <1>3 DEF x, C

LEMMA SaveKeepsOne ==
    ASSUME NEW T \in SUBSET Row, OneOpenIn(T), NEW D \in SUBSET Ids,
           NEW found \in [D -> Values], NEW run \in Runs, NEW t \in Time
    PROVE  OneOpenIn(Indexed(T, found, run, t))
  <1> DEFINE new(id) == NewRow(id, Catalog, found[id], None, t, run)
             Old(q) == q \in T /\ ~(q.domain = Catalog /\ q.run = run /\ q.id \in D)
  <1>1. \A q \in Indexed(T, found, run, t) : q.to = Open =>
           (\E id \in D : q = new(id)) \/ Old(q)
    <2> SUFFICES ASSUME NEW q \in Indexed(T, found, run, t), q.to = Open
                 PROVE  (\E id \in D : q = new(id)) \/ Old(q)
      OBVIOUS
    <2>1. CASE \E id \in D : q = NewRow(id, Catalog, found[id], None, t, run)
      BY <2>1
    <2>2. CASE \E r \in T : q = r /\ ~(r.domain = Catalog /\ r.run = run /\ r.id \in D)
      BY <2>2
    <2>. QED  BY <2>1, <2>2, IndexedRows
  <1>2. \A id \in D : new(id).id = id /\ new(id).domain = Catalog /\ new(id).run = run
    BY DEF NewRow
  <1>. HIDE DEF new
  <1>3. SUFFICES ASSUME NEW r \in Indexed(T, found, run, t), NEW q \in Indexed(T, found, run, t),
                        r.id = q.id, r.domain = q.domain, r.run = q.run,
                        r.to = Open, q.to = Open
                 PROVE  r = q
    BY DEF OneOpenIn
  <1>4. CASE \E id \in D : r = new(id)
    <2>1. PICK id \in D : r = new(id)
      BY <1>4
    <2>2. ~Old(q)
      BY <1>2, <1>3, <2>1
    <2>3. PICK iq \in D : q = new(iq)
      BY <1>1, <1>3, <2>2
    <2>. QED  BY <1>2, <1>3, <2>1, <2>3
  <1>5. CASE Old(r)
    <2>1. ~\E id \in D : q = new(id)
      BY <1>2, <1>3, <1>5
    <2>2. Old(q)
      BY <1>1, <1>3, <2>1
    <2>. QED  BY <1>3, <1>5, <2>2 DEF OneOpenIn
  <1>. QED  BY <1>1, <1>3, <1>4, <1>5

(* One current row per id, domain and writer, though times are out of      *)
(* order and saves and tools share the tables.                             *)
THEOREM OneOpenRowHolds == Spec => []OneOpenRow
  <1> DEFINE Inv == OneOpenIn(nodes) /\ OneOpenIn(edges)
  <1>1. Init => Inv
    BY DEF Init, OneOpenIn
  <1>2. TypeOK /\ Inv /\ [Next]_vars => Inv'
    <2> SUFFICES ASSUME TypeOK, Inv, [Next]_vars PROVE Inv'
      OBVIOUS
    <2>1. ASSUME NEW t \in Time, NEW id \in Ids, NEW d \in Domains, NEW v \in Payloads,
                 NodeModify(id, d, v, t)
          PROVE  Inv'
      <3>1. OneOpenIn(nodes')
        BY <2>1, InsertKeepsOne DEF NodeModify, TypeOK, Values
      <3>2. edges' = edges
        BY <2>1 DEF NodeModify
      <3>. QED  BY <3>1, <3>2 DEF OneOpenIn
    <2>2. ASSUME NEW t \in Time, NEW p \in Proposals, NEW c \in Contents, Propose(p, c, t)
          PROVE  Inv'
      BY <2>2 DEF Propose, OneOpenIn
    <2>3. ASSUME NEW t \in Time, NEW p \in Proposals, NEW st \in {"approved", "rejected"},
                 SetStatus(p, st, t)
          PROVE  Inv'
      BY <2>3 DEF SetStatus, OneOpenIn
    <2>4. ASSUME NEW t \in Time, NEW p \in Proposals, Applicable(p),
                 NEW id \in EdgeIdsFor(p), Apply(p, id, t)
          PROVE  Inv'
      <3>1. proposals[p].content \in Contents
        BY <2>4 DEF Applicable, TypeOK, Proposal
      <3>2. id \in Ids /\ DomainOf[proposals[p].content] \in Domains
        BY <3>1, GraphConstants DEF EdgeIdsFor
      <3>3. OneOpenIn(edges')
        BY <2>4, <3>1, <3>2, InsertKeepsOne DEF Apply, TypeOK, Values
      <3>4. nodes' = nodes
        BY <2>4 DEF Apply
      <3>. QED  BY <3>3, <3>4 DEF OneOpenIn
    <2>5. ASSUME NEW t \in Time, NEW run \in Runs, NEW n \in Found(Payloads),
                 NEW e \in Found(Contents), Save(run, n, e, t)
          PROVE  Inv'
      <3>1. PICK D \in SUBSET Ids : n \in [D -> Values]
        BY FoundType DEF Values
      <3>2. PICK E \in SUBSET Ids : e \in [E -> Values]
        BY FoundType DEF Values
      <3>3. OneOpenIn(nodes')
        BY <2>5, <3>1, SaveKeepsOne DEF Save, TypeOK
      <3>4. OneOpenIn(edges')
        BY <2>5, <3>2, SaveKeepsOne DEF Save, TypeOK
      <3>. QED  BY <3>3, <3>4 DEF OneOpenIn
    <2>6. CASE UNCHANGED vars
      BY <2>6 DEF vars, OneOpenIn
    <2>. QED  BY <2>1, <2>2, <2>3, <2>4, <2>5, <2>6 DEF Next
  <1>3. Inv => OneOpenRow
    BY DEF OneOpenRow, OneOpenIn
  <1>. QED  BY <1>1, <1>2, <1>3, TypeCorrect, PTL DEF Spec

-----------------------------------------------------------------------------
\* History.

LEMMA InsertKeepsHistory ==
    ASSUME NEW T \in SUBSET Row, NEW S, NEW t \in Time, NEW x, NEW r \in T
    PROVE  \E q \in Closed(T, S, t) \cup {x} : Succeeds(q, r)
  BY ClosedSucceeds DEF Succeeds

(* No row is lost, reopened or closed twice, unless a save of the same     *)
(* instant takes its place.                                                *)
THEOREM HistoryHolds == Spec => HistoryIsKept
  <1> DEFINE Kept == /\ \A r \in nodes : \E q \in nodes' : Succeeds(q, r)
                     /\ \A r \in edges : \E q \in edges' : Succeeds(q, r)
  <1>1. TypeOK /\ [Next]_vars => [Kept]_vars
    <2> SUFFICES ASSUME TypeOK, Next PROVE Kept
      OBVIOUS
    <2>0. \A r : Succeeds(r, r)
      BY DEF Succeeds
    <2>1. ASSUME NEW t \in Time, NEW id \in Ids, NEW d \in Domains, NEW v \in Payloads,
                 NodeModify(id, d, v, t)
          PROVE  Kept
      BY <2>0, <2>1, InsertKeepsHistory DEF NodeModify, TypeOK
    <2>2. ASSUME NEW t \in Time, NEW p \in Proposals, NEW c \in Contents, Propose(p, c, t)
          PROVE  Kept
      BY <2>0, <2>2 DEF Propose
    <2>3. ASSUME NEW t \in Time, NEW p \in Proposals, NEW st \in {"approved", "rejected"},
                 SetStatus(p, st, t)
          PROVE  Kept
      BY <2>0, <2>3 DEF SetStatus
    <2>4. ASSUME NEW t \in Time, NEW p \in Proposals, NEW id \in EdgeIdsFor(p), Apply(p, id, t)
          PROVE  Kept
      BY <2>0, <2>4, InsertKeepsHistory DEF Apply, TypeOK
    <2>5. ASSUME NEW t \in Time, NEW run \in Runs, NEW n \in Found(Payloads),
                 NEW e \in Found(Contents), Save(run, n, e, t)
          PROVE  Kept
      <3>1. PICK D \in SUBSET Ids : n \in [D -> Values]
        BY FoundType DEF Values
      <3>2. PICK E \in SUBSET Ids : e \in [E -> Values]
        BY FoundType DEF Values
      <3>3. nodes' = Indexed(nodes, n, run, t) /\ edges' = Indexed(edges, e, run, t)
        BY <2>5 DEF Save
      <3>. QED  BY <3>1, <3>2, <3>3, IndexedSucceeds DEF TypeOK
    <2>. QED  BY <2>1, <2>2, <2>3, <2>4, <2>5 DEF Next
  <1>. QED  BY <1>1, TypeCorrect, PTL DEF Spec, HistoryIsKept

-----------------------------------------------------------------------------
\* The log of events.

LEMMA LogGrows ==
    ASSUME TypeOK, NEW e, log' = Append(log, e)
    PROVE  /\ Len(log) \in Nat /\ Len(log') = Len(log) + 1
           /\ DOMAIN log = 1 .. Len(log) /\ DOMAIN log' = 1 .. Len(log) + 1
           /\ \A k \in 1 .. Len(log) : log'[k] = log[k]
           /\ log'[Len(log) + 1] = e
  BY DEF TypeOK

(* What the last event and the last proposal are for p. *)
Stands(p) ==
    IF proposals[p] = None THEN \A k \in DOMAIN log : ~About(k, p)
    ELSE \E k \in DOMAIN log :
            /\ Latest(k, Len(log) + 1, p)
            /\ proposals[p].status = StatusAfter(log[k].op)

Says(p) ==
    proposals[p] # None =>
       \E i \in DOMAIN log :
          ProposedLast(i, Len(log) + 1, p) /\ log[i].value = proposals[p].content

LEMMA EventAbout ==
    ASSUME TypeOK, NEW e, log' = Append(log, e), NEW p \in Proposals,
           e.target = p \/ e.via = p,
           proposals'[p] # None, proposals'[p].status = StatusAfter(e.op)
    PROVE  Stands(p)'
  <1>0. PICK n \in Nat : n = Len(log) + 1
    BY LogGrows
  <1>1. Len(log') = n /\ n \in DOMAIN log' /\ log'[n] = e
    BY <1>0, LogGrows
  <1>2. Latest(n, n + 1, p)'
    BY <1>1 DEF Latest, About
  <1>. QED  BY <1>1, <1>2 DEF Stands

LEMMA EventNotAbout ==
    ASSUME TypeOK, NEW e, log' = Append(log, e), NEW p \in Proposals, Stands(p),
           ~(e.target = p \/ e.via = p), proposals'[p] = proposals[p]
    PROVE  Stands(p)'
  <1>0. PICK n \in Nat : n = Len(log) + 1
    BY LogGrows
  <1>1. /\ Len(log) \in Nat /\ Len(log') = n /\ log'[n] = e
        /\ DOMAIN log = 1 .. Len(log) /\ DOMAIN log' = 1 .. n
        /\ \A k \in 1 .. Len(log) : log'[k] = log[k]
    BY <1>0, LogGrows
  <1>2. CASE proposals[p] = None
    BY <1>1, <1>2 DEF Stands, About
  <1>3. CASE proposals[p] # None
    <2>1. PICK k \in DOMAIN log : /\ Latest(k, n, p)
                                  /\ proposals[p].status = StatusAfter(log[k].op)
      BY <1>0, <1>3 DEF Stands
    <2>2. Latest(k, n + 1, p)'
      BY <1>1, <2>1 DEF Latest, About
    <2>. QED  BY <1>1, <1>3, <2>1, <2>2 DEF Stands
  <1>. QED  BY <1>2, <1>3

LEMMA ProposalSays ==
    ASSUME TypeOK, NEW e, log' = Append(log, e), NEW p \in Proposals,
           e.op = "propose_edge", e.target = p, proposals'[p].content = e.value
    PROVE  Says(p)'
  <1>0. PICK n \in Nat : n = Len(log) + 1
    BY LogGrows
  <1>1. Len(log') = n /\ n \in DOMAIN log' /\ log'[n] = e
    BY <1>0, LogGrows
  <1>2. ProposedLast(n, n + 1, p)'
    BY <1>1 DEF ProposedLast, IsProposalOf
  <1>. QED  BY <1>1, <1>2 DEF Says

LEMMA OtherEventSays ==
    ASSUME TypeOK, NEW e, log' = Append(log, e), NEW p \in Proposals, Says(p),
           ~(e.op = "propose_edge" /\ e.target = p),
           proposals'[p] # None => /\ proposals[p] # None
                                   /\ proposals'[p].content = proposals[p].content
    PROVE  Says(p)'
  <1>0. PICK n \in Nat : n = Len(log) + 1
    BY LogGrows
  <1>1. /\ Len(log) \in Nat /\ Len(log') = n /\ log'[n] = e
        /\ DOMAIN log = 1 .. Len(log) /\ DOMAIN log' = 1 .. n
        /\ \A k \in 1 .. Len(log) : log'[k] = log[k]
    BY <1>0, LogGrows
  <1>2. SUFFICES ASSUME proposals'[p] # None PROVE Says(p)'
    BY DEF Says
  <1>3. PICK i \in DOMAIN log :
           ProposedLast(i, n, p) /\ log[i].value = proposals[p].content
    BY <1>0, <1>2 DEF Says
  <1>4. ProposedLast(i, n + 1, p)'
    BY <1>1, <1>3 DEF ProposedLast, IsProposalOf
  <1>. QED  BY <1>1, <1>2, <1>3, <1>4 DEF Says

(* The events that bear r out. *)
BorneOut(r) == r.via # None =>
   \E k \in DOMAIN log :
      /\ log[k].op = "apply_edge" /\ log[k].at = r.from
      /\ log[k].target = r.id /\ log[k].via = r.via
      /\ \E j \in DOMAIN log : Latest(j, k, r.via) /\ log[j].op = "approved"
      /\ \E i \in DOMAIN log : ProposedLast(i, k, r.via) /\ log[i].value = r.value

LEMMA BorneOutStays ==
    ASSUME TypeOK, NEW e, log' = log \/ log' = Append(log, e), NEW r, NEW q, BorneOut(r),
           q.id = r.id, q.value = r.value, q.via = r.via, q.from = r.from
    PROVE  BorneOut(q)'
  <1>1. /\ DOMAIN log \subseteq DOMAIN log' /\ DOMAIN log = 1 .. Len(log)
        /\ Len(log) \in Nat /\ \A k \in 1 .. Len(log) : log'[k] = log[k]
    BY LogGrows DEF TypeOK
  <1>2. SUFFICES ASSUME r.via # None PROVE BorneOut(q)'
    BY DEF BorneOut
  <1>3. PICK k \in DOMAIN log :
      /\ log[k].op = "apply_edge" /\ log[k].at = r.from
      /\ log[k].target = r.id /\ log[k].via = r.via
      /\ \E j \in DOMAIN log : Latest(j, k, r.via) /\ log[j].op = "approved"
      /\ \E i \in DOMAIN log : ProposedLast(i, k, r.via) /\ log[i].value = r.value
    BY <1>2 DEF BorneOut
  <1>4. PICK j \in DOMAIN log : Latest(j, k, r.via) /\ log[j].op = "approved"
    BY <1>3
  <1>5. PICK i \in DOMAIN log : ProposedLast(i, k, r.via) /\ log[i].value = r.value
    BY <1>3
  <1>6. PICK p : p = r.via /\ p = q.via
    OBVIOUS
  <1>7. j < k /\ About(j, p) /\ \A m \in (j + 1) .. (k - 1) : ~About(m, p)
    BY <1>4, <1>6 DEF Latest
  <1>8. Latest(j, k, p)'
    BY <1>1, <1>7 DEF Latest, About
  <1>9. ProposedLast(i, k, p)'
    BY <1>1, <1>5, <1>6 DEF ProposedLast, IsProposalOf
  <1>10. Latest(j, k, q.via)' /\ ProposedLast(i, k, q.via)'
    BY <1>6, <1>8, <1>9
  <1>11. /\ k \in DOMAIN log' /\ j \in DOMAIN log' /\ i \in DOMAIN log'
         /\ log'[k] = log[k] /\ log'[j] = log[j] /\ log'[i] = log[i]
    BY <1>1
  <1>. QED  BY <1>3, <1>4, <1>5, <1>10, <1>11 DEF BorneOut

LogInv == /\ \A p \in Proposals : Stands(p) /\ Says(p)
          /\ \A r \in edges : BorneOut(r)

(* A tool that touches only one proposal, and no edge. *)
LEMMA ProposalStep ==
    ASSUME TypeOK, LogInv, NEW e, log' = Append(log, e), NEW p \in Proposals,
           \A q \in Proposals : q # p => proposals'[q] = proposals[q],
           edges' = edges, e.target = p, e.via = None,
           proposals'[p] # None, proposals'[p].status = StatusAfter(e.op),
           \/ e.op = "propose_edge" /\ proposals'[p].content = e.value
           \/ /\ e.op # "propose_edge" /\ proposals[p] # None
              /\ proposals'[p].content = proposals[p].content
    PROVE  LogInv'
  <1>1. Stands(p)' /\ Says(p)'
    <2>1. Stands(p)'
      BY EventAbout
    <2>2. Says(p)'
      BY ProposalSays, OtherEventSays DEF LogInv
    <2>. QED  BY <2>1, <2>2
  <1>2. ASSUME NEW q \in Proposals, q # p PROVE Stands(q)' /\ Says(q)'
    <2>1. ~(e.target = q \/ e.via = q)
      BY <1>2, GraphConstants
    <2>2. proposals'[q] = proposals[q] /\ Stands(q) /\ Says(q)
      BY <1>2 DEF LogInv
    <2>3. Stands(q)'
      BY <2>1, <2>2, EventNotAbout
    <2>4. Says(q)'
      BY <2>1, <2>2, OtherEventSays
    <2>. QED  BY <2>3, <2>4
  <1>3. ASSUME NEW r \in edges PROVE BorneOut(r)'
    BY BorneOutStays DEF LogInv
  <1>. QED  BY <1>1, <1>2, <1>3 DEF LogInv

LEMMA ApplyStep ==
    ASSUME TypeOK, LogInv, NEW t \in Time, NEW p \in Proposals, Applicable(p),
           NEW id \in EdgeIdsFor(p), Apply(p, id, t)
    PROVE  LogInv'
  <1>0. PICK c : c = proposals[p].content
    OBVIOUS
  <1> DEFINE e == [op |-> "apply_edge", target |-> id, at |-> t, value |-> None, via |-> p]
             x == NewRow(id, DomainOf[c], c, p, t, None)
  <1>1. log' = Append(log, e)
    BY DEF Apply, Logged
  <1>2. /\ proposals[p] \in Proposal /\ proposals[p] # None /\ proposals[p].status = "approved"
        /\ None \notin Proposals
    BY GraphConstants DEF Applicable, TypeOK
  <1>3. id \in Ids
    BY <1>2, GraphConstants DEF EdgeIdsFor, Proposal
  <1>4. /\ proposals' = [proposals EXCEPT ![p].status = "applied", ![p].edge = id]
        /\ edges' = Closed(edges, Of(edges, id, DomainOf[c]), t) \cup {x}
    BY <1>0 DEF Apply
  <1>5. /\ proposals'[p] \in Proposal /\ proposals'[p].status = "applied"
        /\ proposals'[p].content = c
    BY <1>0, <1>2, <1>3, <1>4 DEF TypeOK, Proposal
  <1>6. proposals'[p] # None
    BY <1>5, NoneIsNoProposal
  <1>7. ASSUME NEW q \in Proposals PROVE Stands(q)' /\ Says(q)'
    <2>1. e.op = "apply_edge" /\ e.target = id /\ e.via = p
      OBVIOUS
    <2>. HIDE DEF e
    <2>2. id # q
      BY <1>3, GraphConstants
    <2>3. CASE q = p
      <3>1. Stands(q)'
        BY <1>1, <1>5, <1>6, <2>1, <2>3, EventAbout DEF StatusAfter
      <3>2. Says(q)'
        BY <1>0, <1>1, <1>2, <1>5, <2>1, <2>2, <2>3, OtherEventSays DEF LogInv
      <3>. QED  BY <3>1, <3>2
    <2>4. CASE q # p
      <3>1. proposals'[q] = proposals[q] /\ Stands(q) /\ Says(q)
        BY <1>4, <2>4 DEF TypeOK, LogInv
      <3>2. Stands(q)'
        BY <1>1, <2>1, <2>2, <2>4, <3>1, EventNotAbout
      <3>3. Says(q)'
        BY <1>1, <2>1, <2>2, <3>1, OtherEventSays
      <3>. QED  BY <3>2, <3>3
    <2>. QED  BY <2>3, <2>4
  <1>8. BorneOut(x)'
    <2>0. PICK n \in Nat : n = Len(log) + 1
      BY LogGrows
    <2>1. /\ n \in DOMAIN log' /\ DOMAIN log \subseteq DOMAIN log'
          /\ DOMAIN log = 1 .. (n - 1) /\ log'[n] = e
          /\ \A k \in DOMAIN log : log'[k] = log[k]
      BY <1>1, <2>0, LogGrows
    <2>2. PICK j \in DOMAIN log : Latest(j, n, p) /\ "approved" = StatusAfter(log[j].op)
      BY <1>2, <2>0 DEF LogInv, Stands
    <2>3. log[j].op = "approved"
      BY <2>2 DEF StatusAfter
    <2>4. PICK i \in DOMAIN log : ProposedLast(i, n, p) /\ log[i].value = c
      BY <1>0, <1>2, <2>0 DEF LogInv, Says
    <2>5. Latest(j, n, p)'
      BY <2>1, <2>2 DEF Latest, About
    <2>6. ProposedLast(i, n, p)'
      BY <2>1, <2>4 DEF ProposedLast, IsProposalOf
    <2>7. x.id = id /\ x.via = p /\ x.from = t /\ x.value = c
      BY DEF NewRow
    <2>8. /\ log'[n].op = "apply_edge" /\ log'[n].target = id
          /\ log'[n].via = p /\ log'[n].at = t
      BY <2>1
    <2>. HIDE DEF x, e
    <2>9. Latest(j, n, x.via)' /\ ProposedLast(i, n, x.via)'
      BY <2>5, <2>6, <2>7
    <2>10. /\ j \in DOMAIN log' /\ i \in DOMAIN log' /\ log'[j].op = "approved"
           /\ log'[i].value = x.value
      BY <2>1, <2>3, <2>4, <2>7
    <2>. QED  BY <2>1, <2>7, <2>8, <2>9, <2>10 DEF BorneOut
  <1>9. ASSUME NEW q \in edges' PROVE BorneOut(q)'
    <2>1. CASE q = x
      BY <1>8, <2>1
    <2>2. CASE q \in Closed(edges, Of(edges, id, DomainOf[c]), t)
      <3>1. PICK r \in edges : /\ q.id = r.id /\ q.value = r.value
                               /\ q.via = r.via /\ q.from = r.from
        BY <2>2, ClosedRows DEF TypeOK
      <3>2. BorneOut(r)
        BY DEF LogInv
      <3>. QED  BY <1>1, <3>1, <3>2, BorneOutStays
    <2>. QED  BY <1>4, <2>1, <2>2
  <1>. QED  BY <1>7, <1>9 DEF LogInv

LEMMA NodeStep ==
    ASSUME TypeOK, LogInv, NEW t \in Time, NEW id \in Ids, NEW d \in Domains,
           NEW v \in Payloads, NodeModify(id, d, v, t)
    PROVE  LogInv'
  <1> DEFINE e == [op |-> "upsert_node", target |-> id, at |-> t, value |-> v, via |-> None]
  <1>1. /\ log' = Append(log, e) /\ edges' = edges /\ proposals' = proposals
        /\ e.op = "upsert_node" /\ e.target = id /\ e.via = None
    BY DEF NodeModify, Logged
  <1>. HIDE DEF e
  <1>2. ASSUME NEW q \in Proposals PROVE Stands(q)' /\ Says(q)'
    <2>1. ~(e.target = q \/ e.via = q) /\ ~(e.op = "propose_edge" /\ e.target = q)
      BY <1>1, GraphConstants
    <2>2. Stands(q)'
      BY <1>1, <2>1, EventNotAbout DEF LogInv
    <2>3. Says(q)'
      BY <1>1, <2>1, OtherEventSays DEF LogInv
    <2>. QED  BY <2>2, <2>3
  <1>3. ASSUME NEW r \in edges PROVE BorneOut(r)'
    BY <1>1, BorneOutStays DEF LogInv
  <1>. QED  BY <1>1, <1>2, <1>3 DEF LogInv

LEMMA SaveStep ==
    ASSUME TypeOK, LogInv, NEW t \in Time, NEW run \in Runs, NEW n \in Found(Payloads),
           NEW f \in Found(Contents), Save(run, n, f, t)
    PROVE  LogInv'
  <1>1. log' = log /\ proposals' = proposals /\ edges' = Indexed(edges, f, run, t)
    BY DEF Save
  <1>2. ASSUME NEW q \in Proposals PROVE Stands(q)' /\ Says(q)'
    <2>1. Stands(q) /\ Says(q)
      BY DEF LogInv
    <2>2. Stands(q)'
      BY <1>1, <2>1 DEF Stands, Latest, About
    <2>3. Says(q)'
      BY <1>1, <2>1 DEF Says, ProposedLast, IsProposalOf
    <2>. QED  BY <2>2, <2>3
  <1>3. ASSUME NEW q \in edges' PROVE BorneOut(q)'
    <2>1. PICK D \in SUBSET Ids : f \in [D -> Values]
      BY FoundType DEF Values
    <2>. q \in Indexed(edges, f, run, t) /\ edges \in SUBSET Row
      BY <1>1, <1>3 DEF TypeOK
    <2>3. CASE \E id \in D : q = NewRow(id, Catalog, f[id], None, t, run)
      <3>1. q.via = None
        BY <2>3 DEF NewRow
      <3>. QED  BY <3>1 DEF BorneOut
    <2>4. CASE \E r \in edges :
                 /\ q.id = r.id /\ q.domain = r.domain /\ q.value = r.value
                 /\ q.via = r.via /\ q.from = r.from /\ q.run = r.run
                 /\ q.to = Open => /\ q = r
                                   /\ ~(r.domain = Catalog /\ r.run = run /\ r.id \in D)
      <3>1. PICK r \in edges : /\ q.id = r.id /\ q.value = r.value
                               /\ q.via = r.via /\ q.from = r.from
        BY <2>4
      <3>2. BorneOut(r)
        BY DEF LogInv
      <3>. QED  BY <1>1, <3>1, <3>2, BorneOutStays
    <2>. QED  BY <2>1, <2>3, <2>4, IndexedRows
  <1>. QED  BY <1>2, <1>3 DEF LogInv

(* What stands for each proposal and each edge is borne out by the events. *)
THEOREM LogInvariant == Spec => []LogInv
  <1>1. Init => LogInv
    BY DEF Init, LogInv, Stands, Says
  <1>2. TypeOK /\ LogInv /\ [Next]_vars => LogInv'
    <2> SUFFICES ASSUME TypeOK, LogInv, [Next]_vars PROVE LogInv'
      OBVIOUS
    <2>1. ASSUME NEW t \in Time, NEW p \in Proposals, NEW c \in Contents, Propose(p, c, t)
          PROVE  LogInv'
      <3> DEFINE e == [op |-> "propose_edge", target |-> p, at |-> t, value |-> c,
                       via |-> None]
      <3>1. /\ log' = Append(log, e) /\ e.op = "propose_edge" /\ e.target = p
            /\ e.value = c /\ e.via = None /\ edges' = edges
        BY <2>1 DEF Propose, Logged
      <3>. HIDE DEF e
      <3>2. /\ proposals'[p] = [content |-> c, status |-> "proposed", edge |-> None]
            /\ \A q \in Proposals : q # p => proposals'[q] = proposals[q]
        BY <2>1 DEF Propose, TypeOK
      <3>3. proposals'[p] # None
        BY <3>2, NoneIsNoProposal DEF Proposal
      <3>4. proposals'[p].status = StatusAfter(e.op) /\ proposals'[p].content = e.value
        BY <3>1, <3>2 DEF StatusAfter
      <3>. QED  BY <3>1, <3>2, <3>3, <3>4, ProposalStep
    <2>2. ASSUME NEW t \in Time, NEW p \in Proposals, NEW st \in {"approved", "rejected"},
                 SetStatus(p, st, t)
          PROVE  LogInv'
      <3> DEFINE e == [op |-> st, target |-> p, at |-> t, value |-> None, via |-> None]
      <3>1. /\ log' = Append(log, e) /\ e.op = st /\ e.target = p
            /\ e.via = None /\ edges' = edges
        BY <2>2 DEF SetStatus, Logged
      <3>. HIDE DEF e
      <3>2. proposals[p] \in Proposal /\ proposals[p] # None
        BY <2>2 DEF SetStatus, TypeOK
      <3>3. /\ proposals'[p] \in Proposal /\ proposals'[p].status = st
            /\ proposals'[p].content = proposals[p].content
            /\ \A q \in Proposals : q # p => proposals'[q] = proposals[q]
        BY <2>2, <3>2 DEF SetStatus, TypeOK, Proposal
      <3>4. proposals'[p] # None
        BY <3>3, NoneIsNoProposal
      <3>5. proposals'[p].status = StatusAfter(e.op) /\ e.op # "propose_edge"
        BY <3>1, <3>3 DEF StatusAfter
      <3>. QED  BY <3>1, <3>2, <3>3, <3>4, <3>5, ProposalStep
    <2>3. CASE UNCHANGED vars
      BY <2>3 DEF vars, LogInv, Stands, Says, BorneOut, Latest, About, ProposedLast,
                  IsProposalOf
    <2>. QED  BY <2>1, <2>2, <2>3, NodeStep, ApplyStep, SaveStep DEF Next
  <1>. QED  BY <1>1, <1>2, TypeCorrect, PTL DEF Spec

(* The events tell where each proposal stands, after any mix of tools and  *)
(* saves.                                                                  *)
THEOREM LogTellsStatusHolds == Spec => []LogTellsStatus
  <1>1. LogInv => LogTellsStatus
    BY DEF LogInv, Stands, LogTellsStatus
  <1>. QED  BY <1>1, LogInvariant, PTL

(* No edge comes by a proposal but what was proposed last before an        *)
(* approval that was the last word on it.                                  *)
THEOREM EdgesWereApprovedHolds == Spec => []EdgesWereApproved
  <1>1. LogInv => EdgesWereApproved
    BY DEF LogInv, BorneOut, EdgesWereApproved
  <1>. QED  BY <1>1, LogInvariant, PTL
=============================================================================
