-------------------------- MODULE LiveUploadProofs --------------------------
(***************************************************************************)
(* Proofs about LiveUpload, for any names and packages.                    *)
(***************************************************************************)
EXTENDS LiveUpload, SequenceTheorems, TLAPS

-----------------------------------------------------------------------------
\* Lemmas on sequences, and on the operators of the model.

LEMMA ReverseType ==
    ASSUME NEW S, NEW s \in Seq(S)
    PROVE  /\ Reverse(s) \in Seq(S)
           /\ DOMAIN Reverse(s) = DOMAIN s
           /\ ToSet(Reverse(s)) = ToSet(s)
  <1>1. Reverse(s) \in Seq(S) /\ Len(Reverse(s)) = Len(s) /\ DOMAIN Reverse(s) = 1 .. Len(s)
    BY DEF Reverse
  <1>2. \A i \in 1 .. Len(s) : Reverse(s)[i] = s[Len(s) - i + 1]
    BY DEF Reverse
  <1>3. \A i \in 1 .. Len(s) : Len(s) - i + 1 \in 1 .. Len(s)
                               /\ s[i] = Reverse(s)[Len(s) - i + 1]
    BY <1>2
  <1>4. ToSet(s) = {s[i] : i \in 1 .. Len(s)}
    BY DEF ToSet
  <1>5. ToSet(Reverse(s)) = {Reverse(s)[i] : i \in 1 .. Len(s)}
    BY <1>1 DEF ToSet
  <1>6. ToSet(Reverse(s)) = ToSet(s)
    BY <1>2, <1>3, <1>4, <1>5
  <1>. QED  BY <1>1, <1>6

LEMMA ToSetIs ==
    ASSUME NEW S, NEW s \in Seq(S)
    PROVE  /\ ToSet(s) \subseteq S
           /\ \A i \in DOMAIN s : s[i] \in ToSet(s)
           /\ \A x \in ToSet(s) : \E i \in DOMAIN s : x = s[i]
  BY DEF ToSet

LEMMA ToSetConcat ==
    ASSUME NEW S, NEW s \in Seq(S), NEW t \in Seq(S)
    PROVE  /\ s \o t \in Seq(S)
           /\ ToSet(s \o t) = ToSet(s) \cup ToSet(t)
  <1>1. /\ s \o t \in Seq(S)
        /\ DOMAIN (s \o t) = 1 .. Len(s) + Len(t)
        /\ \A i \in 1 .. Len(s) : (s \o t)[i] = s[i]
        /\ \A i \in 1 .. Len(t) : (s \o t)[Len(s) + i] = t[i]
    OBVIOUS
  <1>2. \A i \in 1 .. Len(s) + Len(t) :
           i \in 1 .. Len(s) \/ (i - Len(s) \in 1 .. Len(t) /\ i = Len(s) + (i - Len(s)))
    OBVIOUS
  <1>3. ASSUME NEW x \in ToSet(s \o t) PROVE x \in ToSet(s) \cup ToSet(t)
    <2>1. PICK i \in 1 .. Len(s) + Len(t) : x = (s \o t)[i]
      BY <1>1, ToSetIs
    <2>. QED  BY <1>1, <1>2, <2>1 DEF ToSet
  <1>4. ASSUME NEW x \in ToSet(s) PROVE x \in ToSet(s \o t)
    <2>1. PICK i \in 1 .. Len(s) : x = s[i]
      BY ToSetIs
    <2>2. i \in DOMAIN (s \o t) /\ x = (s \o t)[i]
      BY <1>1, <2>1
    <2>. QED  BY <2>2 DEF ToSet
  <1>5. ASSUME NEW x \in ToSet(t) PROVE x \in ToSet(s \o t)
    <2>1. PICK i \in 1 .. Len(t) : x = t[i]
      BY ToSetIs
    <2>2. Len(s) + i \in DOMAIN (s \o t) /\ x = (s \o t)[Len(s) + i]
      BY <1>1, <2>1
    <2>. QED  BY <2>2 DEF ToSet
  <1>. QED  BY <1>1, <1>3, <1>4, <1>5

LEMMA ToSetAppend ==
    ASSUME NEW S, NEW s \in Seq(S), NEW x \in S
    PROVE  /\ Append(s, x) \in Seq(S)
           /\ ToSet(Append(s, x)) = ToSet(s) \cup {x}
  <1>1. /\ Append(s, x) \in Seq(S)
        /\ DOMAIN Append(s, x) = 1 .. Len(s) + 1
        /\ \A i \in 1 .. Len(s) : Append(s, x)[i] = s[i]
        /\ Append(s, x)[Len(s) + 1] = x
    OBVIOUS
  <1>2. ASSUME NEW y \in ToSet(Append(s, x)) PROVE y \in ToSet(s) \cup {x}
    <2>1. PICK i \in 1 .. Len(s) + 1 : y = Append(s, x)[i]
      BY <1>1, ToSetIs
    <2>2. i \in 1 .. Len(s) \/ i = Len(s) + 1
      OBVIOUS
    <2>. QED  BY <1>1, <2>1, <2>2 DEF ToSet
  <1>3. ASSUME NEW y \in ToSet(s) PROVE y \in ToSet(Append(s, x))
    <2>1. PICK i \in 1 .. Len(s) : y = s[i]
      BY ToSetIs
    <2>2. i \in DOMAIN Append(s, x) /\ y = Append(s, x)[i]
      BY <1>1, <2>1
    <2>. QED  BY <2>2 DEF ToSet
  <1>4. x \in ToSet(Append(s, x))
    <2>1. Len(s) + 1 \in DOMAIN Append(s, x)
      BY <1>1
    <2>. QED  BY <1>1, <2>1 DEF ToSet
  <1>. QED  BY <1>1, <1>2, <1>3, <1>4

RowSet == {"structure", "store", "hook"} \X Names \X (Names \cup {None})

LEMMA TaggedType ==
    ASSUME NEW kind \in {"structure", "store", "hook"},
           NEW T \in SUBSET (Names \cup {None}), NEW s \in Seq(Names \X T)
    PROVE  /\ Tagged(kind, s) \in Seq(RowSet)
           /\ Len(Tagged(kind, s)) = Len(s)
           /\ \A i \in 1 .. Len(s) : /\ Tagged(kind, s)[i] = <<kind, s[i][1], s[i][2]>>
                                    /\ s[i][2] \in T
  <1> DEFINE t == Tagged(kind, s)
  <1>1. Len(s) \in Nat /\ DOMAIN s = 1 .. Len(s)
    OBVIOUS
  <1>2. \A i \in 1 .. Len(s) : s[i] \in Names \X T
    OBVIOUS
  <1>3. \A i \in 1 .. Len(s) : s[i][1] \in Names /\ s[i][2] \in T
    BY <1>2
  <1>4. t = [i \in 1 .. Len(s) |-> <<kind, s[i][1], s[i][2]>>]
    BY <1>1 DEF Tagged
  <1>5. \A i \in 1 .. Len(s) : <<kind, s[i][1], s[i][2]>> \in RowSet
    BY <1>3 DEF RowSet
  <1>. HIDE DEF t
  <1>6. t \in [1 .. Len(s) -> RowSet]
    BY <1>4, <1>5
  <1>7. t \in Seq(RowSet) /\ Len(t) = Len(s)
    BY <1>1, <1>6
  <1>. QED  BY <1>3, <1>4, <1>7 DEF t

Joined(a, b, c) == (a \o b) \o c

LEMMA ThreeParts ==
    ASSUME NEW S, NEW a \in Seq(S), NEW b \in Seq(S), NEW c \in Seq(S)
    PROVE  LET s == Joined(a, b, c) IN
           /\ s \in Seq(S) /\ DOMAIN s = 1 .. Len(a) + Len(b) + Len(c)
           /\ Len(s) >= Len(a)
           /\ \A i \in 1 .. Len(a) : s[i] = a[i]
           /\ \A i \in DOMAIN s :
                 \/ i \in 1 .. Len(a)
                 \/ i > Len(a) /\ \E k \in 1 .. Len(b) : s[i] = b[k]
                 \/ \E k \in 1 .. Len(c) : s[i] = c[k]
  <1>1. /\ a \o b \in Seq(S) /\ Len(a \o b) = Len(a) + Len(b)
        /\ \A i \in 1 .. Len(a) + Len(b) :
              (a \o b)[i] = IF i <= Len(a) THEN a[i] ELSE b[i - Len(a)]
    BY ConcatProperties
  <1>2. Len(a) \in Nat /\ Len(b) \in Nat /\ Len(c) \in Nat
    OBVIOUS
  <1> DEFINE d == a \o b
             s == Joined(a, b, c)
  <1>0. s = d \o c
    BY DEF Joined
  <1>. HIDE DEF d, s
  <1>3. /\ s \in Seq(S) /\ Len(s) = Len(a) + Len(b) + Len(c)
        /\ \A i \in 1 .. Len(a) + Len(b) + Len(c) :
              s[i] = IF i <= Len(a) + Len(b) THEN d[i] ELSE c[i - (Len(a) + Len(b))]
    BY <1>0, <1>1, <1>2 DEF d
  <1>4. \A i \in 1 .. Len(a) : s[i] = a[i]
    BY <1>1, <1>2, <1>3 DEF d
  <1>5. ASSUME NEW i \in 1 .. Len(a) + Len(b) + Len(c), i > Len(a)
        PROVE  \/ \E k \in 1 .. Len(b) : s[i] = b[k]
               \/ \E k \in 1 .. Len(c) : s[i] = c[k]
    <2>1. CASE i <= Len(a) + Len(b)
      <3>1. i - Len(a) \in 1 .. Len(b) /\ s[i] = b[i - Len(a)]
        BY <1>1, <1>2, <1>3, <1>5, <2>1 DEF d
      <3>. QED  BY <3>1
    <2>2. CASE i > Len(a) + Len(b)
      <3>1. i - (Len(a) + Len(b)) \in 1 .. Len(c) /\ s[i] = c[i - (Len(a) + Len(b))]
        BY <1>2, <1>3, <1>5, <2>2
      <3>. QED  BY <3>1
    <2>. QED  BY <1>2, <2>1, <2>2
  <1>6. DOMAIN s = 1 .. Len(a) + Len(b) + Len(c) /\ Len(s) >= Len(a)
    BY <1>2, <1>3
  <1>7. \A i \in DOMAIN s : i \in 1 .. Len(a) \/ i > Len(a)
    BY <1>2, <1>6
  <1>. QED  BY <1>3, <1>4, <1>5, <1>6, <1>7 DEF s

LEMMA RowsOf ==
    ASSUME NEW p \in Packages
    PROVE  LET rows == Rows(p) IN
           /\ p \in Package
           /\ rows \in Seq(RowSet)
           /\ DOMAIN p.structures = 1 .. Len(p.structures) /\ Len(p.structures) \in Nat
           /\ Len(rows) >= Len(p.structures)
           /\ \A i \in DOMAIN p.structures : rows[i] = <<"structure", p.structures[i][1], None>>
           /\ \A i \in DOMAIN rows : rows[i][1] = "store" =>
                 /\ i > Len(p.structures)
                 /\ rows[i][3] \in Names
                 /\ \E k \in DOMAIN p.stores : rows[i][3] = p.stores[k][2]
  <1> DEFINE a == Tagged("structure", p.structures)
             b == Tagged("store", p.stores)
             c == Tagged("hook", p.hooks)
  <1>. HIDE DEF a, b, c
  <1>1. p \in Package
    BY UploadConstants
  <1>2. /\ p.structures \in Seq(Names \X {None})
        /\ p.stores \in Seq(Names \X Names)
        /\ p.hooks \in Seq(Names \X {None})
    <2> DEFINE S == Seq(Names \X {None})
               T == Seq(Names \X Names)
    <2>. HIDE DEF S, T
    <2>1. p \in [structures : S, stores : T, hooks : S,
                 fields : [Fields -> Names \cup {None}], writable : SUBSET Fields,
                 connections : SUBSET [source : Names, paths : SUBSET Fields],
                 requires : SUBSET Names, notes : {"none", "sound", "absent modules"},
                 listed : BOOLEAN]
      BY <1>1 DEF Package, S, T
    <2>2. p.structures \in S /\ p.stores \in T /\ p.hooks \in S
      BY <2>1
    <2>. QED  BY <2>2 DEF S, T
  <1>3. /\ a \in Seq(RowSet) /\ Len(a) = Len(p.structures)
        /\ \A i \in 1 .. Len(p.structures) :
              a[i] = <<"structure", p.structures[i][1], p.structures[i][2]>>
              /\ p.structures[i][2] = None
    <2>1. {None} \in SUBSET (Names \cup {None})
      OBVIOUS
    <2>. QED  BY <1>2, <2>1, TaggedType DEF a
  <1>4. /\ b \in Seq(RowSet) /\ Len(b) = Len(p.stores)
        /\ \A i \in 1 .. Len(p.stores) :
              b[i] = <<"store", p.stores[i][1], p.stores[i][2]>> /\ p.stores[i][2] \in Names
    <2>1. Names \in SUBSET (Names \cup {None})
      OBVIOUS
    <2>. QED  BY <1>2, <2>1, TaggedType DEF b
  <1>5. /\ c \in Seq(RowSet) /\ Len(c) = Len(p.hooks)
        /\ \A i \in 1 .. Len(p.hooks) : c[i] = <<"hook", p.hooks[i][1], p.hooks[i][2]>>
    <2>1. {None} \in SUBSET (Names \cup {None})
      OBVIOUS
    <2>. QED  BY <1>2, <2>1, TaggedType DEF c
  <1>6. Rows(p) = (a \o b) \o c
    BY DEF Rows, a, b, c
  <1>7. /\ Rows(p) \in Seq(RowSet) /\ Len(Rows(p)) >= Len(a)
        /\ \A i \in 1 .. Len(a) : Rows(p)[i] = a[i]
        /\ \A i \in DOMAIN Rows(p) :
              \/ i \in 1 .. Len(a)
              \/ i > Len(a) /\ \E k \in 1 .. Len(b) : Rows(p)[i] = b[k]
              \/ \E k \in 1 .. Len(c) : Rows(p)[i] = c[k]
    <2>1. a \in Seq(RowSet) /\ b \in Seq(RowSet) /\ c \in Seq(RowSet)
      BY <1>3, <1>4, <1>5
    <2>2. Rows(p) = Joined(a, b, c)
      BY <1>6 DEF Joined
    <2>3. LET s == Joined(a, b, c) IN
          /\ s \in Seq(RowSet) /\ Len(s) >= Len(a)
          /\ \A i \in 1 .. Len(a) : s[i] = a[i]
          /\ \A i \in DOMAIN s :
                \/ i \in 1 .. Len(a)
                \/ i > Len(a) /\ \E k \in 1 .. Len(b) : s[i] = b[k]
                \/ \E k \in 1 .. Len(c) : s[i] = c[k]
      BY <2>1, ThreeParts
    <2>. QED  BY <2>2, <2>3
  <1>8. /\ DOMAIN p.structures = 1 .. Len(p.structures) /\ Len(p.structures) \in Nat
        /\ DOMAIN p.stores = 1 .. Len(p.stores)
    BY <1>2
  <1>9. ASSUME NEW i \in DOMAIN Rows(p), Rows(p)[i][1] = "store"
        PROVE  /\ i > Len(p.structures)
               /\ Rows(p)[i][3] \in Names
               /\ \E k \in DOMAIN p.stores : Rows(p)[i][3] = p.stores[k][2]
    <2>1. i \notin 1 .. Len(a)
      BY <1>3, <1>7, <1>9
    <2>2. \A k \in 1 .. Len(c) : Rows(p)[i] # c[k]
      BY <1>5, <1>9
    <2>3. i > Len(a) /\ \E k \in 1 .. Len(b) : Rows(p)[i] = b[k]
      BY <1>7, <2>1, <2>2
    <2>. QED  BY <1>3, <1>4, <1>8, <2>3
  <1>10. \A i \in DOMAIN p.structures : Rows(p)[i] = <<"structure", p.structures[i][1], None>>
    BY <1>3, <1>7, <1>8
  <1>. QED  BY <1>1, <1>3, <1>7, <1>8, <1>9, <1>10

LEMMA SeqGrows == \A S, T : \A s \in Seq(S) : S \subseteq T => s \in Seq(T)
  OBVIOUS

Object(ids) == [kind : Kinds, name : Names \cup {None}, refs : SUBSET ids]

LEMMA Types ==
    ASSUME TypeOK
    PROVE  /\ objects \in Seq(Object(Ids)) /\ Ids = 1 .. Len(objects) /\ Len(objects) \in Nat
           /\ \A i \in Ids : objects[i].kind \in Kinds /\ objects[i].refs \subseteq Ids
           /\ \A k \in Kinds : created[k] \in Seq(Ids)
           /\ \A k \in DOMAIN bound : bound[k] \in Ids
  <1>1. objects \in Seq(Object(Ids))
    BY DEF TypeOK, Object
  <1>2. Ids = 1 .. Len(objects) /\ Len(objects) \in Nat
    BY <1>1 DEF Ids
  <1>3. \A i \in Ids : objects[i] \in Object(Ids)
    BY <1>1, <1>2
  <1>4. \A i \in Ids : objects[i].kind \in Kinds /\ objects[i].refs \subseteq Ids
    BY <1>3 DEF Object
  <1>. QED  BY <1>1, <1>2, <1>4 DEF TypeOK

(* A POST that is carried out adds one object; the others stay.            *)
LEMMA MadeAdds ==
    ASSUME TypeOK, NEW kind \in Kinds, NEW name \in Names \cup {None},
           NEW refs \in SUBSET Ids, Made(kind, name, refs)
    PROVE  /\ objects' \in Seq(Object(Ids'))
           /\ Len(objects') = Len(objects) + 1
           /\ Ids = 1 .. Len(objects) /\ Ids' = 1 .. Len(objects')
           /\ Ids' = Ids \cup {Len(objects')} /\ Len(objects') \notin Ids
           /\ \A i \in Ids : objects'[i] = objects[i]
           /\ objects'[Len(objects')] = [kind |-> kind, name |-> name, refs |-> refs]
           /\ live' = live \cup {Len(objects')}
  <1> DEFINE new == [kind |-> kind, name |-> name, refs |-> refs]
  <1>1. objects \in Seq(Object(Ids))
    BY DEF TypeOK, Object
  <1>2. /\ Ids = 1 .. Len(objects) /\ Len(objects) \in Nat
        /\ objects' = Append(objects, new)
        /\ live' = live \cup {Len(objects')}
    BY <1>1 DEF Ids, Made
  <1>. HIDE DEF new
  <1>3. /\ Len(objects') = Len(objects) + 1
        /\ Ids' = 1 .. Len(objects')
        /\ \A i \in Ids : objects'[i] = objects[i]
        /\ objects'[Len(objects')] = new
    BY <1>1, <1>2 DEF Ids
  <1>4. Ids' = Ids \cup {Len(objects')} /\ Len(objects') \notin Ids
    BY <1>2, <1>3
  <1>5. Object(Ids) \subseteq Object(Ids') /\ new \in Object(Ids')
    BY <1>4 DEF Object, new
  <1>6. objects' \in Seq(Object(Ids'))
    <2>1. objects \in Seq(Object(Ids'))
      BY <1>1, <1>5, SeqGrows
    <2>. QED  BY <1>2, <1>5, <2>1, ToSetAppend
  <1>. QED  BY <1>2, <1>3, <1>4, <1>6 DEF new

(* What an upload knows to have created, in the order it deletes it.       *)
LEMMA KnownType ==
    ASSUME TypeOK
    PROVE  /\ Known(created) \in Seq(Ids)
           /\ ToSet(Known(created)) = UNION {ToSet(created[k]) : k \in Kinds}
  <1> DEFINE a == Reverse(created["scenario"])
             b == Reverse(created["hook"])
             c == Reverse(created["store"])
             d == Reverse(created["structure"])
  <1>1. \A k \in Kinds : created[k] \in Seq(Ids)
    BY DEF TypeOK
  <1>2. /\ a \in Seq(Ids) /\ ToSet(a) = ToSet(created["scenario"])
        /\ b \in Seq(Ids) /\ ToSet(b) = ToSet(created["hook"])
        /\ c \in Seq(Ids) /\ ToSet(c) = ToSet(created["store"])
        /\ d \in Seq(Ids) /\ ToSet(d) = ToSet(created["structure"])
    BY <1>1, ReverseType DEF Kinds
  <1> DEFINE e == a \o b
             f == e \o c
  <1>3. Known(created) = f \o d
    BY <1>2 DEF Known
  <1>. HIDE DEF a, b, c, d, e, f
  <1>4. e \in Seq(Ids) /\ ToSet(e) = ToSet(a) \cup ToSet(b)
    BY <1>2, ToSetConcat DEF e
  <1>5. f \in Seq(Ids) /\ ToSet(f) = ToSet(e) \cup ToSet(c)
    BY <1>2, <1>4, ToSetConcat DEF f
  <1>6. /\ f \o d \in Seq(Ids)
        /\ ToSet(f \o d) = ToSet(f) \cup ToSet(d)
    BY <1>2, <1>5, ToSetConcat
  <1>. QED  BY <1>2, <1>3, <1>4, <1>5, <1>6 DEF Kinds

-----------------------------------------------------------------------------
\* Types.

LEMMA InitTypeOK == Init => TypeOK
  <1>. SUFFICES ASSUME Init PROVE TypeOK
    OBVIOUS
  <1>1. Ids = {}
    BY DEF Init, Ids
  <1>2. created \in [Kinds -> Seq(Ids)] /\ \A k \in Kinds : ToSet(created[k]) = {}
    BY DEF Init, Nothing, ToSet
  <1>3. DOMAIN bound = {}
    BY DEF Init, Empty
  <1>. QED  BY <1>1, <1>2, <1>3 DEF Init, TypeOK, ended

LEMMA StartType ==
    ASSUME TypeOK, Begin
    PROVE  /\ TypeOK'
           /\ pc = "idle" /\ pc' \in {"refused", "blocked", "resources"}
           /\ UNCHANGED <<make, at, local, history, faultless>>
  <1>1. PICK p \in Packages, cleanup \in BOOLEAN, command \in BOOLEAN :
           \E given \in SUBSET Keys(Sources(p)), values \in SUBSET Keys(Asked(p)) :
              Start(p, given, values, cleanup, command)
    BY DEF Begin
  <1>2. PICK given \in SUBSET Keys(Sources(p)), values \in SUBSET Keys(Asked(p)) :
           Start(p, given, values, cleanup, command)
    BY <1>1
  <1>3. values \subseteq Names
    <2>1. p.requires \subseteq Names /\ \A f \in Fields : p.fields[f] \in Names \cup {None}
      BY UploadConstants DEF Package
    <2>2. Asked(p) \subseteq Names
      BY <2>1 DEF Asked
    <2>. QED  BY <2>2, UploadConstants DEF Keys
  <1>4. /\ asked'.package \in Packages /\ asked'.rows = Rows(asked'.package)
        /\ asked'.values \subseteq Names /\ asked'.cleanup \in BOOLEAN
    BY <1>2, <1>3 DEF Start
  <1>5. /\ pc = "idle" /\ pc' \in {"refused", "blocked", "resources"}
        /\ UNCHANGED <<make, at, local, history, faultless>>
    BY <1>2 DEF Start, Begin
  <1>. QED  BY <1>4, <1>5 DEF TypeOK, make, local, history, Ids, ended

(* What Failed does to the upload's own state.                             *)
LEMMA FailedType ==
    ASSUME TypeOK, Failed, pc # "idle"
    PROVE  /\ pc' \in {"rollback", "failed"} /\ todo' \in Seq(Ids)
           /\ pc' = "rollback" => todo' = Known(created)
           /\ pc' = "failed" => ~asked.cleanup
           /\ UNCHANGED <<at, created, bound>>
  BY KnownType DEF Failed, TypeOK

(* A kind of resource, with its key, and the answer to its POST.           *)
LEMMA AnsweredType ==
    ASSUME TypeOK, NEW kind \in Kinds, NEW name \in Names \cup {None},
           NEW refs \in SUBSET Ids, NEW key,
           Made(kind, name, refs), Answered(kind, key),
           UNCHANGED <<noted, asked, undeleted, unreached>>,
           at' \in Nat \ {0},
           pc' \in {"resources", "notes"}, pc # "idle"
    PROVE  TypeOK'
  <1> DEFINE id == Len(objects')
  <1>1. /\ objects' \in Seq(Object(Ids'))
        /\ Ids \subseteq Ids' /\ id \in Ids'
        /\ \A i \in Ids : objects'[i] = objects[i]
        /\ objects'[id].kind = kind
        /\ live' = live \cup {id}
    <2>1. [kind |-> kind, name |-> name, refs |-> refs].kind = kind
      OBVIOUS
    <2>. QED  BY MadeAdds, <2>1
  <1>. HIDE DEF id
  <1>2. \A k \in Kinds : created[k] \in Seq(Ids) /\ created[k] \in Seq(Ids')
    BY <1>1, SeqGrows DEF TypeOK
  <1>3. /\ Append(created[kind], id) \in Seq(Ids')
        /\ ToSet(Append(created[kind], id)) = ToSet(created[kind]) \cup {id}
    BY <1>1, <1>2, ToSetAppend
  <1>4. created' = [created EXCEPT ![kind] = Append(created[kind], id)]
    BY DEF Answered, id
  <1>5. created' \in [Kinds -> Seq(Ids')]
    BY <1>2, <1>3, <1>4 DEF TypeOK
  <1>6. \A k \in Kinds : \A i \in ToSet(created'[k]) : objects'[i].kind = k
    <2>1. \A k \in Kinds : \A i \in ToSet(created[k]) : i \in Ids /\ objects[i].kind = k
      BY <1>2, ToSetIs DEF TypeOK
    <2>2. \A k \in Kinds : created'[k] = IF k = kind THEN Append(created[kind], id) ELSE created[k]
      BY <1>4 DEF TypeOK
    <2>. QED  BY <1>1, <1>3, <2>1, <2>2
  <1>7. \A k \in DOMAIN bound' : bound'[k] \in Ids'
    BY <1>1 DEF Answered, Bound, TypeOK, id
  <1>8. todo' \in Seq(Ids')
    BY <1>1, SeqGrows DEF Answered, TypeOK
  <1>9. /\ live' \subseteq Ids' /\ noted' \subseteq Ids' /\ lost' \subseteq Ids'
        /\ undeleted' \subseteq Ids' /\ unreached' \subseteq Ids' /\ faultless' \in BOOLEAN
    BY <1>1 DEF Answered, TypeOK
  <1>10. asked' = asked /\ pc' # "idle"
    OBVIOUS
  <1>. QED  BY <1>1, <1>5, <1>6, <1>7, <1>8, <1>9, <1>10 DEF TypeOK, Object

LEMMA UnansweredType ==
    ASSUME TypeOK, NEW kind \in Kinds, NEW name \in Names \cup {None},
           NEW refs \in SUBSET Ids,
           Made(kind, name, refs), Unanswered,
           UNCHANGED <<noted, asked, undeleted, unreached>>, pc # "idle"
    PROVE  TypeOK'
  <1>1. /\ objects' \in Seq(Object(Ids'))
        /\ Ids \subseteq Ids' /\ Len(objects') \in Ids'
        /\ \A i \in Ids : objects'[i] = objects[i]
        /\ live' = live \cup {Len(objects')}
    BY MadeAdds
  <1>2. /\ pc' \in {"rollback", "failed"} /\ todo' \in Seq(Ids)
        /\ UNCHANGED <<at, created, bound>>
    BY FailedType DEF Unanswered
  <1>3. \A k \in Kinds : created[k] \in Seq(Ids) /\ created[k] \in Seq(Ids')
    BY <1>1, SeqGrows DEF TypeOK
  <1>4. created' \in [Kinds -> Seq(Ids')]
    BY <1>2, <1>3 DEF TypeOK
  <1>5. \A k \in Kinds : \A i \in ToSet(created'[k]) : objects'[i].kind = k
    <2>1. \A k \in Kinds : \A i \in ToSet(created[k]) : i \in Ids /\ objects[i].kind = k
      BY <1>3, ToSetIs DEF TypeOK
    <2>. QED  BY <1>1, <1>2, <2>1
  <1>6. todo' \in Seq(Ids') /\ \A k \in DOMAIN bound' : bound'[k] \in Ids'
    BY <1>1, <1>2, SeqGrows DEF TypeOK
  <1>7. /\ live' \subseteq Ids' /\ noted' \subseteq Ids' /\ lost' \subseteq Ids'
        /\ undeleted' \subseteq Ids' /\ unreached' \subseteq Ids' /\ faultless' \in BOOLEAN
    BY <1>1 DEF Unanswered, TypeOK
  <1>8. asked' = asked /\ at' = at
    BY <1>2
  <1>. QED  BY <1>1, <1>2, <1>4, <1>5, <1>6, <1>7, <1>8 DEF TypeOK, Object, ended

(* A failure that leaves Make alone.                                       *)
LEMMA FailedAloneType ==
    ASSUME TypeOK, Failed, pc # "idle",
           UNCHANGED <<objects, live, asked, history>>, noted' \subseteq Ids,
           faultless' \in BOOLEAN
    PROVE  TypeOK'
  <1>1. /\ pc' \in {"rollback", "failed"} /\ todo' \in Seq(Ids)
        /\ UNCHANGED <<at, created, bound>>
    BY FailedType
  <1>2. Ids' = Ids
    BY DEF Ids
  <1>. QED  BY <1>1, <1>2 DEF TypeOK, history, ended

(* A row of the package, with what its object refers to.                   *)
LEMMA RowType ==
    ASSUME TypeOK, pc = "resources", at <= Len(asked.rows)
    PROVE  LET row == asked.rows[at] IN
           /\ asked.package \in Packages /\ asked.rows = Rows(asked.package)
           /\ at \in DOMAIN asked.rows
           /\ row \in RowSet
           /\ row[1] \in Kinds \ {"scenario"} /\ row[2] \in Names
           /\ ~Unbindable(row) => RefsOf(row) \in SUBSET Ids
  <1>0. asked.package \in Packages /\ asked.rows = Rows(asked.package)
    BY DEF TypeOK
  <1>1. asked.rows \in Seq(RowSet)
    BY <1>0, RowsOf
  <1>2. at \in 1 .. Len(asked.rows)
    BY <1>1 DEF TypeOK
  <1>3. asked.rows[at] \in RowSet
    BY <1>1, <1>2
  <1>. QED  BY <1>0, <1>1, <1>2, <1>3 DEF RowSet, TypeOK, Kinds, RefsOf, Unbindable

LEMMA CreateType ==
    ASSUME TypeOK, Create
    PROVE  TypeOK'
  <1> DEFINE row == asked.rows[at]
  <1>1. pc = "resources" /\ at <= Len(asked.rows) /\ ~Unbindable(row)
    BY DEF Create
  <1>2. row[1] \in Kinds /\ row[2] \in Names \cup {None} /\ RefsOf(row) \in SUBSET Ids
    BY <1>1, RowType
  <1>. HIDE DEF row
  <1>3. CASE /\ Made(row[1], row[2], RefsOf(row)) /\ Answered(row[1], Key(row[1], row[2]))
             /\ at' = at + 1
             /\ UNCHANGED pc
    <2>1. at' \in Nat \ {0}
      BY <1>3 DEF TypeOK
    <2>. QED  BY <1>1, <1>2, <1>3, <2>1, AnsweredType DEF Create
  <1>4. CASE Made(row[1], row[2], RefsOf(row)) /\ Unanswered
    BY <1>1, <1>2, <1>4, UnansweredType DEF Create
  <1>5. CASE Refused
    BY <1>1, <1>5, FailedAloneType DEF Create, Refused, make, history, TypeOK
  <1>. QED  BY <1>3, <1>4, <1>5 DEF Create, row

LEMMA BindType ==
    ASSUME TypeOK, Bind
    PROVE  TypeOK'
  <1>1. CASE Bindable
    BY <1>1 DEF Bind, TypeOK, make, local, history, Ids
  <1>2. CASE ~Bindable
    <2>1. Failed /\ pc # "idle" /\ UNCHANGED <<objects, live, noted, asked, history, faultless>>
      BY <1>2 DEF Bind, make
    <2>. QED  BY <2>1, FailedAloneType DEF TypeOK
  <1>. QED  BY <1>1, <1>2

LEMMA BoundRefsType ==
    ASSUME TypeOK
    PROVE  BoundRefs \in SUBSET Ids
  BY DEF BoundRefs, TypeOK

(* What is bound while the scenario is made and after.                     *)
Resolvable ==
    pc \in {"scenario", "notes", "compare", "applied"} => Bindable

LEMMA CreateScenarioType ==
    ASSUME TypeOK, Resolvable, CreateScenario
    PROVE  TypeOK'
  <1>1. BoundRefs \in SUBSET Ids
    BY BoundRefsType DEF Resolvable, CreateScenario
  <1>2. "scenario" \in Kinds /\ None \in Names \cup {None} /\ pc # "idle"
    BY DEF Kinds, CreateScenario
  <1>3. CASE /\ Made("scenario", None, BoundRefs) /\ Answered("scenario", <<"scenario", None>>)
             /\ pc' = "notes"
             /\ UNCHANGED at
    <2>1. at' \in Nat \ {0}
      BY <1>3 DEF TypeOK
    <2>. QED  BY <1>1, <1>2, <1>3, <2>1, AnsweredType DEF CreateScenario
  <1>4. CASE Made("scenario", None, BoundRefs) /\ Unanswered
    BY <1>1, <1>2, <1>4, UnansweredType DEF CreateScenario
  <1>5. CASE Refused
    BY <1>2, <1>5, FailedAloneType DEF CreateScenario, Refused, make, history, TypeOK
  <1>. QED  BY <1>3, <1>4, <1>5 DEF CreateScenario

(* The scenario of notes is the one object that was created for it.        *)
OneScenario ==
    /\ pc \in {"idle", "resources", "scenario"} => created["scenario"] = <<>>
    /\ pc \in {"notes", "compare", "applied"} =>
          /\ objects # <<>>
          /\ Len(created["scenario"]) = 1
          /\ created["scenario"][1] = Len(objects)

LEMMA ScenarioIs ==
    ASSUME TypeOK, OneScenario, pc \in {"notes", "compare", "applied"}
    PROVE  /\ scenario = Len(objects)
           /\ scenario \in Ids
  <1>1. scenario = Len(objects)
    BY DEF OneScenario, scenario, Last
  <1>2. Len(objects) \in Ids
    BY DEF OneScenario, Ids, TypeOK
  <1>. QED  BY <1>1, <1>2

LEMMA CreateNotesType ==
    ASSUME TypeOK, OneScenario, CreateNotes
    PROVE  TypeOK'
  <1>1. scenario \in Ids /\ pc = "notes" /\ UNCHANGED <<objects, live, asked, history>>
    BY ScenarioIs DEF CreateNotes
  <1>2. noted' \subseteq Ids
    BY <1>1 DEF CreateNotes, TypeOK
  <1>3. CASE Failed
    BY <1>1, <1>2, <1>3, FailedAloneType DEF CreateNotes, TypeOK
  <1>4. CASE pc' = "compare" /\ UNCHANGED <<at, local, faultless>>
    BY <1>1, <1>2, <1>4 DEF TypeOK, local, history, Ids
  <1>. QED  BY <1>3, <1>4 DEF CreateNotes

LEMMA CompareType ==
    ASSUME TypeOK, Compare
    PROVE  TypeOK'
  <1>1. pc = "compare" /\ UNCHANGED <<objects, live, noted, asked, history>>
    BY DEF Compare, make
  <1>2. CASE Failed
    <2>1. noted' \subseteq Ids /\ faultless' \in BOOLEAN
      BY <1>1 DEF Compare, TypeOK
    <2>. QED  BY <1>1, <1>2, <2>1, FailedAloneType
  <1>3. CASE pc' = "applied" /\ UNCHANGED <<at, local, faultless>>
    BY <1>1, <1>3 DEF TypeOK, local, history, Ids, ended
  <1>. QED  BY <1>2, <1>3 DEF Compare

(* What a delete does to the list of those that are left.                  *)
LEMMA DeleteDoes ==
    ASSUME TypeOK, Delete
    PROVE  /\ Head(todo) \in Ids /\ Tail(todo) \in Seq(Ids)
           /\ Head(todo) = todo[1] /\ 1 \in DOMAIN todo
           /\ ToSet(todo) = {Head(todo)} \cup ToSet(Tail(todo))
           /\ DOMAIN Tail(todo) = 1 .. Len(todo) - 1
           /\ \A i \in DOMAIN Tail(todo) : i + 1 \in DOMAIN todo /\ Tail(todo)[i] = todo[i + 1]
  <1>1. todo \in Seq(Ids) /\ todo # <<>>
    BY DEF TypeOK, Delete
  <1>2. /\ Head(todo) \in Ids /\ Tail(todo) \in Seq(Ids)
        /\ Head(todo) = todo[1] /\ 1 \in DOMAIN todo
        /\ DOMAIN Tail(todo) = 1 .. Len(todo) - 1
        /\ \A i \in DOMAIN Tail(todo) : i + 1 \in DOMAIN todo /\ Tail(todo)[i] = todo[i + 1]
    BY <1>1
  <1>3. \A i \in DOMAIN todo : i = 1 \/ (i - 1 \in DOMAIN Tail(todo) /\ todo[i] = Tail(todo)[i - 1])
    BY <1>1, <1>2
  <1>4. ASSUME NEW x \in ToSet(todo) PROVE x \in {Head(todo)} \cup ToSet(Tail(todo))
    BY <1>2, <1>3 DEF ToSet
  <1>5. ASSUME NEW x \in {Head(todo)} \cup ToSet(Tail(todo)) PROVE x \in ToSet(todo)
    <2>1. CASE x = Head(todo)
      BY <1>2, <2>1 DEF ToSet
    <2>2. CASE x \in ToSet(Tail(todo))
      <3>1. PICK i \in DOMAIN Tail(todo) : x = Tail(todo)[i]
        BY <2>2 DEF ToSet
      <3>. QED  BY <1>2, <3>1 DEF ToSet
    <2>. QED  BY <1>5, <2>1, <2>2
  <1>. QED  BY <1>2, <1>4, <1>5

LEMMA DeleteType ==
    ASSUME TypeOK, Delete
    PROVE  TypeOK'
  <1>1. /\ Head(todo) \in Ids /\ ToSet(Tail(todo)) \subseteq Ids
        /\ todo' \in Seq(Ids) /\ pc = "rollback" /\ pc' \in {"rollback", "failed"}
    <2>1. <<>> \in Seq(Ids)
      OBVIOUS
    <2>. QED  BY <2>1, DeleteDoes, ToSetIs DEF Delete
  <1>2. UNCHANGED <<objects, noted, asked, at, created, bound, lost, faultless>>
    BY DEF Delete
  <1>3. live' \subseteq Ids /\ undeleted' \subseteq Ids /\ unreached' \subseteq Ids
    BY <1>1 DEF Delete, Deleted, NotDeleted, TypeOK
  <1>. QED  BY <1>1, <1>2, <1>3 DEF TypeOK, Ids, ended

-----------------------------------------------------------------------------
\* What is bound, and what has been made, at each call.

Working == {"resources", "scenario", "notes", "compare"}

Untouched ==
    pc = "idle" => /\ objects = <<>> /\ live = {} /\ bound = Empty /\ at = 1

(* Every step of Step but those of the rollback makes an object that it    *)
(* hears of, or makes one that it does not, or fails, or goes on.          *)
Hears(kind, name, refs, key) ==
    /\ Made(kind, name, refs) /\ Answered(kind, key)
    /\ \/ /\ kind # "scenario" /\ pc = "resources"
          /\ pc' = pc /\ at' = at + 1 /\ at <= Len(asked.rows)
          /\ key = Key(kind, name)
          /\ kind = asked.rows[at][1] /\ name = asked.rows[at][2]
          /\ refs = RefsOf(asked.rows[at]) /\ ~Unbindable(asked.rows[at])
       \/ /\ kind = "scenario" /\ pc = "scenario"
          /\ pc' = "notes" /\ at' = at
          /\ name = None /\ refs = BoundRefs /\ key = <<"scenario", None>>
    /\ UNCHANGED <<noted, asked, undeleted, unreached>>

(* An answer that does not arrive.                                         *)
Misses(kind, name, refs) ==
    /\ Made(kind, name, refs) /\ Unanswered
    /\ \/ /\ pc = "resources" /\ at <= Len(asked.rows)
          /\ kind = asked.rows[at][1] /\ name = asked.rows[at][2]
          /\ refs = RefsOf(asked.rows[at]) /\ ~Unbindable(asked.rows[at])
       \/ kind = "scenario" /\ name = None /\ refs = BoundRefs /\ pc = "scenario"
    /\ UNCHANGED <<noted, asked, undeleted, unreached>>

(* What is wrong with a package that cannot be uploaded, as it was asked.  *)
Flaw(a) ==
    \/ \E i \in DOMAIN a.package.stores :
          \A j \in DOMAIN a.package.structures :
             a.package.stores[i][2] # a.package.structures[j][1]
    \/ \E c \in a.package.connections : ~(c.paths \subseteq a.package.writable)
    \/ \E f \in Fields :
          LET n == a.package.fields[f] IN
          /\ n # None /\ n \notin a.values
          /\ \A i \in DOMAIN a.rows : a.rows[i][1] = "structure" \/ a.rows[i][2] # n
          /\ \A c \in a.package.connections :
                f \notin c.paths /\ ~(c.source = n /\ c.paths = {})
    \/ a.package.notes = "absent modules"

(* A failure that adds no object: a fault, or a flaw that was met.         *)
Fails ==
    /\ Failed /\ pc \in Working
    /\ \/ faultless' = FALSE
       \/ CannotCreate
       \/ /\ pc = "resources" /\ at > Len(asked.rows) /\ faultless' = faultless
          /\ ~Bindable
       \/ package.notes = "absent modules" /\ faultless' = faultless
    /\ UNCHANGED <<objects, live, asked, history>>

GoesOn ==
    /\ \/ /\ pc = "resources" /\ pc' = "scenario" /\ at > Len(asked.rows)
          /\ Bindable
          /\ noted' = noted
       \/ /\ pc = "notes" /\ pc' = "compare"
          /\ noted' = noted \/ noted' = noted \cup {scenario}
          /\ package.notes = "sound" => noted' = noted \cup {scenario}
       \/ pc = "compare" /\ pc' = "applied" /\ noted' = noted
    /\ UNCHANGED <<objects, live, asked, at, local, history, faultless>>

LEMMA Steps ==
    ASSUME TypeOK, Resolvable, Step
    PROVE  \/ \E kind \in Kinds, name \in Names \cup {None}, refs \in SUBSET Ids :
                 \/ \E key : Hears(kind, name, refs, key)
                 \/ Misses(kind, name, refs)
           \/ Fails
           \/ GoesOn
           \/ Delete
           \/ RolledBack
  <1>1. CASE Create
    <2> DEFINE row == asked.rows[at]
    <2>1. pc = "resources" /\ at <= Len(asked.rows) /\ ~Unbindable(row)
      BY <1>1 DEF Create
    <2>2. /\ row[1] \in Kinds /\ row[2] \in Names \cup {None} /\ RefsOf(row) \in SUBSET Ids
          /\ row[1] # "scenario"
      BY <2>1, RowType
    <2>3. CASE /\ Made(row[1], row[2], RefsOf(row)) /\ Answered(row[1], Key(row[1], row[2]))
               /\ at' = at + 1
               /\ UNCHANGED pc
      <3>1. Hears(row[1], row[2], RefsOf(row), Key(row[1], row[2]))
        BY <1>1, <2>1, <2>2, <2>3 DEF Hears, Create
      <3>. QED  BY <2>2, <3>1
    <2>4. CASE Made(row[1], row[2], RefsOf(row)) /\ Unanswered
      <3>1. Misses(row[1], row[2], RefsOf(row))
        BY <1>1, <2>1, <2>4 DEF Misses, Create
      <3>. QED  BY <2>2, <3>1
    <2>5. CASE Refused
      BY <1>1, <2>1, <2>5 DEF Fails, Working, Create, Refused, make, history
    <2>. QED  BY <1>1, <2>3, <2>4, <2>5 DEF Create
  <1>2. CASE CannotCreate
    BY <1>2 DEF CannotCreate, Fails, Working, make
  <1>3. CASE Bind
    <2>1. pc = "resources" /\ at > Len(asked.rows)
      BY <1>3 DEF Bind
    <2>2. CASE Bindable
      BY <1>3, <2>1, <2>2 DEF Bind, GoesOn, make
    <2>3. CASE ~Bindable
      BY <1>3, <2>1, <2>3 DEF Bind, Fails, Working, make
    <2>. QED  BY <2>2, <2>3
  <1>4. CASE CreateScenario
    <2>1. /\ BoundRefs \in SUBSET Ids /\ pc = "scenario"
          /\ "scenario" \in Kinds /\ None \in Names \cup {None}
      BY <1>4, BoundRefsType DEF Resolvable, CreateScenario, Kinds
    <2>2. CASE /\ Made("scenario", None, BoundRefs)
               /\ Answered("scenario", <<"scenario", None>>)
               /\ pc' = "notes"
               /\ UNCHANGED at
      <3>1. Hears("scenario", None, BoundRefs, <<"scenario", None>>)
        BY <1>4, <2>1, <2>2 DEF Hears, CreateScenario
      <3>. QED  BY <2>1, <3>1
    <2>3. CASE Made("scenario", None, BoundRefs) /\ Unanswered
      <3>1. Misses("scenario", None, BoundRefs)
        BY <1>4, <2>1, <2>3 DEF Misses, CreateScenario
      <3>. QED  BY <2>1, <3>1
    <2>4. CASE Refused
      BY <1>4, <2>1, <2>4 DEF Fails, Working, CreateScenario, Refused, make, history
    <2>. QED  BY <1>4, <2>2, <2>3, <2>4 DEF CreateScenario
  <1>5. CASE CreateNotes
    <2>1. pc = "notes" /\ UNCHANGED <<objects, live, asked, history>>
      BY <1>5 DEF CreateNotes
    <2>2. CASE Failed
      <3>1. faultless' = FALSE \/ (package.notes = "absent modules" /\ faultless' = faultless)
        BY <1>5, <2>1, <2>2 DEF CreateNotes, Failed
      <3>. QED  BY <2>1, <2>2, <3>1 DEF Fails, Working
    <2>3. CASE pc' = "compare"
      <3>1. /\ noted' = noted \/ noted' = noted \cup {scenario}
            /\ package.notes = "sound" => noted' = noted \cup {scenario}
            /\ UNCHANGED <<at, local, faultless>>
        BY <1>5, <2>3 DEF CreateNotes, Failed
      <3>. QED  BY <2>1, <2>3, <3>1 DEF GoesOn
    <2>. QED  BY <1>5, <2>2, <2>3 DEF CreateNotes
  <1>6. CASE Compare
    <2>1. pc = "compare" /\ UNCHANGED <<objects, live, noted, asked, history>>
      BY <1>6 DEF Compare, make
    <2>2. CASE pc' = "applied" /\ UNCHANGED <<at, local, faultless>>
      BY <2>1, <2>2 DEF GoesOn
    <2>3. CASE faultless' = FALSE /\ Failed
      BY <2>1, <2>3 DEF Fails, Working
    <2>. QED  BY <1>6, <2>2, <2>3 DEF Compare
  <1>. QED  BY <1>1, <1>2, <1>3, <1>4, <1>5, <1>6 DEF Step

-----------------------------------------------------------------------------
(* Values have their types, and the states of the call fit what is made.   *)
Base == TypeOK /\ Resolvable /\ OneScenario /\ Untouched

LEMMA InitBase == Init => Base
  BY InitTypeOK DEF Init, Base, Resolvable, OneScenario, Untouched, Nothing, Kinds

LEMMA StepBase ==
    ASSUME Base, Step
    PROVE  Base'
  <1>1. TypeOK'
    <2>1. CASE CannotCreate
      BY <2>1, FailedAloneType DEF Base, CannotCreate, make, history, TypeOK
    <2>2. CASE RolledBack
      BY <2>2 DEF Base, RolledBack, make, local, history, TypeOK, Ids, ended
    <2>. QED  BY <2>1, <2>2, CreateType, BindType, CreateScenarioType, CreateNotesType,
              CompareType, DeleteType DEF Base, Step
  <1>2. Untouched'
    BY DEF Base, Step, Create, CannotCreate, Bind, CreateScenario, CreateNotes, Compare,
       Delete, RolledBack, Failed, Refused, Unanswered, local, Untouched
  <1>3. ASSUME NEW kind \in Kinds, NEW name \in Names \cup {None},
               NEW refs \in SUBSET Ids, NEW key, Hears(kind, name, refs, key)
        PROVE  Resolvable' /\ OneScenario'
    <2>1. DOMAIN bound \subseteq DOMAIN bound' /\ asked' = asked
      BY <1>3 DEF Hears, Answered, Bound
    <2>2. Bindable => Bindable'
      BY <2>1 DEF Bindable, Resolved, Replaced, package
    <2>3. Resolvable'
      BY <1>3, <2>2 DEF Base, Resolvable, Hears
    <2>4. created' = [created EXCEPT ![kind] = Append(created[kind], Len(objects'))]
      BY <1>3 DEF Hears, Answered
    <2>5. CASE kind # "scenario"
      <3>1. created'["scenario"] = created["scenario"]
        BY <2>4, <2>5 DEF Base, TypeOK, Kinds
      <3>. QED  BY <1>3, <2>3, <2>5, <3>1 DEF Base, OneScenario, Hears
    <2>6. CASE kind = "scenario"
      <3>1. created["scenario"] = <<>> /\ pc' = "notes"
        BY <1>3, <2>6 DEF Base, OneScenario, Hears
      <3>2. Len(created'["scenario"]) = 1 /\ created'["scenario"][1] = Len(objects')
        BY <2>4, <2>6, <3>1 DEF Base, TypeOK, Kinds
      <3>3. objects' # <<>>
        <4>1. Len(objects') = Len(objects) + 1
          BY <1>3, MadeAdds DEF Base, Hears
        <4>2. Len(objects) \in Nat
          BY Types DEF Base
        <4>. QED  BY <4>1, <4>2
      <3>. QED  BY <2>3, <3>1, <3>2, <3>3 DEF OneScenario
    <2>. QED  BY <2>5, <2>6
  <1>4. ASSUME pc' \in {"rollback", "failed"} PROVE Resolvable' /\ OneScenario'
    BY <1>4 DEF Resolvable, OneScenario
  <1>5. ASSUME GoesOn PROVE Resolvable' /\ OneScenario'
    <2>1. Bindable => Bindable'
      BY <1>5 DEF GoesOn, Bindable, Resolved, Replaced, package, local
    <2>2. Resolvable'
      BY <1>5, <2>1 DEF GoesOn, Base, Resolvable
    <2>3. OneScenario'
      BY <1>5 DEF GoesOn, Base, OneScenario, local
    <2>. QED  BY <2>2, <2>3
  <1>6. Fails \/ Delete \/ RolledBack => pc' \in {"rollback", "failed"}
    BY DEF Fails, Failed, Delete, RolledBack
  <1>7. ASSUME NEW kind, NEW name, NEW refs, Misses(kind, name, refs)
        PROVE  pc' \in {"rollback", "failed"}
    BY <1>7 DEF Misses, Unanswered, Failed
  <1>8. Resolvable' /\ OneScenario'
    BY <1>3, <1>4, <1>5, <1>6, <1>7, Steps DEF Base
  <1>. QED  BY <1>1, <1>2, <1>8 DEF Base

LEMMA StartBase ==
    ASSUME Base, Begin
    PROVE  Base'
  <1>1. TypeOK'
    BY StartType DEF Base
  <1>2. pc' \in {"refused", "blocked", "resources"} /\ pc = "idle" /\ created' = created
    BY StartType DEF Base, local
  <1>. QED  BY <1>1, <1>2 DEF Base, Resolvable, OneScenario, Untouched

LEMMA KillBase ==
    ASSUME Base, Kill
    PROVE  Base'
  <1>1. pc # "idle" /\ pc' = "killed" /\ UNCHANGED <<make, asked, at, local, history>>
    BY DEF Kill, ended
  <1>2. TypeOK'
    BY <1>1 DEF Base, Kill, TypeOK, make, local, history, Ids, ended
  <1>. QED  BY <1>1, <1>2 DEF Base, Resolvable, OneScenario, Untouched

LEMMA StutterBase ==
    ASSUME Base, UNCHANGED vars
    PROVE  Base'
  <1>1. TypeOK'
    BY DEF Base, vars, TypeOK, make, local, history, Ids
  <1>2. Resolvable' /\ OneScenario' /\ Untouched'
    BY DEF Base, vars, make, local, Resolvable, Bindable, Resolved, Replaced, package, OneScenario, Untouched
  <1>. QED  BY <1>1, <1>2 DEF Base

LEMMA BaseHolds == Spec => []Base
  <1>1. Base /\ [Next]_vars => Base'
    BY StepBase, StartBase, KillBase, StutterBase DEF Next
  <1>. QED  BY <1>1, InitBase, PTL DEF Spec

(* Values have their types; in particular each id that the upload has put  *)
(* in its record, its bindings or its rollback is one that Make gave it,   *)
(* under the kind of the object that it is.                                *)
THEOREM TypeCorrect == Spec => []TypeOK
  <1>1. Base => TypeOK
    BY DEF Base
  <1>. QED  BY <1>1, BaseHolds, PTL

-----------------------------------------------------------------------------
\* What a rollback owes, and its order.

(* The order of the cleanup: what an object refers to is deleted after it. *)
Turn(kind) == IF kind = "scenario" THEN 1
              ELSE IF kind = "hook" THEN 2
              ELSE IF kind = "store" THEN 3 ELSE 4

InTurn(s) == \A p, q \in DOMAIN s :
                p < q => Turn(objects[s[p]].kind) <= Turn(objects[s[q]].kind)

LEMMA TurnIsNat == \A kind : Turn(kind) \in Nat
  BY DEF Turn

LEMMA ConcatInTurn ==
    ASSUME NEW a \in Seq(Ids), NEW b \in Seq(Ids), InTurn(a), InTurn(b),
           \A x \in ToSet(a), y \in ToSet(b) :
              Turn(objects[x].kind) <= Turn(objects[y].kind)
    PROVE  InTurn(a \o b)
  <1>1. /\ DOMAIN (a \o b) = 1 .. Len(a) + Len(b)
        /\ \A i \in 1 .. Len(a) : (a \o b)[i] = a[i]
        /\ \A i \in 1 .. Len(a) + Len(b) :
              i > Len(a) => i - Len(a) \in 1 .. Len(b) /\ (a \o b)[i] = b[i - Len(a)]
    OBVIOUS
  <1>2. Len(a) \in Nat /\ Len(b) \in Nat /\ DOMAIN a = 1 .. Len(a) /\ DOMAIN b = 1 .. Len(b)
    OBVIOUS
  <1>3. SUFFICES ASSUME NEW p \in 1 .. Len(a) + Len(b), NEW q \in 1 .. Len(a) + Len(b), p < q
                 PROVE  Turn(objects[(a \o b)[p]].kind) <= Turn(objects[(a \o b)[q]].kind)
    BY <1>1 DEF InTurn
  <1>4. CASE q <= Len(a)
    <2>1. p \in 1 .. Len(a) /\ q \in 1 .. Len(a)
      BY <1>2, <1>3, <1>4
    <2>. QED  BY <1>1, <1>2, <1>3, <2>1 DEF InTurn
  <1>5. CASE p > Len(a)
    <2>1. /\ p - Len(a) \in 1 .. Len(b) /\ q - Len(a) \in 1 .. Len(b)
          /\ p - Len(a) < q - Len(a)
          /\ (a \o b)[p] = b[p - Len(a)] /\ (a \o b)[q] = b[q - Len(a)]
      BY <1>1, <1>2, <1>3, <1>5
    <2>. QED  BY <1>2, <2>1 DEF InTurn
  <1>6. CASE p <= Len(a) /\ q > Len(a)
    <2>1. p \in 1 .. Len(a) /\ q - Len(a) \in 1 .. Len(b)
      BY <1>1, <1>2, <1>6
    <2>2. a[p] \in ToSet(a) /\ b[q - Len(a)] \in ToSet(b)
      BY <1>2, <2>1 DEF ToSet
    <2>. QED  BY <1>1, <1>6, <2>1, <2>2
  <1>. QED  BY <1>2, <1>3, <1>4, <1>5, <1>6

LEMMA KnownInTurn ==
    ASSUME TypeOK
    PROVE  InTurn(Known(created))
  <1> DEFINE a == Reverse(created["scenario"])
             b == Reverse(created["hook"])
             c == Reverse(created["store"])
             d == Reverse(created["structure"])
  <1>1. ASSUME NEW k \in Kinds
        PROVE  /\ Reverse(created[k]) \in Seq(Ids) /\ InTurn(Reverse(created[k]))
               /\ \A x \in ToSet(Reverse(created[k])) : objects[x].kind = k
    <2>1. created[k] \in Seq(Ids)
      BY DEF TypeOK
    <2>2. /\ Reverse(created[k]) \in Seq(Ids)
          /\ \A x \in ToSet(Reverse(created[k])) : objects[x].kind = k
      BY <2>1, ReverseType DEF TypeOK
    <2>3. \A i \in DOMAIN Reverse(created[k]) : objects[Reverse(created[k])[i]].kind = k
      BY <2>2 DEF ToSet
    <2>4. InTurn(Reverse(created[k]))
      BY <2>3, TurnIsNat DEF InTurn
    <2>. QED  BY <2>2, <2>4
  <1>2. /\ a \in Seq(Ids) /\ InTurn(a) /\ \A x \in ToSet(a) : objects[x].kind = "scenario"
        /\ b \in Seq(Ids) /\ InTurn(b) /\ \A x \in ToSet(b) : objects[x].kind = "hook"
        /\ c \in Seq(Ids) /\ InTurn(c) /\ \A x \in ToSet(c) : objects[x].kind = "store"
        /\ d \in Seq(Ids) /\ InTurn(d) /\ \A x \in ToSet(d) : objects[x].kind = "structure"
    BY <1>1 DEF Kinds
  <1> DEFINE e == a \o b
             f == e \o c
  <1>3. Known(created) = f \o d
    BY <1>2 DEF Known
  <1>. HIDE DEF a, b, c, d, e, f
  <1>4. /\ e \in Seq(Ids) /\ InTurn(e)
        /\ \A x \in ToSet(e) : objects[x].kind \in {"scenario", "hook"}
    <2>1. InTurn(e)
      BY <1>2, ConcatInTurn DEF Turn, e
    <2>. QED  BY <1>2, <2>1, ToSetConcat DEF e
  <1>5. /\ f \in Seq(Ids) /\ InTurn(f)
        /\ \A x \in ToSet(f) : objects[x].kind \in {"scenario", "hook", "store"}
    <2>1. InTurn(f)
      BY <1>2, <1>4, ConcatInTurn DEF Turn, f
    <2>. QED  BY <1>2, <1>4, <2>1, ToSetConcat DEF f
  <1>6. InTurn(f \o d)
    BY <1>2, <1>5, ConcatInTurn DEF Turn
  <1>. QED  BY <1>3, <1>6

(* While the upload works, everything it has made is in its record.        *)
Aware ==
    pc \in Working =>
        live = Ids /\ \A i \in Ids : i \in ToSet(created[objects[i].kind])

(* What a rollback has still to delete, in its order.                      *)
Owed ==
    pc = "rollback" =>
        live \subseteq ToSet(todo) \cup lost \cup undeleted /\ InTurn(todo)

(* What an object refers to has a later turn.                              *)
RefersLater ==
    \A i \in Ids : \A r \in objects[i].refs : Turn(objects[i].kind) < Turn(objects[r].kind)

(* What is bound is an object of the name and kind that its key says.      *)
Bears(key, i) ==
    /\ objects[i].name = key[2]
    /\ key[1] = "structure" => objects[i].kind = "structure"
    /\ key[1] = "placeholder" => objects[i].kind \in {"store", "hook"}

BoundIs == \A key \in DOMAIN bound : Bears(key, bound[key])

Safe == Aware /\ Owed /\ RefersLater /\ BoundIs /\ LeftoversAreExcused /\ NothingDangles

LEMMA InitSafe == Init => Safe
  <1>. SUFFICES ASSUME Init PROVE Safe
    OBVIOUS
  <1>1. Ids = {} /\ live = {} /\ pc = "idle" /\ DOMAIN bound = {}
    BY DEF Init, Ids, Empty
  <1>. QED  BY <1>1 DEF Safe, Aware, Owed, RefersLater, BoundIs, LeftoversAreExcused,
            NothingDangles, Working

(* The references of a row are to structures, and those of the scenario to *)
(* stores and webhooks.                                                    *)
LEMMA RefsLater ==
    ASSUME TypeOK, BoundIs, NEW kind \in Kinds, NEW name, NEW refs \in SUBSET Ids,
           (\E key : Hears(kind, name, refs, key)) \/ Misses(kind, name, refs),
           Resolvable
    PROVE  \A r \in refs : Turn(kind) < Turn(objects[r].kind)
  <1>1. CASE /\ kind = asked.rows[at][1] /\ refs = RefsOf(asked.rows[at])
             /\ ~Unbindable(asked.rows[at])
    <2>1. \A r \in refs : kind = "store" /\ objects[r].kind = "structure"
      BY <1>1 DEF RefsOf, Unbindable, BoundIs, Bears, Key
    <2>. QED  BY <2>1 DEF Turn
  <1>2. CASE kind = "scenario" /\ refs = BoundRefs /\ pc = "scenario"
    <2>1. \A r \in refs : objects[r].kind \in {"store", "hook"}
      BY <1>2 DEF BoundRefs, BoundIs, Bears, Key
    <2>. QED  BY <1>2, <2>1 DEF Turn
  <1>. QED  BY <1>1, <1>2 DEF Hears, Misses

LEMMA HearsBears ==
    ASSUME TypeOK, NEW kind \in Kinds, NEW name \in Names \cup {None},
           NEW refs \in SUBSET Ids, NEW key, Hears(kind, name, refs, key)
    PROVE  LET o == [kind |-> kind, name |-> name, refs |-> refs] IN
           /\ o.name = key[2]
           /\ key[1] = "structure" => o.kind = "structure"
           /\ key[1] = "placeholder" => o.kind \in {"store", "hook"}
  <1>1. CASE kind = "scenario"
    BY <1>1 DEF Hears
  <1>2. CASE kind # "scenario"
    BY <1>2 DEF Hears, Key, Kinds
  <1>. QED  BY <1>1, <1>2

LEMMA HearsSafe ==
    ASSUME Base, Safe, NEW kind \in Kinds, NEW name \in Names \cup {None},
           NEW refs \in SUBSET Ids, NEW key, Hears(kind, name, refs, key)
    PROVE  Safe'
  <1> DEFINE id == Len(objects')
             o == [kind |-> kind, name |-> name, refs |-> refs]
  <1>1. /\ Ids' = Ids \cup {id} /\ id \notin Ids
        /\ \A i \in Ids : objects'[i] = objects[i]
        /\ objects'[id] = o
        /\ live' = live \cup {id}
    BY MadeAdds DEF Base, Hears
  <1>2. /\ pc \in Working /\ pc' \in Working
        /\ created' = [created EXCEPT ![kind] = Append(created[kind], id)]
        /\ bound' = Bound(key, id)
        /\ UNCHANGED <<todo, lost, undeleted, unreached, asked>>
    BY DEF Hears, Answered, Working
  <1>3. o.kind = kind /\ o.refs = refs
    OBVIOUS
  <1>4. Turn(kind) \in Nat /\ \A r \in refs : r \in Ids /\ Turn(kind) < Turn(objects[r].kind)
    BY RefsLater, TurnIsNat DEF Base, Safe
  <1>5. /\ o.name = key[2]
        /\ key[1] = "structure" => o.kind = "structure"
        /\ key[1] = "placeholder" => o.kind \in {"store", "hook"}
    BY HearsBears DEF Base
  <1>. HIDE DEF id, o
  <1>6. Aware'
    <2>1. live = Ids /\ \A i \in Ids : i \in ToSet(created[objects[i].kind])
      BY <1>2 DEF Safe, Aware
    <2>2. created[kind] \in Seq(Ids') /\ id \in Ids'
      BY <1>1, SeqGrows DEF Base, TypeOK
    <2>3. ToSet(created'[kind]) = ToSet(created[kind]) \cup {id}
      BY <1>2, <2>2, ToSetAppend DEF Base, TypeOK
    <2>4. \A k \in Kinds : k # kind => created'[k] = created[k]
      BY <1>2 DEF Base, TypeOK
    <2>5. \A i \in Ids : objects[i].kind \in Kinds
      BY Types DEF Base
    <2>6. \A i \in Ids' : i \in ToSet(created'[objects'[i].kind])
      BY <1>1, <1>3, <2>1, <2>3, <2>4, <2>5
    <2>. QED  BY <1>1, <2>1, <2>6 DEF Aware
  <1>7. Owed' /\ LeftoversAreExcused'
    BY <1>2 DEF Owed, LeftoversAreExcused, Working
  <1>8. \A i \in Ids : objects[i].refs \subseteq Ids
    BY Types DEF Base
  <1>9. RefersLater'
    BY <1>1, <1>3, <1>4, <1>8 DEF Safe, RefersLater
  <1>10. BoundIs'
    <2>1. \A k \in DOMAIN bound : bound[k] \in Ids
      BY DEF Base, TypeOK
    <2>0. bound' = [k \in DOMAIN bound \cup {key} |-> IF k = key THEN id ELSE bound[k]]
      BY <1>2 DEF Bound
    <2>2. \A k \in DOMAIN bound' :
             \/ k = key /\ bound'[k] = id
             \/ k \in DOMAIN bound /\ bound'[k] = bound[k]
      BY <2>0
    <2>. QED  BY <1>1, <1>5, <2>1, <2>2 DEF Safe, BoundIs, Bears
  <1>11. NothingDangles'
    <2>1. live' = Ids'
      BY <1>1, <1>2 DEF Safe, Aware
    <2>2. \A i \in Ids' : objects'[i].refs \subseteq Ids'
      BY <1>1, <1>3, <1>8
    <2>. QED  BY <2>1, <2>2 DEF NothingDangles
  <1>. QED  BY <1>6, <1>7, <1>9, <1>10, <1>11 DEF Safe

(* A failure gives the rollback all that was known, in its order.          *)
LEMMA FailedOwes ==
    ASSUME TypeOK, Failed, pc \in Working
    PROVE  /\ pc' \in {"rollback", "failed"}
           /\ pc' = "failed" => ~asked.cleanup
           /\ pc' = "rollback" => /\ todo' \in Seq(Ids) /\ InTurn(todo')
                                 /\ \A k \in Kinds : ToSet(created[k]) \subseteq ToSet(todo')
           /\ bound' = bound
  <1>1. /\ pc' \in {"rollback", "failed"}
        /\ pc' = "failed" => ~asked.cleanup
        /\ pc' = "rollback" => todo' = Known(created) /\ todo' \in Seq(Ids)
        /\ bound' = bound
    BY FailedType DEF Working
  <1>. QED  BY <1>1, KnownType, KnownInTurn

LEMMA MissesSafe ==
    ASSUME Base, Safe, NEW kind \in Kinds, NEW name \in Names \cup {None},
           NEW refs \in SUBSET Ids, Misses(kind, name, refs)
    PROVE  Safe'
  <1> DEFINE id == Len(objects')
             o == [kind |-> kind, name |-> name, refs |-> refs]
  <1>1. /\ Ids' = Ids \cup {id} /\ id \notin Ids
        /\ \A i \in Ids : objects'[i] = objects[i]
        /\ objects'[id] = o
        /\ live' = live \cup {id}
    BY MadeAdds DEF Base, Misses
  <1>2. /\ pc \in Working /\ Failed
        /\ lost' = lost \cup {id}
        /\ UNCHANGED <<undeleted, unreached, asked>>
    BY DEF Misses, Unanswered, Working
  <1>3. o.kind = kind /\ o.refs = refs
    OBVIOUS
  <1>4. Turn(kind) \in Nat /\ \A r \in refs : r \in Ids /\ Turn(kind) < Turn(objects[r].kind)
    BY RefsLater, TurnIsNat DEF Base, Safe
  <1>. HIDE DEF id, o
  <1>5. /\ pc' \in {"rollback", "failed"}
        /\ pc' = "failed" => ~asked.cleanup
        /\ pc' = "rollback" => /\ todo' \in Seq(Ids) /\ InTurn(todo')
                              /\ \A k \in Kinds : ToSet(created[k]) \subseteq ToSet(todo')
        /\ bound' = bound
    BY <1>2, FailedOwes DEF Base
  <1>6. live = Ids /\ \A i \in Ids : i \in ToSet(created[objects[i].kind])
    BY <1>2 DEF Safe, Aware
  <1>7. \A i \in Ids : objects[i].kind \in Kinds /\ objects[i].refs \subseteq Ids
    BY Types DEF Base
  <1>8. Aware' /\ LeftoversAreExcused'
    BY <1>2, <1>5 DEF Aware, LeftoversAreExcused, Working
  <1>9. Owed'
    <2>1. SUFFICES ASSUME pc' = "rollback"
                   PROVE  live' \subseteq ToSet(todo') \cup lost' /\ InTurn(todo)'
      BY DEF Owed
    <2>2. live' \subseteq ToSet(todo') \cup lost'
      BY <1>1, <1>2, <1>5, <1>6, <1>7, <2>1
    <2>3. \A p \in DOMAIN todo' : todo'[p] \in Ids
      BY <1>5, <2>1
    <2>4. \A p, q \in DOMAIN todo' :
             p < q => Turn(objects'[todo'[p]].kind) <= Turn(objects'[todo'[q]].kind)
      BY <1>1, <1>5, <2>1, <2>3 DEF InTurn
    <2>. QED  BY <2>2, <2>4 DEF InTurn
  <1>10. RefersLater'
    BY <1>1, <1>3, <1>4, <1>7 DEF Safe, RefersLater
  <1>11. BoundIs'
    <2>1. \A k \in DOMAIN bound : bound[k] \in Ids
      BY DEF Base, TypeOK
    <2>. QED  BY <1>1, <1>5, <2>1 DEF Safe, BoundIs, Bears
  <1>12. NothingDangles'
    BY <1>1, <1>3, <1>6, <1>7 DEF NothingDangles
  <1>. QED  BY <1>8, <1>9, <1>10, <1>11, <1>12 DEF Safe

LEMMA FailsSafe ==
    ASSUME Base, Safe, Fails
    PROVE  Safe'
  <1>1. Failed /\ pc \in Working /\ UNCHANGED <<objects, live, asked, history>>
    BY DEF Fails
  <1>2. /\ pc' \in {"rollback", "failed"}
        /\ pc' = "failed" => ~asked.cleanup
        /\ pc' = "rollback" => /\ todo' \in Seq(Ids) /\ InTurn(todo')
                              /\ \A k \in Kinds : ToSet(created[k]) \subseteq ToSet(todo')
        /\ bound' = bound
    BY <1>1, FailedOwes DEF Base
  <1>3. live = Ids /\ \A i \in Ids : i \in ToSet(created[objects[i].kind])
    BY <1>1 DEF Safe, Aware
  <1>4. \A i \in Ids : objects[i].kind \in Kinds
    BY Types DEF Base
  <1>5. Aware' /\ LeftoversAreExcused'
    BY <1>1, <1>2 DEF Aware, LeftoversAreExcused, Working
  <1>6. Owed'
    <2>1. pc' = "rollback" => live' \subseteq ToSet(todo')
      BY <1>1, <1>2, <1>3, <1>4
    <2>. QED  BY <1>1, <1>2, <2>1 DEF Owed, InTurn
  <1>. QED  BY <1>1, <1>2, <1>5, <1>6
            DEF Safe, RefersLater, BoundIs, Bears, NothingDangles, Ids, history

LEMMA GoesOnSafe ==
    ASSUME Base, Safe, GoesOn
    PROVE  Safe'
  BY DEF GoesOn, Base, Safe, Aware, Owed, RefersLater, BoundIs, Bears, LeftoversAreExcused,
     NothingDangles, Ids, Working, local, history

LEMMA DeleteSafe ==
    ASSUME Base, Safe, Delete
    PROVE  Safe'
  <1> DEFINE h == Head(todo)
  <1>1. /\ pc = "rollback" /\ pc' \in {"rollback", "failed"}
        /\ UNCHANGED <<objects, asked, created, bound, lost>>
        /\ \/ live' = live \ {h} /\ undeleted' = undeleted
           \/ live' = live /\ undeleted' = undeleted \cup {h}
        /\ \/ pc' = "rollback" /\ todo' = Tail(todo) /\ unreached' = unreached
           \/ pc' = "failed" /\ unreached' = unreached \cup ToSet(Tail(todo))
    BY DEF Delete, Deleted, NotDeleted
  <1>2. /\ h \in Ids /\ h = todo[1] /\ 1 \in DOMAIN todo
        /\ ToSet(todo) = {h} \cup ToSet(Tail(todo))
        /\ DOMAIN Tail(todo) = 1 .. Len(todo) - 1
        /\ \A i \in DOMAIN Tail(todo) : i + 1 \in DOMAIN todo /\ Tail(todo)[i] = todo[i + 1]
    BY DeleteDoes DEF Base
  <1>3. live \subseteq ToSet(todo) \cup lost \cup undeleted /\ InTurn(todo)
    BY <1>1 DEF Safe, Owed
  <1>. HIDE DEF h
  <1>4. live' \subseteq ToSet(Tail(todo)) \cup lost' \cup undeleted'
    BY <1>1, <1>2, <1>3
  <1>5. InTurn(Tail(todo))
    <2>1. \A i \in 1 .. Len(todo) - 1, j \in 1 .. Len(todo) - 1 : i < j => i + 1 < j + 1
      OBVIOUS
    <2>. QED  BY <1>2, <1>3, <2>1 DEF InTurn
  <1>6. Aware' /\ Owed' /\ LeftoversAreExcused'
    BY <1>1, <1>4, <1>5 DEF Aware, Owed, LeftoversAreExcused, Working, InTurn
  <1>7. NothingDangles'
    <2>1. SUFFICES ASSUME NEW i \in live' \ (lost' \cup undeleted'), live' = live \ {h}
                   PROVE  h \notin objects[i].refs
      BY <1>1 DEF Safe, NothingDangles
    <2>2. i \in ToSet(todo) /\ i # h /\ i \in Ids
      BY <1>1, <1>3, <2>1 DEF Base, TypeOK
    <2>3. PICK q \in DOMAIN todo : i = todo[q]
      BY <2>2 DEF ToSet
    <2>4. 1 < q
      BY <1>2, <2>2, <2>3 DEF Base, TypeOK
    <2>5. Turn(objects[h].kind) <= Turn(objects[i].kind)
      BY <1>2, <1>3, <2>3, <2>4 DEF InTurn
    <2>6. h \in objects[i].refs => Turn(objects[i].kind) < Turn(objects[h].kind)
      BY <2>2 DEF Safe, RefersLater
    <2>. QED  BY <2>5, <2>6, TurnIsNat
  <1>. QED  BY <1>1, <1>6, <1>7 DEF Safe, RefersLater, BoundIs, Bears, Ids

LEMMA OthersSafe ==
    ASSUME Base, Safe,
           \/ RolledBack
           \/ Kill
           \/ UNCHANGED vars
           \/ Begin
    PROVE  Safe'
  <1>1. CASE RolledBack
    <2>1. pc = "rollback" /\ pc' = "failed" /\ todo = <<>> /\ ToSet(todo) = {}
      BY <1>1 DEF RolledBack, ToSet
    <2>2. UNCHANGED <<objects, live, asked, bound, history>>
      BY <1>1 DEF RolledBack, make, local
    <2>. QED  BY <2>1, <2>2 DEF Safe, Aware, Owed, RefersLater, BoundIs, Bears,
              LeftoversAreExcused, NothingDangles, Ids, Working, history
  <1>2. CASE Kill
    BY <1>2 DEF Kill, make, local, Safe, Aware, Owed, RefersLater, BoundIs, Bears,
       LeftoversAreExcused, NothingDangles, Ids, Working, history
  <1>3. CASE UNCHANGED vars
    BY <1>3 DEF vars, make, local, Safe, Aware, Owed, InTurn, RefersLater, BoundIs, Bears,
       LeftoversAreExcused, NothingDangles, Ids, Working, history
  <1>4. CASE Begin
    <2>1. /\ pc = "idle" /\ pc' \in {"refused", "blocked", "resources"}
          /\ UNCHANGED <<objects, live, bound, history>>
      BY <1>4, StartType DEF Base, make, local
    <2>2. Ids = {} /\ live = {}
      BY <2>1 DEF Base, Untouched, Ids
    <2>. QED  BY <2>1, <2>2 DEF Safe, Aware, Owed, RefersLater, BoundIs, Bears,
              LeftoversAreExcused, NothingDangles, Ids, Working, history
  <1>. QED  BY <1>1, <1>2, <1>3, <1>4

LEMMA SafeHolds == Spec => []Safe
  <1>1. Base /\ Safe /\ [Next]_vars => Safe'
    <2>1. Base /\ Safe /\ Step => Safe'
      BY Steps, HearsSafe, MissesSafe, FailsSafe, GoesOnSafe, DeleteSafe, OthersSafe DEF Base
    <2>. QED  BY <2>1, OthersSafe DEF Next
  <1>. QED  BY <1>1, InitSafe, BaseHolds, PTL DEF Spec

(* A failed upload that cleans up leaves at Make only what it was never    *)
(* told of, what Make did not delete when asked to, and what a rollback    *)
(* that broke off did not come to: _rollback_created knows all the rest.   *)
THEOREM LeftoversAreExcusedHolds == Spec => []LeftoversAreExcused
  <1>1. Safe => LeftoversAreExcused
    BY DEF Safe
  <1>. QED  BY <1>1, SafeHolds, PTL

(* Wherever an upload or its rollback stops, nothing that exists refers to *)
(* what was deleted, but for what could not be deleted or was not known:   *)
(* the four loops of _rollback_created are in the reverse order of the     *)
(* references.                                                             *)
THEOREM NothingDanglesHolds == Spec => []NothingDangles
  <1>1. Safe => NothingDangles
    BY DEF Safe
  <1>. QED  BY <1>1, SafeHolds, PTL

-----------------------------------------------------------------------------
\* What an upload that reports success has made, and why one fails.

After == {"notes", "compare", "applied"}

RowMade(j) ==
    LET row == asked.rows[j] IN
    /\ Matches(j, row[1], row[2])
    /\ row[1] = "store" => \E s \in Ids : /\ Matches(s, "structure", row[3])
                                           /\ objects[j].refs = {s}
    /\ Key(row[1], row[2]) \in DOMAIN bound

PlaceholdersStand(i) ==
    \A f \in Fields \ PathsOf(package) :
       \/ package.fields[f] \in asked.values \cup Pathless(package) \cup {None}
       \/ \E r \in objects[i].refs : \/ Matches(r, "store", package.fields[f])
                                    \/ Matches(r, "hook", package.fields[f])

(* The object of a row is at the row's position, the scenario is the last. *)
InOrder ==
    pc \in Working \cup {"applied"} =>
        /\ at <= Len(asked.rows) + 1
        /\ pc # "resources" => at = Len(asked.rows) + 1
        /\ Len(objects) = IF pc \in After THEN at ELSE at - 1
        /\ \A j \in 1 .. at - 1 : RowMade(j)
        /\ pc \in After => PlaceholdersStand(Len(objects))
        /\ pc \in {"compare", "applied"} /\ package.notes = "sound" => Len(objects) \in noted
        /\ pc = "applied" => live = Ids

Blameless == pc \in {"rollback", "failed"} /\ faultless => Flaw(asked)

Whole == InOrder /\ Blameless

LEMMA InitWhole == Init => Whole
  BY DEF Init, Whole, InOrder, Blameless, Working

LEMMA AskedRows ==
    ASSUME TypeOK, pc # "idle"
    PROVE  /\ asked.package \in Packages /\ asked.rows = Rows(asked.package)
           /\ Len(asked.rows) \in Nat /\ DOMAIN asked.rows = 1 .. Len(asked.rows)
  <1>1. asked.package \in Packages /\ asked.rows = Rows(asked.package)
    BY DEF TypeOK
  <1>2. asked.rows \in Seq(RowSet)
    BY <1>1, RowsOf
  <1>. QED  BY <1>1, <1>2

LEMMA RowMadeStays ==
    ASSUME TypeOK, NEW j \in Ids, RowMade(j), asked' = asked,
           Ids \subseteq Ids', \A i \in Ids : objects'[i] = objects[i],
           DOMAIN bound \subseteq DOMAIN bound'
    PROVE  RowMade(j)'
  BY DEF RowMade, Matches

LEMMA HearsWhole ==
    ASSUME Base, Safe, Whole, NEW kind \in Kinds, NEW name \in Names \cup {None},
           NEW refs \in SUBSET Ids, NEW key, Hears(kind, name, refs, key)
    PROVE  Whole'
  <1> DEFINE id == Len(objects')
             o == [kind |-> kind, name |-> name, refs |-> refs]
  <1>1. /\ Ids = 1 .. Len(objects) /\ id = Len(objects) + 1
        /\ Ids' = Ids \cup {id} /\ id \notin Ids
        /\ \A i \in Ids : objects'[i] = objects[i]
        /\ objects'[id] = o
        /\ live' = live \cup {id}
    BY MadeAdds DEF Base, Hears
  <1>2. /\ pc \in Working /\ pc # "idle"
        /\ bound' = Bound(key, id) /\ asked' = asked
        /\ DOMAIN bound' = DOMAIN bound \cup {key}
    BY DEF Hears, Answered, Working, Bound
  <1>3. o.kind = kind /\ o.name = name /\ o.refs = refs
    OBVIOUS
  <1>. HIDE DEF o
  <1>4. /\ at \in Nat \ {0} /\ Len(asked.rows) \in Nat
        /\ DOMAIN asked.rows = 1 .. Len(asked.rows) /\ Len(objects) \in Nat
    BY <1>2, AskedRows DEF Base, TypeOK
  <1>5. pc \in {"resources", "scenario"}
    BY DEF Hears
  <1>6. /\ at <= Len(asked.rows) + 1 /\ Len(objects) = at - 1
        /\ pc = "scenario" => at = Len(asked.rows) + 1
        /\ \A j \in 1 .. at - 1 : RowMade(j)
    BY <1>5 DEF Whole, InOrder, After, Working
  <1>7. \A j \in 1 .. at - 1 : RowMade(j)'
    BY <1>1, <1>2, <1>6, RowMadeStays DEF Base
  <1>8. Blameless'
    BY DEF Blameless, Hears
  <1>9. CASE kind # "scenario"
    <2>1. /\ pc = "resources" /\ pc' = "resources" /\ at' = at + 1 /\ at <= Len(asked.rows)
          /\ key = Key(kind, name)
          /\ kind = asked.rows[at][1] /\ name = asked.rows[at][2]
          /\ refs = RefsOf(asked.rows[at]) /\ ~Unbindable(asked.rows[at])
      BY <1>9 DEF Hears
    <2>2. \A j : j = at => RowMade(j)'
      <3>1. id = at
        BY <1>1, <1>4, <1>6
      <3>2. objects'[at].kind = asked.rows[at][1] /\ objects'[at].name = asked.rows[at][2]
        BY <1>1, <1>3, <2>1, <3>1
      <3>3. ASSUME asked.rows[at][1] = "store"
            PROVE  \E s \in Ids : /\ objects[s].kind = "structure"
                                  /\ objects[s].name = asked.rows[at][3]
                                  /\ refs = {s}
        <4> DEFINE k == Key("structure", asked.rows[at][3])
        <4>1. k \in DOMAIN bound /\ refs = {bound[k]}
          BY <2>1, <3>3 DEF RefsOf, Unbindable
        <4>2. k[1] = "structure" /\ k[2] = asked.rows[at][3]
          BY DEF Key
        <4>. HIDE DEF k
        <4>3. bound[k] \in Ids /\ Bears(k, bound[k])
          BY <4>1 DEF Base, TypeOK, Safe, BoundIs
        <4>. QED  BY <4>1, <4>2, <4>3 DEF Bears
      <3>4. Key(asked.rows[at][1], asked.rows[at][2]) \in DOMAIN bound'
        BY <1>2, <2>1
      <3>5. asked.rows[at][1] = "store" =>
               \E s \in Ids' : /\ objects'[s].kind = "structure"
                               /\ objects'[s].name = asked.rows[at][3]
                               /\ objects'[at].refs = {s}
        BY <1>1, <1>3, <3>1, <3>3
      <3>. QED  BY <1>2, <3>2, <3>4, <3>5 DEF RowMade, Matches
    <2>3. \A j \in 1 .. at' - 1 : RowMade(j)'
      <3>1. SUFFICES ASSUME NEW j \in 1 .. at' - 1 PROVE RowMade(j)'
        OBVIOUS
      <3>2. j \in 1 .. at - 1 \/ j = at
        BY <1>4, <2>1
      <3>. QED  BY <1>7, <2>2, <3>2
    <2>4. InOrder'
      BY <1>1, <1>2, <1>4, <1>6, <2>1, <2>3 DEF InOrder, After
    <2>. QED  BY <1>8, <2>4 DEF Whole
  <1>10. CASE kind = "scenario"
    <2>1. /\ pc = "scenario" /\ pc' = "notes" /\ at' = at /\ refs = BoundRefs
      BY <1>10 DEF Hears
    <2>2. ASSUME NEW f \in Fields \ PathsOf(package),
                 package.fields[f] \notin asked.values \cup Pathless(package) \cup {None}
          PROVE  \E r \in Ids : /\ r \in refs /\ objects[r].name = package.fields[f]
                                /\ objects[r].kind \in {"store", "hook"}
      <3> DEFINE n == package.fields[f]
                 k == Key("store", n)
      <3>1. k \in DOMAIN bound /\ bound[k] \in refs
        <4>1. k \in DOMAIN bound
          BY <2>1, <2>2 DEF Base, Resolvable, Bindable, Resolved, Replaced
        <4>. QED  BY <2>1, <2>2, <4>1 DEF BoundRefs
      <3>2. k[1] = "placeholder" /\ k[2] = n
        BY DEF Key
      <3>. HIDE DEF k
      <3>3. bound[k] \in Ids /\ Bears(k, bound[k])
        BY <3>1 DEF Base, TypeOK, Safe, BoundIs
      <3>. QED  BY <3>1, <3>2, <3>3 DEF Bears
    <2>3. \A f \in Fields \ PathsOf(package) :
             \/ package.fields[f] \in asked.values \cup Pathless(package) \cup {None}
             \/ \E r \in objects'[id].refs : /\ objects'[r].name = package.fields[f]
                                             /\ objects'[r].kind \in {"store", "hook"}
      BY <1>1, <1>3, <2>2
    <2>4. PlaceholdersStand(Len(objects))'
      BY <1>2, <2>3 DEF PlaceholdersStand, Matches, package
    <2>5. Len(objects') = at
      BY <1>1, <1>4, <1>6
    <2>6. InOrder'
      BY <1>2, <1>6, <1>7, <2>1, <2>4, <2>5 DEF InOrder, After
    <2>. QED  BY <1>8, <2>6 DEF Whole
  <1>. QED  BY <1>9, <1>10

(* Without a fault, a step that fails has met a contradiction.             *)
LEMMA FailsWhole ==
    ASSUME Base, Whole, Fails
    PROVE  Whole'
  <1>1. /\ Failed /\ pc \in Working /\ pc # "idle" /\ asked' = asked
        /\ pc' \in {"rollback", "failed"}
    BY DEF Fails, Failed, Working
  <1>2. InOrder'
    BY <1>1 DEF InOrder, Working
  <1>3. /\ asked.package \in Packages /\ asked.rows = Rows(asked.package)
        /\ Len(asked.rows) \in Nat /\ DOMAIN asked.rows = 1 .. Len(asked.rows)
        /\ at \in Nat \ {0}
    BY <1>1, AskedRows DEF Base, TypeOK
  <1>4. \A j \in 1 .. at - 1 : RowMade(j)
    BY <1>1 DEF Whole, InOrder
  <1>5. CASE CannotCreate
    <2> DEFINE row == asked.rows[at]
    <2>1. /\ at \in DOMAIN asked.rows /\ row[1] = "store"
          /\ Key("structure", row[3]) \notin DOMAIN bound
      BY <1>3, <1>5 DEF CannotCreate, Unbindable
    <2>2. /\ at > Len(package.structures)
          /\ DOMAIN package.structures = 1 .. Len(package.structures)
          /\ Len(package.structures) \in Nat
          /\ \E k \in DOMAIN package.stores : row[3] = package.stores[k][2]
          /\ \A i \in DOMAIN package.structures :
                asked.rows[i] = <<"structure", package.structures[i][1], None>>
      BY <1>3, <2>1, RowsOf DEF package
    <2>. HIDE DEF row
    <2>3. ASSUME NEW j \in DOMAIN package.structures
          PROVE  row[3] # package.structures[j][1]
      <3>1. j \in 1 .. at - 1
        BY <1>3, <2>2
      <3>2. RowMade(j)
        BY <1>4, <3>1
      <3>3. Key("structure", package.structures[j][1]) \in DOMAIN bound
        BY <2>2, <3>2 DEF RowMade
      <3>. QED  BY <2>1, <3>3
    <2>4. Flaw(asked)
      <3>1. PICK k \in DOMAIN package.stores : row[3] = package.stores[k][2]
        BY <2>2
      <3>2. \A j \in DOMAIN package.structures : package.stores[k][2] # package.structures[j][1]
        BY <2>3, <3>1
      <3>3. \E i \in DOMAIN asked.package.stores :
               \A j \in DOMAIN asked.package.structures :
                  asked.package.stores[i][2] # asked.package.structures[j][1]
        BY <3>2 DEF package
      <3>. QED  BY <3>3 DEF Flaw
    <2>. QED  BY <1>1, <1>2, <2>4 DEF Whole, Blameless
  <1>6. CASE /\ pc = "resources" /\ at > Len(asked.rows)
             /\ ~Bindable
    <2>1. ASSUME ~(PathsOf(package) \subseteq package.writable)
          PROVE  Flaw(asked)
      <3>1. ~ \A c \in asked.package.connections : c.paths \subseteq asked.package.writable
        BY <2>1 DEF PathsOf, package
      <3>. QED  BY <3>1 DEF Flaw
    <2>2. ASSUME NEW f \in Fields, ~Resolved(f)
          PROVE  Flaw(asked)
      <3> DEFINE n == package.fields[f]
      <3>1. /\ n # None /\ n \notin asked.values /\ Key("store", n) \notin DOMAIN bound
            /\ f \notin PathsOf(package) /\ n \notin Pathless(package)
        BY <2>2 DEF Resolved, Replaced
      <3>2. ASSUME NEW i \in DOMAIN asked.rows, asked.rows[i][1] # "structure",
                   asked.rows[i][2] = n
            PROVE  FALSE
        <4>1. i \in 1 .. at - 1
          BY <1>3, <1>6
        <4>2. Key(asked.rows[i][1], n) \in DOMAIN bound
          BY <1>4, <3>2, <4>1 DEF RowMade
        <4>. QED  BY <3>1, <3>2, <4>2 DEF Key
      <3>3. \A c \in package.connections : f \notin c.paths /\ ~(c.source = n /\ c.paths = {})
        BY <3>1 DEF PathsOf, Pathless
      <3>4. LET m == asked.package.fields[f] IN
            /\ m # None /\ m \notin asked.values
            /\ \A i \in DOMAIN asked.rows :
                  asked.rows[i][1] = "structure" \/ asked.rows[i][2] # m
            /\ \A c \in asked.package.connections :
                  f \notin c.paths /\ ~(c.source = m /\ c.paths = {})
        BY <3>1, <3>2, <3>3 DEF package
      <3>. QED  BY <3>4 DEF Flaw
    <2>3. Flaw(asked)
      BY <1>6, <2>1, <2>2 DEF Bindable
    <2>. QED  BY <1>1, <1>2, <2>3 DEF Whole, Blameless
  <1>7. CASE package.notes = "absent modules"
    BY <1>1, <1>2, <1>7 DEF Whole, Blameless, Flaw, package
  <1>8. CASE faultless' = FALSE
    BY <1>2, <1>8 DEF Whole, Blameless
  <1>. QED  BY <1>5, <1>6, <1>7, <1>8 DEF Fails

LEMMA GoesOnWhole ==
    ASSUME Base, Safe, Whole, GoesOn
    PROVE  Whole'
  <1>1. /\ UNCHANGED <<objects, live, asked, at, bound, faultless>>
        /\ pc \in Working /\ pc \in {"resources", "notes", "compare"}
        /\ pc' \in {"scenario", "compare", "applied"}
        /\ noted \subseteq noted'
    BY DEF GoesOn, local, Working
  <1>2. Blameless'
    BY <1>1 DEF Blameless
  <1>3. /\ at \in Nat \ {0} /\ Len(asked.rows) \in Nat
    BY <1>1, AskedRows DEF Base, TypeOK, Working
  <1>4. \A j \in 1 .. at - 1 : RowMade(j) /\ RowMade(j)'
    BY <1>1 DEF Whole, InOrder, RowMade, Matches, Ids
  <1>5. /\ at <= Len(asked.rows) + 1
        /\ pc # "resources" => at = Len(asked.rows) + 1
        /\ Len(objects) = IF pc \in After THEN at ELSE at - 1
        /\ pc \in After => PlaceholdersStand(Len(objects)) /\ PlaceholdersStand(Len(objects))'
    BY <1>1 DEF Whole, InOrder, PlaceholdersStand, Matches, package
  <1>6. CASE pc = "resources"
    <2>1. pc' = "scenario" /\ at = Len(asked.rows) + 1
      BY <1>3, <1>5, <1>6 DEF GoesOn
    <2>. QED  BY <1>1, <1>2, <1>4, <1>5, <1>6, <2>1 DEF Whole, InOrder, After, package
  <1>7. CASE pc = "notes"
    <2>1. pc' = "compare" /\ package.notes = "sound" => Len(objects) \in noted'
      BY <1>7, ScenarioIs DEF GoesOn, Base
    <2>2. pc' = "compare"
      BY <1>7 DEF GoesOn
    <2>. QED  BY <1>1, <1>2, <1>4, <1>5, <1>7, <2>1, <2>2 DEF Whole, InOrder, After, package
  <1>8. CASE pc = "compare"
    <2>1. pc' = "applied"
      BY <1>8 DEF GoesOn
    <2>2. live' = Ids'
      BY <1>1 DEF Safe, Aware, Ids
    <2>3. package.notes = "sound" => Len(objects) \in noted'
      BY <1>1, <1>8 DEF Whole, InOrder
    <2>. QED  BY <1>1, <1>2, <1>4, <1>5, <1>8, <2>1, <2>2, <2>3 DEF Whole, InOrder, After, package
  <1>. QED  BY <1>1, <1>6, <1>7, <1>8

LEMMA OthersWhole ==
    ASSUME Base, Whole,
           \/ \E kind, name, refs : Misses(kind, name, refs)
           \/ Delete
           \/ RolledBack
           \/ Kill
           \/ Begin
    PROVE  Whole'
  <1>1. CASE \E kind, name, refs : Misses(kind, name, refs)
    BY <1>1 DEF Misses, Unanswered, Failed, Whole, InOrder, Blameless, Working
  <1>2. CASE Delete \/ RolledBack
    <2>1. /\ pc = "rollback" /\ pc' \in {"rollback", "failed"}
          /\ UNCHANGED <<asked, faultless>>
      BY <1>2 DEF Delete, RolledBack
    <2>. QED  BY <2>1 DEF Whole, InOrder, Blameless, Working
  <1>3. CASE Kill
    BY <1>3 DEF Kill, Whole, InOrder, Blameless, Working
  <1>4. CASE Begin
    <2>1. /\ pc = "idle" /\ pc' \in {"refused", "blocked", "resources"}
          /\ at' = at /\ objects' = objects
      BY <1>4, StartType DEF Base, make
    <2>2. at = 1 /\ objects = <<>>
      BY <2>1 DEF Base, Untouched
    <2>3. TypeOK' /\ pc' # "idle"
      BY <1>4, <2>1, StartType DEF Base
    <2>4. Len(asked'.rows) \in Nat
      <3>1. asked'.package \in Packages /\ asked'.rows = Rows(asked'.package)
        BY <2>3 DEF TypeOK
      <3>. QED  BY <3>1, RowsOf
    <2>. QED  BY <2>1, <2>2, <2>4 DEF Whole, InOrder, Blameless, Working, After
  <1>. QED  BY <1>1, <1>2, <1>3, <1>4

LEMMA WholeHolds == Spec => []Whole
  <1>1. Base /\ Safe /\ Whole /\ [Next]_vars => Whole'
    <2>1. Base /\ Safe /\ Whole /\ Step => Whole'
      BY Steps, HearsWhole, FailsWhole, GoesOnWhole, OthersWhole DEF Base
    <2>2. Whole /\ UNCHANGED vars => Whole'
      BY DEF vars, make, local, Whole, InOrder, Blameless, RowMade, Matches,
         PlaceholdersStand, Ids, package
    <2>. QED  BY <2>1, <2>2, OthersWhole DEF Next
  <1>. QED  BY <1>1, InitWhole, BaseHolds, SafeHolds, PTL DEF Spec

(* When the upload reports live_upload_applied, Make has each row of the   *)
(* package once, each store over its structure, and a scenario with its    *)
(* notes in which every placeholder stands for an object of its name, or   *)
(* for the client's value; and it has nothing else.                        *)
THEOREM AppliedIsWholeHolds == Spec => []AppliedIsWhole
  <1>1. Base /\ Whole => AppliedIsWhole
    <2>1. SUFFICES ASSUME Base, Whole, pc = "applied" PROVE AppliedIsWhole
      BY DEF AppliedIsWhole
    <2>2. /\ at = Len(asked.rows) + 1 /\ Len(objects) = at
          /\ \A j \in 1 .. at - 1 : RowMade(j)
          /\ PlaceholdersStand(Len(objects)) /\ live = Ids
          /\ package.notes = "sound" => Len(objects) \in noted
      BY <2>1 DEF Whole, InOrder, After
    <2>3. scenario = Len(objects)
      BY <2>1, ScenarioIs DEF Base
    <2>4. /\ Len(asked.rows) \in Nat /\ DOMAIN asked.rows = 1 .. Len(asked.rows)
          /\ Ids = 1 .. Len(objects)
      BY <2>1, AskedRows DEF Base, TypeOK, Ids
    <2>5. \A j \in DOMAIN asked.rows : j \in 1 .. at - 1 /\ j \in live
      BY <2>2, <2>4
    <2>. QED  BY <2>2, <2>3, <2>5 DEF AppliedIsWhole, RowMade, PlaceholdersStand
  <1>. QED  BY <1>1, BaseHolds, WholeHolds, PTL

(* An upload that meets no fault fails only on a package that contradicts  *)
(* itself: no order of the loops makes a sound one fail.                   *)
THEOREM SoundPackagesApplyHolds == Spec => []SoundPackagesApply
  <1>1. Whole => SoundPackagesApply
    BY DEF Whole, Blameless, Flaw, package, SoundPackagesApply
  <1>. QED  BY <1>1, WholeHolds, PTL
=============================================================================
