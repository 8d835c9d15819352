-------------------------- MODULE ProjectFileProofs --------------------------
(***************************************************************************)
(* Proofs about ProjectEdit and ProjectFile, for any scenario, any edits   *)
(* and any number of calls: first what an edit makes of a scenario, then   *)
(* what calls make of the file.                                            *)
(***************************************************************************)
EXTENDS ProjectFile, SequenceTheorems, WellFoundedInduction, TLAPS

-----------------------------------------------------------------------------
\* Parts of outlines.

LEMMA Least ==
    ASSUME NEW T \in SUBSET Nat, T # {}
    PROVE  \E x \in T : \A y \in T : x <= y
  <1> DEFINE R == {p \in Nat \X Nat : p[1] < p[2]}
  <1>1. IsWellFoundedOn(R, Nat)
    BY NatLessThanWellFounded DEF OpToRel
  <1>2. \A y, x \in Nat : y < x => <<y, x>> \in R
    OBVIOUS
  <1>. HIDE DEF R
  <1>3. PICK x \in T : \A y \in T : ~ (<<y, x>> \in R)
    BY <1>1, WFMin
  <1>4. ASSUME NEW y \in T PROVE x <= y
    <2>1. y \in Nat /\ x \in Nat
      OBVIOUS
    <2>2. ~ (<<y, x>> \in R)
      BY <1>3
    <2>. QED  BY <1>2, <2>1, <2>2
  <1>. QED  BY <1>3, <1>4

(* What is where in a flow after a part of it is replaced.                 *)
LEMMA SplicedIs ==
    ASSUME NEW S, NEW flow \in Seq(S), NEW part \in Seq(S),
           NEW i \in 1 .. Len(flow) + 1, NEW j \in i .. Len(flow) + 1
    PROVE  /\ Spliced(flow, i, j, part) \in Seq(S)
           /\ Len(Spliced(flow, i, j, part)) = i - 1 + Len(part) + (Len(flow) - j + 1)
           /\ \A k \in 1 .. i - 1 + Len(part) + (Len(flow) - j + 1) :
                 Spliced(flow, i, j, part)[k] =
                    IF k < i THEN flow[k]
                    ELSE IF k < i + Len(part) THEN part[k - i + 1]
                    ELSE flow[k - i - Len(part) + j]
  <1> DEFINE a == SubSeq(flow, 1, i - 1)
             b == SubSeq(flow, j, Len(flow))
             n == Len(flow)
             m == Len(part)
  <1>0. n \in Nat /\ m \in Nat /\ \A k \in 1 .. n : flow[k] \in S
    BY LenProperties, ElementOfSeq
  <1>1. /\ a \in Seq(S) /\ Len(a) = i - 1 /\ \A k \in 1 .. i - 1 : a[k] = flow[k]
    <2>1. 1 \in Int /\ i - 1 \in Int /\ \A k \in 1 .. i - 1 : flow[k] \in S
      BY <1>0
    <2>2. /\ a \in Seq(S) /\ Len(a) = (IF 1 <= i - 1 THEN i - 1 - 1 + 1 ELSE 0)
          /\ \A k \in 1 .. i - 1 - 1 + 1 : a[k] = flow[1 + k - 1]
      BY <2>1, SubSeqProperties
    <2>. QED  BY <1>0, <2>2
  <1>2. /\ b \in Seq(S) /\ Len(b) = n - j + 1
        /\ \A k \in 1 .. n - j + 1 : b[k] = flow[j + k - 1]
    <2>1. j \in Int /\ n \in Int /\ \A k \in j .. n : flow[k] \in S
      BY <1>0
    <2>2. /\ b \in Seq(S) /\ Len(b) = (IF j <= n THEN n - j + 1 ELSE 0)
          /\ \A k \in 1 .. n - j + 1 : b[k] = flow[j + k - 1]
      BY <2>1, SubSeqProperties
    <2>. QED  BY <1>0, <2>2
  <1> DEFINE c == a \o part
  <1>5. Spliced(flow, i, j, part) = c \o b
    BY DEF Spliced
  <1>. HIDE DEF a, b
  <1>3. /\ c \in Seq(S) /\ Len(c) = i - 1 + m
        /\ \A k \in 1 .. i - 1 + m : c[k] = IF k <= i - 1 THEN a[k] ELSE part[k - (i - 1)]
    BY <1>1, ConcatProperties
  <1>. HIDE DEF c
  <1>4. /\ c \o b \in Seq(S) /\ Len(c \o b) = i - 1 + m + (n - j + 1)
        /\ \A k \in 1 .. i - 1 + m + (n - j + 1) :
              (c \o b)[k] = IF k <= i - 1 + m THEN c[k] ELSE b[k - (i - 1 + m)]
    <2>1. /\ c \o b \in Seq(S) /\ Len(c \o b) = Len(c) + Len(b)
          /\ \A k \in 1 .. Len(c) + Len(b) :
                (c \o b)[k] = IF k <= Len(c) THEN c[k] ELSE b[k - Len(c)]
      BY <1>2, <1>3, ConcatProperties
    <2>2. Len(c) = i - 1 + m /\ Len(b) = n - j + 1
      BY <1>2, <1>3
    <2>. HIDE DEF m, n
    <2>. QED  BY <2>1, <2>2
  <1>6. ASSUME NEW k \in 1 .. i - 1 + m + (n - j + 1)
        PROVE  (c \o b)[k] = IF k < i THEN flow[k]
                             ELSE IF k < i + m THEN part[k - i + 1]
                             ELSE flow[k - i - m + j]
    <2>1. CASE k < i
      BY <1>0, <1>1, <1>3, <1>4, <2>1, SMTT(30)
    <2>2. CASE ~(k < i) /\ k < i + m
      <3>1. (c \o b)[k] = part[k - (i - 1)]
        BY <1>0, <1>3, <1>4, <2>2
      <3>2. k - (i - 1) = k - i + 1
        BY <1>0
      <3>. QED  BY <1>0, <2>2, <3>1, <3>2
    <2>3. CASE ~(k < i + m)
      <3>1. k - (i - 1 + m) \in 1 .. n - j + 1
        BY <1>0, <2>3
      <3>2. (c \o b)[k] = b[k - (i - 1 + m)]
        BY <1>0, <1>4, <2>3
      <3>3. b[k - (i - 1 + m)] = flow[j + (k - (i - 1 + m)) - 1]
        BY <1>2, <3>1
      <3>4. j + (k - (i - 1 + m)) - 1 = k - i - m + j
        BY <1>0
      <3>. QED  BY <1>0, <2>3, <3>2, <3>3, <3>4
    <2>. QED  BY <2>1, <2>2, <2>3
  <1>. QED  BY <1>4, <1>5, <1>6

LEMMA EntriesAre ==
    ASSUME NEW flow \in Seq(Entry)
    PROVE  /\ Len(flow) \in Nat /\ DOMAIN flow = 1 .. Len(flow)
           /\ \A k \in 1 .. Len(flow) : flow[k] \in Entry /\ flow[k].level \in Nat
  <1>1. \A x \in Entry : x.level \in Nat
    BY DEF Entry
  <1>2. Len(flow) \in Nat /\ DOMAIN flow = 1 .. Len(flow)
    BY LenProperties
  <1>3. \A k \in 1 .. Len(flow) : flow[k] \in Entry
    BY ElementOfSeq
  <1>. QED  BY <1>1, <1>2, <1>3

(* What hangs from an entry ends, at one place.                            *)
LEMMA EndIs ==
    ASSUME NEW flow \in Seq(Entry), NEW i \in 1 .. Len(flow)
    PROVE  End(flow, i) \in i + 1 .. Len(flow) + 1 /\ IsEnd(flow, i, End(flow, i))
  <1> DEFINE T == {j \in i + 1 .. Len(flow) + 1 :
                      j <= Len(flow) => flow[j].level <= flow[i].level}
  <1>1. Len(flow) \in Nat /\ \A l \in 1 .. Len(flow) : flow[l].level \in Nat
    BY EntriesAre
  <1>2. T \in SUBSET Nat /\ Len(flow) + 1 \in T
    BY <1>1
  <1>3. PICK j \in T : \A k \in T : j <= k
    <2>. HIDE DEF T
    <2>. QED  BY <1>2, Least
  <1>4. IsEnd(flow, i, j)
    <2>1. ASSUME NEW k \in i + 1 .. j - 1 PROVE flow[k].level > flow[i].level
      <3>1. k \notin T /\ k \in i + 1 .. Len(flow)
        BY <1>1, <1>3
      <3>. QED  BY <1>1, <3>1
    <2>. QED  BY <2>1, <1>3 DEF IsEnd
  <1>. QED  BY <1>3, <1>4 DEF End

LEMMA EndUnique ==
    ASSUME NEW flow \in Seq(Entry), NEW i \in 1 .. Len(flow),
           NEW j \in i + 1 .. Len(flow) + 1, IsEnd(flow, i, j)
    PROVE  End(flow, i) = j
  <1> DEFINE k == End(flow, i)
  <1>1. Len(flow) \in Nat /\ \A l \in 1 .. Len(flow) : flow[l].level \in Nat
    BY EntriesAre
  <1>2. k \in i + 1 .. Len(flow) + 1 /\ IsEnd(flow, i, k)
    BY EndIs
  <1>. HIDE DEF k
  <1>3. ~(j < k) /\ ~(k < j)
    BY <1>1, <1>2 DEF IsEnd
  <1>. QED  BY <1>1, <1>2, <1>3 DEF k

LEMMA ForestIs ==
    ASSUME NEW n \in Nat, NEW p \in Seq(Entry)
    PROVE  p \in Forest(n) <=>
              \A k \in 1 .. Len(p) : /\ p[k].level >= n
                                     /\ p[k].level <= IF k = 1 THEN n ELSE p[k - 1].level + 1
  BY EntriesAre DEF Forest

LEMMA TreeIs ==
    ASSUME NEW kind, NEW p \in Seq(Entry)
    PROVE  p \in Tree(kind) <=>
              /\ Len(p) > 0 /\ p[1].kind = kind /\ p[1].level = 0
              /\ \A k \in 2 .. Len(p) : /\ p[k].level >= 1
                                        /\ p[k].level <= p[k - 1].level + 1
  <1>1. /\ Len(p) \in Nat
        /\ \A k \in 1 .. Len(p) : p[k].level \in Nat
    BY EntriesAre
  <1>2. p \in Tree(kind) <=>
           /\ \A k \in 1 .. Len(p) : /\ p[k].level >= 0
                                     /\ p[k].level <= IF k = 1 THEN 0 ELSE p[k - 1].level + 1
           /\ Len(p) > 0 /\ p[1].kind = kind /\ \A k \in 2 .. Len(p) : p[k].level > 0
    BY ForestIs DEF Tree
  <1>3. ASSUME p \in Tree(kind)
        PROVE  /\ Len(p) > 0 /\ p[1].kind = kind /\ p[1].level = 0
               /\ \A k \in 2 .. Len(p) : /\ p[k].level >= 1
                                         /\ p[k].level <= p[k - 1].level + 1
    BY <1>1, <1>2, <1>3
  <1>4. ASSUME Len(p) > 0, p[1].kind = kind, p[1].level = 0,
               \A k \in 2 .. Len(p) : p[k].level >= 1 /\ p[k].level <= p[k - 1].level + 1
        PROVE  p \in Tree(kind)
    BY <1>1, <1>2, <1>4
  <1>. QED  BY <1>3, <1>4

LEMMA TreesAre == \A kind : Tree(kind) \subseteq Seq(Entry)
  BY DEF Tree, Forest

LEMMA LiftedIs ==
    ASSUME NEW p \in Seq(Entry), NEW n \in Nat
    PROVE  /\ Lifted(p, n) \in Seq(Entry) /\ Len(Lifted(p, n)) = Len(p)
           /\ \A k \in 1 .. Len(p) :
                 /\ Lifted(p, n)[k].level = p[k].level + n
                 /\ Lifted(p, n)[k].kind = p[k].kind
                 /\ Lifted(p, n)[k].id = p[k].id
  <1>1. /\ Len(p) \in Nat /\ DOMAIN p = 1 .. Len(p)
        /\ \A k \in 1 .. Len(p) : p[k] \in Entry
    BY EntriesAre
  <1>2. \A x \in Entry : LET y == [x EXCEPT !.level = @ + n]
                         IN  /\ y \in Entry /\ y.level = x.level + n
                             /\ y.kind = x.kind /\ y.id = x.id
    BY SMTT(30) DEF Entry
  <1>3. Lifted(p, n) = [k \in 1 .. Len(p) |-> [p[k] EXCEPT !.level = @ + n]]
    BY <1>1 DEF Lifted
  <1>4. Lifted(p, n) \in [1 .. Len(p) -> Entry]
    BY <1>1, <1>2, <1>3
  <1>5. Lifted(p, n) \in Seq(Entry)
    BY <1>1, <1>4, SeqDef
  <1>6. Len(Lifted(p, n)) = Len(p)
    BY <1>1, <1>4, <1>5, LenProperties
  <1>. QED  BY <1>1, <1>2, <1>3, <1>5, <1>6

LEMMA LiftedForest ==
    ASSUME NEW p \in Forest(0), NEW n \in Nat
    PROVE  Lifted(p, n) \in Forest(n)
  <1>1. p \in Seq(Entry)
    BY DEF Forest
  <1>2. /\ Len(p) \in Nat
        /\ \A k \in 1 .. Len(p) : /\ p[k].level \in Nat
                                  /\ p[k].level <= IF k = 1 THEN 0 ELSE p[k - 1].level + 1
    BY <1>1, ForestIs, EntriesAre
  <1>3. /\ Lifted(p, n) \in Seq(Entry) /\ Len(Lifted(p, n)) = Len(p)
        /\ \A k \in 1 .. Len(p) : Lifted(p, n)[k].level = p[k].level + n
    BY <1>1, LiftedIs
  <1>4. ASSUME NEW k \in 1 .. Len(p)
        PROVE  /\ Lifted(p, n)[k].level >= n
               /\ Lifted(p, n)[k].level <=
                     IF k = 1 THEN n ELSE Lifted(p, n)[k - 1].level + 1
    <2>1. CASE k = 1
      BY <1>2, <1>3, <2>1
    <2>2. CASE k # 1
      <3>1. k - 1 \in 1 .. Len(p)
        BY <1>2, <2>2
      <3>2. /\ Lifted(p, n)[k - 1].level = p[k - 1].level + n
            /\ Lifted(p, n)[k].level = p[k].level + n
        BY <1>3, <3>1
      <3>3. p[k].level <= p[k - 1].level + 1 /\ p[k].level \in Nat /\ p[k - 1].level \in Nat
        BY <1>2, <2>2, <3>1
      <3>. QED  BY <2>2, <3>2, <3>3
    <2>. QED  BY <2>1, <2>2
  <1>. QED  BY <1>3, <1>4, ForestIs

LEMMA ConcatForest ==
    ASSUME NEW n \in Nat, NEW a \in Forest(n), NEW b \in Forest(n)
    PROVE  a \o b \in Forest(n)
  <1>1. a \in Seq(Entry) /\ b \in Seq(Entry)
    BY DEF Forest
  <1>2. /\ Len(a) \in Nat /\ Len(b) \in Nat
        /\ \A k \in 1 .. Len(a) : /\ a[k].level \in Nat /\ a[k].level >= n
                                  /\ a[k].level <= IF k = 1 THEN n ELSE a[k - 1].level + 1
        /\ \A k \in 1 .. Len(b) : /\ b[k].level \in Nat /\ b[k].level >= n
                                  /\ b[k].level <= IF k = 1 THEN n ELSE b[k - 1].level + 1
    BY <1>1, ForestIs, EntriesAre
  <1> DEFINE c == a \o b
  <1>3. /\ c \in Seq(Entry) /\ Len(c) = Len(a) + Len(b)
        /\ \A k \in 1 .. Len(a) + Len(b) :
              c[k] = IF k <= Len(a) THEN a[k] ELSE b[k - Len(a)]
    BY <1>1, ConcatProperties
  <1>. HIDE DEF c
  <1>4. ASSUME NEW k \in 1 .. Len(c)
        PROVE  c[k].level >= n /\ c[k].level <= IF k = 1 THEN n ELSE c[k - 1].level + 1
    <2>1. CASE k <= Len(a)
      <3>1. c[k] = a[k] /\ (k # 1 => c[k - 1] = a[k - 1])
        BY <1>2, <1>3, <2>1
      <3>. QED  BY <1>2, <2>1, <3>1
    <2>2. CASE k = Len(a) + 1
      <3>1. c[k] = b[1] /\ (k # 1 => c[k - 1] = a[k - 1])
        BY <1>2, <1>3, <2>2
      <3>2. b[1].level = n /\ (k # 1 => a[k - 1].level >= n /\ a[k - 1].level \in Nat)
        BY <1>2, <1>3, <2>2
      <3>. QED  BY <3>1, <3>2
    <2>3. CASE k > Len(a) + 1
      <3>1. c[k] = b[k - Len(a)] /\ c[k - 1] = b[k - Len(a) - 1]
        BY <1>2, <1>3, <2>3, SMTT(30)
      <3>2. k - Len(a) \in 2 .. Len(b)
        BY <1>2, <1>3, <2>3
      <3>. QED  BY <1>2, <2>3, <3>1, <3>2
    <2>. QED  BY <1>2, <1>3, <2>1, <2>2, <2>3
  <1>. QED  BY <1>3, <1>4, ForestIs DEF c

LEMMA ConsForest ==
    ASSUME NEW x \in Entry, NEW b \in Forest(x.level + 1)
    PROVE  /\ <<x>> \o b \in Forest(x.level) /\ Len(<<x>> \o b) = Len(b) + 1
           /\ (<<x>> \o b)[1] = x
           /\ \A k \in 2 .. Len(b) + 1 : (<<x>> \o b)[k] = b[k - 1] /\ b[k - 1].level > x.level
  <1> DEFINE n == x.level
             c == <<x>> \o b
  <1>0. n \in Nat
    BY DEF Entry
  <1>1. <<x>> \in Seq(Entry) /\ b \in Seq(Entry) /\ Len(<<x>>) = 1 /\ <<x>>[1] = x
    BY DEF Forest
  <1>2. /\ Len(b) \in Nat
        /\ \A k \in 1 .. Len(b) : /\ b[k].level \in Nat /\ b[k].level >= n + 1
                                  /\ b[k].level <= IF k = 1 THEN n + 1 ELSE b[k - 1].level + 1
    BY <1>0, <1>1, ForestIs, EntriesAre
  <1>3. /\ c \in Seq(Entry) /\ Len(c) = 1 + Len(b)
        /\ \A k \in 1 .. 1 + Len(b) : c[k] = IF k <= 1 THEN x ELSE b[k - 1]
    BY <1>1, ConcatProperties
  <1>. HIDE DEF c
  <1>4. ASSUME NEW k \in 1 .. Len(c)
        PROVE  c[k].level >= n /\ c[k].level <= IF k = 1 THEN n ELSE c[k - 1].level + 1
    <2>1. CASE k = 1
      BY <1>0, <1>2, <1>3, <2>1
    <2>2. CASE k = 2
      <3>1. c[2] = b[1] /\ c[1] = x /\ 1 \in 1 .. Len(b)
        BY <1>2, <1>3, <2>2
      <3>. QED  BY <1>0, <1>2, <2>2, <3>1
    <2>3. CASE k > 2
      <3>1. c[k] = b[k - 1] /\ c[k - 1] = b[k - 2] /\ k - 1 \in 2 .. Len(b)
        BY <1>2, <1>3, <2>3
      <3>. QED  BY <1>0, <1>2, <2>3, <3>1
    <2>. QED  BY <2>1, <2>2, <2>3
  <1>5. c \in Forest(n)
    BY <1>0, <1>3, <1>4, ForestIs
  <1>6. \A k \in 2 .. Len(b) + 1 : c[k] = b[k - 1] /\ b[k - 1].level > n
    BY <1>0, <1>2, <1>3, SMTT(30)
  <1>. QED  BY <1>2, <1>3, <1>5, <1>6 DEF c

(* What hangs from an entry is a forest, and so is what follows the first  *)
(* of its branches.                                                        *)
LEMMA SubSeqForest ==
    ASSUME NEW kind, NEW flow \in Tree(kind), NEW n \in Nat,
           NEW i \in 2 .. Len(flow) + 1, NEW j \in i .. Len(flow) + 1,
           \A k \in i .. j - 1 : flow[k].level >= n,
           i < j => flow[i].level <= n
    PROVE  /\ SubSeq(flow, i, j - 1) \in Forest(n)
           /\ Len(SubSeq(flow, i, j - 1)) = j - i
           /\ \A k \in 1 .. j - i : SubSeq(flow, i, j - 1)[k] = flow[i + k - 1]
  <1> DEFINE c == SubSeq(flow, i, j - 1)
  <1>1. flow \in Seq(Entry)
    BY TreesAre
  <1>2. /\ Len(flow) \in Nat /\ \A k \in 1 .. Len(flow) : flow[k] \in Entry
        /\ \A k \in 1 .. Len(flow) : flow[k].level \in Nat
        /\ \A k \in 2 .. Len(flow) : flow[k].level <= flow[k - 1].level + 1
    BY <1>1, EntriesAre, TreeIs
  <1>3. /\ c \in Seq(Entry) /\ Len(c) = j - i
        /\ \A k \in 1 .. j - i : c[k] = flow[i + k - 1]
    <2>1. i \in Int /\ j - 1 \in Int /\ \A k \in i .. j - 1 : flow[k] \in Entry
      BY <1>2
    <2>2. /\ c \in Seq(Entry) /\ Len(c) = (IF i <= j - 1 THEN j - 1 - i + 1 ELSE 0)
          /\ \A k \in 1 .. j - 1 - i + 1 : c[k] = flow[i + k - 1]
      BY <2>1, SubSeqProperties
    <2>. QED  BY <1>2, <2>2
  <1>. HIDE DEF c
  <1>4. ASSUME NEW k \in 1 .. Len(c)
        PROVE  c[k].level >= n /\ c[k].level <= IF k = 1 THEN n ELSE c[k - 1].level + 1
    <2>1. i + k - 1 \in i .. j - 1 /\ c[k] = flow[i + k - 1]
      BY <1>2, <1>3
    <2>2. CASE k = 1
      BY <1>2, <2>1, <2>2
    <2>3. CASE k # 1
      <3>1. c[k - 1] = flow[i + k - 2] /\ i + k - 1 \in 2 .. Len(flow)
        BY <1>2, <1>3, <2>1, <2>3
      <3>. QED  BY <1>2, <2>1, <2>3, <3>1
    <2>. QED  BY <2>2, <2>3
  <1>. QED  BY <1>3, <1>4, ForestIs DEF c

(* A part may be replaced by one that hangs from the same level.           *)
LEMMA SplicedTree ==
    ASSUME NEW kind, NEW flow \in Tree(kind), NEW n \in Nat \ {0}, NEW part \in Forest(n),
           NEW i \in 2 .. Len(flow) + 1, NEW j \in i .. Len(flow) + 1,
           n <= flow[i - 1].level + 1, j <= Len(flow) => flow[j].level <= n
    PROVE  Spliced(flow, i, j, part) \in Tree(kind)
  <1> DEFINE c == Spliced(flow, i, j, part)
             m == Len(part)
  <1>1. flow \in Seq(Entry) /\ part \in Seq(Entry)
    BY TreesAre DEF Forest
  <1>2. /\ Len(flow) \in Nat /\ \A k \in 1 .. Len(flow) : flow[k].level \in Nat
        /\ flow[1].kind = kind /\ flow[1].level = 0
        /\ \A k \in 2 .. Len(flow) : /\ flow[k].level >= 1
                                     /\ flow[k].level <= flow[k - 1].level + 1
    BY <1>1, EntriesAre, TreeIs
  <1>3. /\ m \in Nat
        /\ \A k \in 1 .. m : /\ part[k].level \in Nat /\ part[k].level >= n
                             /\ part[k].level <= IF k = 1 THEN n ELSE part[k - 1].level + 1
    BY <1>1, ForestIs, EntriesAre
  <1>4. /\ c \in Seq(Entry) /\ Len(c) = i - 1 + m + (Len(flow) - j + 1)
        /\ \A k \in 1 .. i - 1 + m + (Len(flow) - j + 1) :
              c[k] = IF k < i THEN flow[k]
                     ELSE IF k < i + m THEN part[k - i + 1] ELSE flow[k - i - m + j]
    BY <1>1, <1>2, SplicedIs
  <1>. HIDE DEF c, m
  <1>0. i \in Nat /\ j \in Nat /\ i >= 2 /\ j >= i /\ j <= Len(flow) + 1
    BY <1>2
  <1>5. Len(c) > 0 /\ c[1] = flow[1]
    <2>1. 1 \in 1 .. i - 1 + m + (Len(flow) - j + 1) /\ Len(c) > 0 /\ 1 < i
      BY <1>0, <1>2, <1>3, <1>4
    <2>. QED  BY <1>4, <2>1
  <1>7. \A q \in 2 .. m : /\ part[q].level <= part[q - 1].level + 1
                           /\ part[q].level >= n /\ part[q].level \in Nat
    BY <1>3
  <1>6. ASSUME NEW k \in 2 .. Len(c)
        PROVE  c[k].level >= 1 /\ c[k].level <= c[k - 1].level + 1
    <2>1. CASE k < i
      <3>1. k \in 2 .. Len(flow) /\ k - 1 < i /\ k - 1 \in 1 .. Len(c)
        BY <1>0, <1>2, <1>3, <1>4, <2>1
      <3>2. c[k] = flow[k] /\ c[k - 1] = flow[k - 1]
        BY <1>4, <2>1, <3>1
      <3>. QED  BY <1>2, <3>1, <3>2
    <2>2. CASE k = i /\ m > 0
      <3>1. c[k] = part[1] /\ c[k - 1] = flow[i - 1] /\ 1 \in 1 .. m
        BY <1>2, <1>3, <1>4, <2>2
      <3>. QED  BY <1>2, <1>3, <3>1
    <2>3. CASE k > i /\ k < i + m
      <3>1. /\ k - i + 1 \in 2 .. m /\ k - 1 - i + 1 = k - i /\ k - i + 1 - 1 = k - i
            /\ k - i \in 1 .. m /\ k - 1 \in 1 .. Len(c)
            /\ ~(k < i) /\ ~(k - 1 < i) /\ k - 1 < i + m
        BY <1>0, <1>2, <1>3, <1>4, <2>3
      <3>2. c[k] = part[k - i + 1] /\ c[k - 1] = part[k - i]
        BY <1>4, <2>3, <3>1
      <3>3. part[k - i + 1].level <= part[k - i].level + 1 /\ part[k - i + 1].level >= n
            /\ part[k - i + 1].level \in Nat /\ part[k - i].level \in Nat
        <4>1. PICK q \in 2 .. m : q = k - i + 1
          BY <3>1
        <4>2. /\ part[q].level <= part[q - 1].level + 1 /\ part[q].level >= n
              /\ part[q].level \in Nat
          BY <1>7
        <4>3. q - 1 = k - i /\ part[k - i].level \in Nat
          BY <1>3, <3>1, <4>1
        <4>. QED  BY <4>1, <4>2, <4>3
      <3>4. part[k - i + 1].level >= 1
        BY <3>3
      <3>. QED  BY <3>2, <3>3, <3>4
    <2>4. CASE k = i + m
      <3>1. c[k] = flow[j] /\ j \in 2 .. Len(flow)
        BY <1>2, <1>3, <1>4, <2>4
      <3>2. c[k - 1].level \in Nat /\ c[k - 1].level + 1 >= n
        <4>1. CASE m = 0
          <5>1. /\ i - 1 \in 1 .. Len(flow) /\ k - 1 = i - 1 /\ i - 1 < i
                /\ i - 1 \in 1 .. Len(c)
            BY <1>0, <1>2, <1>3, <1>4, <2>4, <4>1
          <5>2. c[k - 1] = flow[i - 1]
            BY <1>4, <5>1
          <5>. QED  BY <1>2, <5>1, <5>2
        <4>2. CASE m > 0
          <5>1. /\ m \in 1 .. m /\ k - 1 - i + 1 = m /\ k - 1 \in 1 .. Len(c)
                /\ ~(k - 1 < i) /\ k - 1 < i + m
            BY <1>0, <1>2, <1>3, <1>4, <2>4, <4>2
          <5>2. c[k - 1] = part[m]
            BY <1>4, <5>1
          <5>3. part[m].level >= n /\ part[m].level \in Nat
            BY <1>3, <5>1
          <5>. QED  BY <5>2, <5>3
        <4>. QED  BY <1>3, <4>1, <4>2
      <3>3. flow[j].level \in Nat /\ flow[j].level >= 1 /\ flow[j].level <= n
        BY <1>2, <3>1
      <3>. QED  BY <3>1, <3>2, <3>3
    <2>5. CASE k > i + m
      <3>1. /\ k - i - m + j \in 2 .. Len(flow) /\ k - 1 \in 1 .. Len(c)
            /\ k - 1 - i - m + j = k - i - m + j - 1
            /\ ~(k < i) /\ ~(k < i + m) /\ ~(k - 1 < i) /\ ~(k - 1 < i + m)
        BY <1>0, <1>2, <1>3, <1>4, <2>5
      <3>2. c[k] = flow[k - i - m + j] /\ c[k - 1] = flow[k - i - m + j - 1]
        BY <1>4, <3>1, SMTT(30)
      <3>3. PICK q \in 2 .. Len(flow) : q = k - i - m + j
        BY <3>1
      <3>4. flow[q].level >= 1 /\ flow[q].level <= flow[q - 1].level + 1
        BY <1>2
      <3>5. q - 1 = k - i - m + j - 1
        BY <1>0, <1>3, <3>3
      <3>6. c[k] = flow[q] /\ c[k - 1] = flow[q - 1]
        BY <3>2, <3>3, <3>5
      <3>. QED  BY <3>4, <3>6
    <2>6. k \in Nat /\ (k < i \/ (k = i /\ m > 0) \/ (k > i /\ k < i + m)
                       \/ k = i + m \/ k > i + m)
      BY <1>0, <1>2, <1>3, <1>4
    <2>. QED  BY <2>1, <2>2, <2>3, <2>4, <2>5, <2>6
  <1>. QED  BY <1>2, <1>4, <1>5, <1>6, TreeIs DEF c

(* What hangs from an entry under i ends where what hangs from i does, or  *)
(* before.                                                                 *)
LEMMA Inside ==
    ASSUME NEW flow \in Seq(Entry), NEW i \in 1 .. Len(flow),
           NEW j \in i + 1 .. End(flow, i) - 1
    PROVE  /\ j \in 2 .. Len(flow) /\ flow[j].level > flow[i].level
           /\ End(flow, j) \in j + 1 .. End(flow, i)
  <1>1. Len(flow) \in Nat /\ \A l \in 1 .. Len(flow) : flow[l].level \in Nat
    BY EntriesAre
  <1>2. End(flow, i) \in i + 1 .. Len(flow) + 1 /\ IsEnd(flow, i, End(flow, i))
    BY EndIs
  <1>3. j \in 2 .. Len(flow) /\ flow[j].level > flow[i].level
    BY <1>1, <1>2 DEF IsEnd
  <1>4. End(flow, j) \in j + 1 .. Len(flow) + 1 /\ IsEnd(flow, j, End(flow, j))
    BY <1>3, EndIs
  <1>5. ~(End(flow, i) < End(flow, j))
    <2>. SUFFICES ASSUME End(flow, i) < End(flow, j) PROVE FALSE
      OBVIOUS
    <2> DEFINE d == End(flow, i)
    <2>1. d \in j + 1 .. End(flow, j) - 1 /\ d \in 1 .. Len(flow)
      BY <1>1, <1>2, <1>4
    <2>2. flow[d].level > flow[j].level
      BY <1>4, <2>1 DEF IsEnd
    <2>3. flow[d].level <= flow[i].level
      BY <1>2, <2>1 DEF IsEnd
    <2>. QED  BY <1>1, <1>3, <2>1, <2>2, <2>3
  <1>. QED  BY <1>1, <1>2, <1>3, <1>4, <1>5

(* The handlers of an entry are what hangs last from it.                   *)
LEMMA HandlersAre ==
    ASSUME NEW flow \in Seq(Entry), NEW i \in 1 .. Len(flow)
    PROVE  /\ HandlersOf(flow, i) \in i + 1 .. End(flow, i)
           /\ HandlersOf(flow, i) < End(flow, i) =>
                 flow[HandlersOf(flow, i)].level = flow[i].level + 1
  <1> DEFINE T == Under(flow, i, "handler")
  <1>1. End(flow, i) \in i + 1 .. Len(flow) + 1 /\ Len(flow) \in Nat
    BY EndIs, EntriesAre
  <1>2. T \in SUBSET Nat /\ T \subseteq i + 1 .. End(flow, i) - 1
    BY <1>1 DEF Under
  <1>3. \A k \in T : flow[k].level = flow[i].level + 1
    BY DEF Under
  <1>8. \A k \in T : k \in Nat /\ i + 1 <= k /\ k <= End(flow, i)
    BY <1>1 DEF Under
  <1>4. \E h \in T \cup {End(flow, i)} : \A k \in T : h <= k
    <2>1. CASE T = {}
      BY <2>1
    <2>2. CASE T # {}
      <3>. HIDE DEF T
      <3>. QED  BY <1>2, <2>2, Least
    <2>. QED  BY <2>1, <2>2
  <1>5. HandlersOf(flow, i) \in T \cup {End(flow, i)}
    BY <1>4 DEF HandlersOf
  <1> DEFINE h == HandlersOf(flow, i)
             e == End(flow, i)
  <1>. HIDE DEF T, h, e
  <1>6. h \in i + 1 .. e
    BY <1>1, <1>5, <1>8 DEF h, e
  <1>7. ASSUME h < e PROVE flow[h].level = flow[i].level + 1
    BY <1>1, <1>3, <1>5, <1>6, <1>7 DEF h, e
  <1>. QED  BY <1>6, <1>7 DEF h, e

LEMMA CutIs ==
    ASSUME NEW flow \in Seq(Entry), NEW i \in 1 .. Len(flow) + 1, NEW j \in i .. Len(flow) + 1
    PROVE  /\ Spliced(flow, i, j, <<>>) \in Seq(Entry)
           /\ Len(Spliced(flow, i, j, <<>>)) = i - 1 + (Len(flow) - j + 1)
           /\ \A k \in 1 .. i - 1 + (Len(flow) - j + 1) :
                 Spliced(flow, i, j, <<>>)[k] = IF k < i THEN flow[k] ELSE flow[k - i + j]
  <1> DEFINE p == <<>>
             c == Spliced(flow, i, j, p)
             n == i - 1 + (Len(flow) - j + 1)
  <1>0. p \in Seq(Entry)
    BY EmptySeq
  <1>1. Len(p) = 0
    BY EmptySeq
  <1>2. Len(flow) \in Nat
    BY EntriesAre
  <1>. HIDE DEF p
  <1>3. /\ c \in Seq(Entry) /\ Len(c) = i - 1 + Len(p) + (Len(flow) - j + 1)
        /\ \A k \in 1 .. i - 1 + Len(p) + (Len(flow) - j + 1) :
              c[k] = IF k < i THEN flow[k]
                     ELSE IF k < i + Len(p) THEN p[k - i + 1]
                     ELSE flow[k - i - Len(p) + j]
    BY <1>0, <1>2, SplicedIs
  <1>. HIDE DEF c
  <1>4. /\ i - 1 + Len(p) + (Len(flow) - j + 1) = n
        /\ i + Len(p) = i /\ \A k \in 1 .. n : k - i - Len(p) + j = k - i + j
    BY <1>1, <1>2
  <1>. HIDE DEF n
  <1>5. /\ c \in Seq(Entry) /\ Len(c) = n
        /\ \A k \in 1 .. n : c[k] = IF k < i THEN flow[k] ELSE flow[k - i + j]
    BY <1>3, <1>4
  <1>. QED  BY <1>5 DEF c, p, n

(* A flow in which only what hangs from i is new.                          *)
LEMMA RestIsKept ==
    ASSUME NEW flow \in Seq(Entry), NEW c \in Seq(Entry), NEW i \in 1 .. Len(flow),
           NEW d \in i + 1 .. Len(c) + 1,
           \A k \in 1 .. i - 1 : c[k] = flow[k],
           c[i].level = flow[i].level,
           \A k \in i + 1 .. d - 1 : c[k].level > flow[i].level,
           Len(c) - d = Len(flow) - End(flow, i),
           \A k \in d .. Len(c) : c[k] = flow[k - d + End(flow, i)]
    PROVE  Rest(c, i) = Rest(flow, i)
  <1> DEFINE e == End(flow, i)
             r == Rest(flow, i)
             q == Rest(c, i)
             n == i - 1 + (Len(flow) - e + 1)
  <1>1. Len(flow) \in Nat /\ Len(c) \in Nat
    BY EntriesAre
  <1>2. e \in i + 1 .. Len(flow) + 1 /\ IsEnd(flow, i, e)
    BY EndIs
  <1>3. i \in 1 .. Len(c)
    BY <1>1
  <1>4. IsEnd(c, i, d)
    <2>1. ASSUME d <= Len(c) PROVE c[d].level <= flow[i].level
      <3>1. d \in d .. Len(c) /\ d - d + e = e /\ e <= Len(flow)
        BY <1>1, <1>2, <2>1
      <3>2. c[d] = flow[e]
        BY <3>1
      <3>. QED  BY <1>2, <3>1, <3>2 DEF IsEnd
    <2>. QED  BY <2>1 DEF IsEnd
  <1>5. End(c, i) = d
    BY <1>3, <1>4, EndUnique
  <1>6. <<>> \in Seq(Entry) /\ Len(<<>>) = 0
    BY EmptySeq
  <1>. HIDE DEF e
  <1>7. /\ r \in Seq(Entry) /\ Len(r) = n
        /\ \A k \in 1 .. n : r[k] = IF k < i THEN flow[k] ELSE flow[k - i + e]
    <2>0. i \in 1 .. Len(flow) + 1 /\ e \in i .. Len(flow) + 1
      BY <1>1, <1>2
    <2>1. r = Spliced(flow, i, e, <<>>)
      BY DEF Rest, e
    <2>2. /\ Spliced(flow, i, e, <<>>) \in Seq(Entry)
          /\ Len(Spliced(flow, i, e, <<>>)) = i - 1 + (Len(flow) - e + 1)
          /\ \A k \in 1 .. i - 1 + (Len(flow) - e + 1) :
                Spliced(flow, i, e, <<>>)[k] = IF k < i THEN flow[k] ELSE flow[k - i + e]
      BY <2>0, CutIs
    <2>. HIDE DEF r
    <2>. QED  BY <2>1, <2>2
  <1>8. /\ q \in Seq(Entry) /\ Len(q) = i - 1 + (Len(c) - d + 1)
        /\ \A k \in 1 .. i - 1 + (Len(c) - d + 1) :
              q[k] = IF k < i THEN c[k] ELSE c[k - i + d]
    <2>0. i \in 1 .. Len(c) + 1 /\ d \in i .. Len(c) + 1
      BY <1>1, <1>3
    <2>. QED  BY <1>5, <2>0, CutIs DEF Rest
  <1>9. Len(q) = Len(r)
    BY <1>1, <1>2, <1>7, <1>8 DEF e
  <1>. HIDE DEF q, r
  <1>10. ASSUME NEW k \in 1 .. Len(q) PROVE q[k] = r[k]
    <2>1. CASE k < i
      BY <1>1, <1>7, <1>8, <1>9, <2>1, SMTT(30)
    <2>2. CASE ~(k < i)
      <3>1. q[k] = c[k - i + d] /\ r[k] = flow[k - i + e]
        BY <1>1, <1>7, <1>8, <1>9, <2>2
      <3>4. e \in Nat /\ d \in Nat
        BY <1>1, <1>2
      <3>0. e \in Nat /\ d \in Nat /\ k \in Nat /\ k <= i - 1 + (Len(c) - d + 1)
        BY <1>8, <3>4
      <3>2. k - i + d \in d .. Len(c) /\ k - i + d - d + e = k - i + e
        BY <1>1, <2>2, <3>0, SMTT(30)
      <3>3. c[k - i + d] = flow[k - i + d - d + e]
        BY <3>2 DEF e
      <3>. QED  BY <3>1, <3>2, <3>3
    <2>. QED  BY <2>1, <2>2
  <1>11. q = r
    BY <1>7, <1>8, <1>9, <1>10, SeqEqual
  <1>. QED  BY <1>11 DEF q, r

-----------------------------------------------------------------------------
\* Ids.

LEMMA SplicedIds ==
    ASSUME NEW flow \in Seq(Entry), NEW part \in Seq(Entry),
           NEW i \in 1 .. Len(flow) + 1, NEW j \in i .. Len(flow) + 1,
           IdsDiffer(flow), IdsDiffer(part),
           \A k \in Modules(part), l \in Modules(flow) :
               part[k].id = flow[l].id => part[k].id = None \/ l \in i .. j - 1
    PROVE  IdsDiffer(Spliced(flow, i, j, part))
  <1> DEFINE c == Spliced(flow, i, j, part)
             m == Len(part)
             n == i - 1 + m + (Len(flow) - j + 1)
             Old(k, l) == /\ l \in Modules(flow) /\ c[k] = flow[l]
                          /\ (l < i /\ k = l) \/ (l >= j /\ k = l - j + i + m)
             Fresh(k, l) == l \in Modules(part) /\ c[k] = part[l] /\ k = l + i - 1
  <1>0. Len(flow) \in Nat /\ m \in Nat
    BY EntriesAre
  <1>1. /\ Len(flow) \in Nat /\ DOMAIN flow = 1 .. Len(flow)
        /\ m \in Nat /\ DOMAIN part = 1 .. m
    BY EntriesAre
  <1>2. /\ c \in Seq(Entry) /\ Len(c) = n
        /\ \A k \in 1 .. n :
              c[k] = IF k < i THEN flow[k]
                     ELSE IF k < i + m THEN part[k - i + 1] ELSE flow[k - i - m + j]
    BY <1>0, SplicedIs
  <1>3. DOMAIN c = 1 .. n
    BY <1>2, EntriesAre
  <1>. HIDE DEF c, m
  <1>4. ASSUME NEW k \in Modules(c)
        PROVE  \/ \E l \in Modules(flow) : Old(k, l)
               \/ \E l \in Modules(part) : Fresh(k, l)
    <2>1. k \in 1 .. n /\ c[k].kind = "module"
      BY <1>3 DEF Modules
    <2>2. CASE k < i
      <3>1. k \in 1 .. Len(flow) /\ c[k] = flow[k]
        BY <1>1, <1>2, <2>1, <2>2
      <3>2. k \in Modules(flow) /\ Old(k, k)
        BY <1>1, <2>1, <2>2, <3>1 DEF Modules
      <3>. QED  BY <3>2
    <2>3. CASE ~(k < i) /\ k < i + m
      <3>1. k - i + 1 \in 1 .. m /\ c[k] = part[k - i + 1] /\ k = k - i + 1 + i - 1
        BY <1>1, <1>2, <2>1, <2>3
      <3>2. k - i + 1 \in Modules(part) /\ Fresh(k, k - i + 1)
        BY <1>1, <2>1, <3>1 DEF Modules
      <3>. QED  BY <3>2
    <2>4. CASE ~(k < i) /\ ~(k < i + m)
      <3>1. /\ k - i - m + j \in 1 .. Len(flow) /\ k - i - m + j >= j
            /\ k = k - i - m + j - j + i + m
        BY <1>1, <2>1, <2>4
      <3>2. c[k] = flow[k - i - m + j]
        BY <1>2, <2>1, <2>4
      <3>3. k - i - m + j \in Modules(flow) /\ Old(k, k - i - m + j)
        BY <1>1, <2>1, <3>1, <3>2 DEF Modules
      <3>. QED  BY <3>3
    <2>. QED  BY <2>2, <2>3, <2>4
  <1>5. ASSUME NEW k \in Modules(c), NEW x \in Modules(flow), Old(k, x),
               NEW l \in Modules(c), NEW y \in Modules(flow), Old(l, y), c[k].id = c[l].id
        PROVE  k = l \/ c[k].id = None
    <2>1. x = y \/ flow[x].id = None
      BY <1>5 DEF IdsDiffer
    <2>2. ASSUME x = y PROVE k = l
      <3>1. x \in Nat /\ y \in Nat
        BY <1>1 DEF Modules
      <3>. QED  BY <1>1, <1>5, <2>2, <3>1
    <2>. QED  BY <1>5, <2>1, <2>2
  <1>6. ASSUME NEW k \in Modules(c), NEW x \in Modules(part), Fresh(k, x),
               NEW l \in Modules(c), NEW y \in Modules(part), Fresh(l, y), c[k].id = c[l].id
        PROVE  k = l \/ c[k].id = None
    BY <1>6 DEF IdsDiffer
  <1>7. ASSUME NEW k \in Modules(c), NEW x \in Modules(part), Fresh(k, x),
               NEW l \in Modules(c), NEW y \in Modules(flow), Old(l, y), c[k].id = c[l].id
        PROVE  c[k].id = None
    <2>1. part[x].id = None \/ y \in i .. j - 1
      BY <1>7
    <2>2. y \notin i .. j - 1
      BY <1>1, <1>7
    <2>. QED  BY <1>7, <2>1, <2>2
  <1>. HIDE DEF Old, Fresh
  <1>8. \A k, l \in Modules(c) : c[k].id = c[l].id => k = l \/ c[k].id = None
    BY <1>4, <1>5, <1>6, <1>7
  <1>. QED  BY <1>8 DEF IdsDiffer, c

(* Ids differ in an outline that has another one's modules where they are. *)
LEMMA SameIds ==
    ASSUME NEW flow \in Seq(Entry), NEW c \in Seq(Entry), Len(c) = Len(flow),
           \A k \in 1 .. Len(flow) :
               /\ c[k].kind = flow[k].kind
               /\ flow[k].kind = "module" => c[k].id = flow[k].id
    PROVE  IdsDiffer(flow) <=> IdsDiffer(c)
  <1>1. DOMAIN flow = 1 .. Len(flow) /\ DOMAIN c = 1 .. Len(flow)
    BY EntriesAre
  <1>2. Modules(c) = Modules(flow)
    BY <1>1 DEF Modules
  <1>3. \A k \in Modules(flow) : c[k].id = flow[k].id
    BY <1>1 DEF Modules
  <1>. QED  BY <1>2, <1>3 DEF IdsDiffer

LEMMA LiftedIds ==
    ASSUME NEW p \in Seq(Entry), NEW n \in Nat
    PROVE  /\ Modules(Lifted(p, n)) = Modules(p)
           /\ \A k \in Modules(p) : Lifted(p, n)[k].id = p[k].id
           /\ IdsDiffer(p) <=> IdsDiffer(Lifted(p, n))
  <1>1. /\ Lifted(p, n) \in Seq(Entry) /\ Len(Lifted(p, n)) = Len(p)
        /\ \A k \in 1 .. Len(p) : /\ Lifted(p, n)[k].kind = p[k].kind
                                  /\ Lifted(p, n)[k].id = p[k].id
    BY LiftedIs
  <1>2. DOMAIN p = 1 .. Len(p) /\ DOMAIN Lifted(p, n) = 1 .. Len(p)
    BY <1>1, EntriesAre
  <1>3. Modules(Lifted(p, n)) = Modules(p)
    BY <1>1, <1>2 DEF Modules
  <1>4. \A k \in Modules(p) : Lifted(p, n)[k].id = p[k].id
    BY <1>1, <1>2 DEF Modules
  <1>. QED  BY <1>1, <1>3, <1>4, SameIds

(* What is deleted takes its ids with it.                                  *)
LEMMA CutIds ==
    ASSUME NEW flow \in Seq(Entry), NEW i \in 1 .. Len(flow) + 1,
           NEW j \in i .. Len(flow) + 1, IdsDiffer(flow)
    PROVE  IdsDiffer(Spliced(flow, i, j, <<>>))
  <1> DEFINE p == <<>>
  <1>1. p \in Seq(Entry) /\ Len(p) = 0
    BY EmptySeq
  <1>2. Modules(p) = {}
    BY DEF Modules
  <1>. HIDE DEF p
  <1>3. IdsDiffer(p)
    BY <1>2 DEF IdsDiffer
  <1>4. IdsDiffer(Spliced(flow, i, j, p))
    BY <1>1, <1>2, <1>3, SplicedIds
  <1>. QED  BY <1>4 DEF p

LEMMA SetFlow ==
    ASSUME NEW s \in Scenario, NEW f \in Tree("scenario")
    PROVE  [s EXCEPT !.flow = f] \in Scenario /\ [s EXCEPT !.flow = f].flow = f
  BY DEF Scenario

(* A flow of a scenario, and what is at a place other than its first.      *)
LEMMA ScenarioIs ==
    ASSUME NEW s \in Scenario
    PROVE  /\ s.flow \in Tree("scenario") /\ s.flow \in Seq(Entry)
           /\ Len(s.flow) \in Nat /\ Len(s.flow) > 0 /\ DOMAIN s.flow = 1 .. Len(s.flow)
           /\ \A i \in 1 .. Len(s.flow) : s.flow[i] \in Entry /\ s.flow[i].level \in Nat
           /\ s.flow[1].kind = "scenario" /\ s.flow[1].level = 0
           /\ \A i \in 2 .. Len(s.flow) : /\ s.flow[i].level >= 1
                                          /\ s.flow[i].level <= s.flow[i - 1].level + 1
           /\ \A i \in Modules(s.flow) : i \in 2 .. Len(s.flow)
           /\ s.resources \in Seq(Keys \cup {None})
  <1>1. s.flow \in Tree("scenario") /\ s.resources \in Seq(Keys \cup {None})
    BY DEF Scenario
  <1>2. s.flow \in Seq(Entry)
    BY <1>1, TreesAre
  <1>3. /\ Len(s.flow) \in Nat /\ DOMAIN s.flow = 1 .. Len(s.flow)
        /\ \A i \in 1 .. Len(s.flow) : s.flow[i] \in Entry /\ s.flow[i].level \in Nat
    BY <1>2, EntriesAre
  <1>4. /\ Len(s.flow) > 0 /\ s.flow[1].kind = "scenario" /\ s.flow[1].level = 0
        /\ \A i \in 2 .. Len(s.flow) : /\ s.flow[i].level >= 1
                                       /\ s.flow[i].level <= s.flow[i - 1].level + 1
    BY <1>1, <1>2, TreeIs
  <1>5. \A i \in Modules(s.flow) : i \in 2 .. Len(s.flow)
    BY <1>3, <1>4 DEF Modules
  <1>. QED  BY <1>1, <1>2, <1>3, <1>4, <1>5

-----------------------------------------------------------------------------
\* What an edit may put where.

(* What is put in for a part of what hangs from i.                         *)
LEMMA RestOfSpliced ==
    ASSUME NEW flow \in Seq(Entry), NEW i \in 1 .. Len(flow), NEW part \in Seq(Entry),
           NEW a \in i + 1 .. End(flow, i), NEW b \in a .. End(flow, i),
           \A k \in 1 .. Len(part) : part[k].level > flow[i].level
    PROVE  Rest(Spliced(flow, a, b, part), i) = Rest(flow, i)
  <1> DEFINE c == Spliced(flow, a, b, part)
             m == Len(part)
             e == End(flow, i)
             d == e - (b - a) + m
  <1>1. Len(flow) \in Nat /\ m \in Nat
    BY EntriesAre
  <1>2. e \in i + 1 .. Len(flow) + 1 /\ IsEnd(flow, i, e)
    BY EndIs
  <1>3. a \in 1 .. Len(flow) + 1 /\ b \in a .. Len(flow) + 1
    BY <1>1, <1>2
  <1>4. /\ c \in Seq(Entry) /\ Len(c) = a - 1 + m + (Len(flow) - b + 1)
        /\ \A k \in 1 .. a - 1 + m + (Len(flow) - b + 1) :
              c[k] = IF k < a THEN flow[k]
                     ELSE IF k < a + m THEN part[k - a + 1] ELSE flow[k - a - m + b]
    BY <1>1, <1>3, SplicedIs
  <1>. HIDE DEF c, m, e
  <1>5. a \in Nat /\ b \in Nat /\ e \in Nat /\ i + 1 <= a /\ a <= b /\ b <= e /\ e <= Len(flow) + 1
    BY <1>1, <1>2 DEF e
  <1>6. d \in i + 1 .. Len(c) + 1 /\ Len(c) - d = Len(flow) - e
    BY <1>1, <1>4, <1>5
  <1>7. ASSUME NEW k \in 1 .. i PROVE c[k] = flow[k]
    <2>1. k < a /\ k \in 1 .. Len(c)
      BY <1>1, <1>4, <1>5
    <2>. QED  BY <1>4, <2>1
  <1>8. ASSUME NEW k \in i + 1 .. d - 1 PROVE c[k].level > flow[i].level
    <2>0. k \in 1 .. Len(c) /\ k \in Nat /\ k >= i + 1
      BY <1>1, <1>4, <1>5
    <2>1. CASE k < a
      <3>1. k \in i + 1 .. e - 1
        BY <1>5, <2>0, <2>1
      <3>. QED  BY <1>2, <1>4, <2>0, <2>1, <3>1 DEF IsEnd
    <2>2. CASE ~(k < a) /\ k < a + m
      <3>1. k - a + 1 \in 1 .. m
        BY <1>1, <1>5, <2>0, <2>2
      <3>2. c[k] = part[k - a + 1]
        BY <1>4, <2>0, <2>2
      <3>. QED  BY <3>1, <3>2 DEF m
    <2>3. CASE ~(k < a) /\ ~(k < a + m)
      <3>1. k - a - m + b \in i + 1 .. e - 1
        BY <1>1, <1>5, <2>0, <2>3
      <3>2. c[k] = flow[k - a - m + b]
        BY <1>4, <2>0, <2>3
      <3>. QED  BY <1>2, <3>1, <3>2 DEF IsEnd
    <2>. QED  BY <2>1, <2>2, <2>3
  <1>9. ASSUME NEW k \in d .. Len(c) PROVE c[k] = flow[k - d + e]
    <2>1. k \in 1 .. Len(c) /\ ~(k < a) /\ ~(k < a + m)
      BY <1>1, <1>4, <1>5, <1>6
    <2>2. k - d + e = k - a - m + b
      BY <1>1, <1>5, <2>1
    <2>. QED  BY <1>4, <2>1, <2>2
  <1>. HIDE DEF d
  <1>10. i \in 1 .. i /\ \A k \in 1 .. i - 1 : k \in 1 .. i
    BY <1>1
  <1>. QED  BY <1>4, <1>6, <1>7, <1>8, <1>9, <1>10, RestIsKept DEF c, e

LEMMA PatchedIs ==
    ASSUME NEW x \in Entry, NEW patch, IsPatch(patch)
    PROVE  /\ Patched(x, patch) \in Entry
           /\ Patched(x, patch).level = x.level /\ Patched(x, patch).kind = x.kind
           /\ "id" \notin DOMAIN patch => Patched(x, patch).id = x.id
  BY DEF Patched, IsPatch, Entry

(* What follows an entry on the next level, patched or as it is.           *)
LEMMA KeptForest ==
    ASSUME NEW flow \in Tree("scenario"), NEW i \in 1 .. Len(flow),
           NEW a \in i + 1 .. End(flow, i), NEW b \in a .. End(flow, i),
           a < b => flow[a].level <= flow[i].level + 1,
           NEW patch, NEW field,
           field \in DOMAIN patch => patch[field] \in Forest(0),
           NEW n \in Nat, n = flow[i].level + 1
    PROVE  Kept(flow, a, b, n, patch, field) \in Forest(n)
  <1>1. flow \in Seq(Entry)
    BY TreesAre
  <1>2. Len(flow) \in Nat /\ \A l \in 1 .. Len(flow) : flow[l].level \in Nat
    BY <1>1, EntriesAre
  <1>3. End(flow, i) \in i + 1 .. Len(flow) + 1 /\ IsEnd(flow, i, End(flow, i))
    BY <1>1, EndIs
  <1>4. CASE field \in DOMAIN patch
    <2>1. Kept(flow, a, b, n, patch, field) = Lifted(patch[field], n)
      BY <1>4 DEF Kept
    <2>2. Lifted(patch[field], n) \in Forest(n)
      BY <1>4, LiftedForest
    <2>. QED  BY <2>1, <2>2
  <1>5. CASE field \notin DOMAIN patch
    <2>1. a \in 2 .. Len(flow) + 1 /\ b \in a .. Len(flow) + 1
      BY <1>2, <1>3
    <2>2. ASSUME NEW k \in a .. b - 1 PROVE flow[k].level >= n
      <3>1. k \in i + 1 .. End(flow, i) - 1 /\ k \in 1 .. Len(flow)
        BY <1>2, <1>3
      <3>. QED  BY <1>2, <1>3, <3>1, SMTT(30) DEF IsEnd
    <2>3. Kept(flow, a, b, n, patch, field) = SubSeq(flow, a, b - 1)
      BY <1>5 DEF Kept
    <2>4. a < b => flow[a].level <= n
      OBVIOUS
    <2>5. SubSeq(flow, a, b - 1) \in Forest(n)
      BY <2>1, <2>2, <2>4, SubSeqForest
    <2>. QED  BY <2>3, <2>5
  <1>. QED  BY <1>4, <1>5

LEMMA KeptAsIs ==
    ASSUME NEW flow \in Seq(Entry), NEW a \in 1 .. Len(flow) + 1,
           NEW b \in a .. Len(flow) + 1, NEW n, NEW patch, NEW field, field \notin DOMAIN patch
    PROVE  /\ Len(Kept(flow, a, b, n, patch, field)) = b - a
           /\ \A k \in 1 .. b - a : Kept(flow, a, b, n, patch, field)[k] = flow[a + k - 1]
  <1> DEFINE c == SubSeq(flow, a, b - 1)
  <1>1. Kept(flow, a, b, n, patch, field) = c
    BY DEF Kept
  <1>2. Len(flow) \in Nat /\ \A k \in 1 .. Len(flow) : flow[k] \in Entry
    BY EntriesAre
  <1>3. a \in Int /\ b - 1 \in Int /\ \A k \in a .. b - 1 : flow[k] \in Entry
    BY <1>2
  <1>4. /\ Len(c) = (IF a <= b - 1 THEN b - 1 - a + 1 ELSE 0)
        /\ \A k \in 1 .. b - 1 - a + 1 : c[k] = flow[a + k - 1]
    BY <1>3, SubSeqProperties
  <1>. HIDE DEF c
  <1>5. Len(c) = b - a /\ \A k \in 1 .. b - a : c[k] = flow[a + k - 1]
    BY <1>2, <1>3, <1>4
  <1>. QED  BY <1>1, <1>5

(* An entry and what hangs from it, anew.                                  *)
LEMMA AnewIs ==
    ASSUME NEW flow \in Tree("scenario"), NEW i \in 2 .. Len(flow), NEW x \in Entry,
           x.level = flow[i].level, x.kind = flow[i].kind, NEW q \in Forest(flow[i].level + 1)
    PROVE  LET part == <<x>> \o q
               c == Spliced(flow, i, End(flow, i), part)
           IN  /\ c \in Tree("scenario")
               /\ Rest(c, i) = Rest(flow, i)
               /\ (/\ Len(q) = End(flow, i) - i - 1
                   /\ \A k \in 1 .. Len(q) : q[k] = flow[i + k]) =>
                     /\ Len(c) = Len(flow)
                     /\ \A k \in 1 .. Len(flow) : c[k] = IF k = i THEN x ELSE flow[k]
  <1> DEFINE n == flow[i].level
             e == End(flow, i)
             part == <<x>> \o q
             m == Len(part)
             c == Spliced(flow, i, e, part)
  <1>1. flow \in Seq(Entry) /\ q \in Seq(Entry)
    BY TreesAre DEF Forest
  <1>2. /\ Len(flow) \in Nat /\ \A l \in 1 .. Len(flow) : flow[l].level \in Nat
        /\ \A k \in 2 .. Len(flow) : /\ flow[k].level >= 1
                                     /\ flow[k].level <= flow[k - 1].level + 1
    BY <1>1, EntriesAre, TreeIs
  <1>9. Len(q) \in Nat
    BY <1>1, EntriesAre
  <1>3. e \in i + 1 .. Len(flow) + 1 /\ IsEnd(flow, i, e)
    BY <1>1, <1>2, EndIs
  <1>4. /\ part \in Forest(n) /\ m = Len(q) + 1 /\ part[1] = x
        /\ \A k \in 2 .. Len(q) + 1 : part[k] = q[k - 1] /\ q[k - 1].level > n
    BY ConsForest
  <1>. HIDE DEF part, m, e
  <1>5. part \in Seq(Entry)
    BY <1>4 DEF Forest
  <1>7. c \in Tree("scenario")
    <2>1. /\ n \in Nat \ {0} /\ n <= flow[i - 1].level + 1
          /\ i \in 2 .. Len(flow) + 1 /\ e \in i .. Len(flow) + 1
      BY <1>2, <1>3
    <2>2. e <= Len(flow) => flow[e].level <= n
      BY <1>3 DEF IsEnd
    <2>. HIDE DEF n
    <2>. QED  BY <1>4, <2>1, <2>2, SplicedTree DEF n
  <1>8. /\ c \in Seq(Entry) /\ Len(c) = i - 1 + m + (Len(flow) - e + 1)
        /\ \A k \in 1 .. i - 1 + m + (Len(flow) - e + 1) :
              c[k] = IF k < i THEN flow[k]
                     ELSE IF k < i + m THEN part[k - i + 1] ELSE flow[k - i - m + e]
    <2>1. i \in 1 .. Len(flow) + 1 /\ e \in i .. Len(flow) + 1
      BY <1>2, <1>3
    <2>. QED  BY <1>1, <1>2, <1>5, <2>1, SplicedIs DEF m
  <1>. HIDE DEF c
  <1>10. Rest(c, i) = Rest(flow, i)
    <2> DEFINE d == i + m
    <2>0. m \in Nat /\ e \in Nat /\ i \in Nat /\ m >= 1 /\ e <= Len(flow) + 1 /\ i < e
      BY <1>2, <1>3, <1>4, <1>9
    <2>1. d \in i + 1 .. Len(c) + 1 /\ Len(c) - d = Len(flow) - e
      BY <1>2, <1>8, <2>0
    <2>2. ASSUME NEW k \in 1 .. i - 1 PROVE c[k] = flow[k]
      BY <1>2, <1>8, <2>0, SMTT(30)
    <2>3. c[i].level = flow[i].level
      <3>1. i \in 1 .. Len(c) /\ ~(i < i) /\ i < i + m /\ i - i + 1 = 1
        BY <1>2, <1>8, <2>0
      <3>2. c[i] = part[1]
        BY <1>8, <3>1
      <3>. QED  BY <1>4, <3>2
    <2>4. ASSUME NEW k \in i + 1 .. d - 1 PROVE c[k].level > flow[i].level
      <3>1. k \in 1 .. Len(c) /\ ~(k < i) /\ k < i + m /\ k - i + 1 \in 2 .. Len(q) + 1
        BY <1>2, <1>4, <1>8, <1>9, <2>0
      <3>2. c[k] = part[k - i + 1]
        BY <1>8, <3>1
      <3>3. part[k - i + 1].level > n
        BY <1>4, <3>1
      <3>. QED  BY <3>2, <3>3
    <2>5. ASSUME NEW k \in d .. Len(c) PROVE c[k] = flow[k - d + e]
      <3>1. k \in 1 .. Len(c) /\ ~(k < i) /\ ~(k < i + m) /\ k - d + e = k - i - m + e
        BY <1>2, <1>8, <2>0
      <3>. QED  BY <1>8, <3>1
    <2>6. i \in 1 .. Len(flow)
      BY <1>2
    <2>. HIDE DEF d
    <2>. QED  BY <1>1, <1>8, <2>1, <2>2, <2>3, <2>4, <2>5, <2>6, RestIsKept DEF e
  <1>11. ASSUME Len(q) = e - i - 1, \A k \in 1 .. Len(q) : q[k] = flow[i + k]
         PROVE  /\ Len(c) = Len(flow)
                /\ \A k \in 1 .. Len(flow) : c[k] = IF k = i THEN x ELSE flow[k]
    <2>1. m = e - i /\ Len(c) = Len(flow) /\ e \in Nat /\ i \in Nat /\ i < e /\ e <= Len(flow) + 1
      BY <1>2, <1>3, <1>4, <1>8, <1>11
    <2>2. ASSUME NEW k \in 1 .. Len(flow) PROVE c[k] = IF k = i THEN x ELSE flow[k]
      <3>1. CASE k < i
        BY <1>8, <2>1, <3>1
      <3>2. CASE k = i
        <4>1. ~(k < i) /\ k < i + m /\ k - i + 1 = 1 /\ k \in 1 .. Len(c)
          BY <2>1, <3>2
        <4>2. c[k] = part[1]
          BY <1>8, <4>1
        <4>. QED  BY <1>4, <3>2, <4>2
      <3>3. CASE k > i /\ k < e
        <4>1. /\ ~(k < i) /\ k < i + m /\ k \in 1 .. Len(c)
              /\ k - i + 1 \in 2 .. Len(q) + 1 /\ k - i + 1 - 1 = k - i
              /\ k - i \in 1 .. Len(q) /\ i + (k - i) = k
          BY <1>4, <2>1, <3>3
        <4>2. c[k] = part[k - i + 1]
          BY <1>8, <4>1
        <4>3. part[k - i + 1] = q[k - i] /\ q[k - i] = flow[i + (k - i)]
          BY <1>4, <1>11, <4>1
        <4>. QED  BY <3>3, <4>1, <4>2, <4>3
      <3>4. CASE k >= e
        <4>1. ~(k < i) /\ ~(k < i + m) /\ k \in 1 .. Len(c) /\ k - i - m + e = k /\ k # i
          BY <2>1, <3>4
        <4>. QED  BY <1>8, <4>1
      <3>. QED  BY <2>1, <3>1, <3>2, <3>3, <3>4
    <2>. QED  BY <2>1, <2>2
  <1>. QED  BY <1>7, <1>10, <1>11 DEF c, e, part

-----------------------------------------------------------------------------
\* What each edit makes of a scenario.

(* What is where after a part is put in before k.                          *)
LEMMA PutInIs ==
    ASSUME NEW flow \in Seq(Entry), NEW part \in Seq(Entry), NEW k \in 1 .. Len(flow) + 1
    PROVE  LET c == Spliced(flow, k, k, part)
               m == Len(part)
           IN  /\ c \in Seq(Entry) /\ Len(c) = Len(flow) + m
               /\ \A l \in 1 .. Len(flow) + m :
                     c[l] = IF l < k THEN flow[l]
                            ELSE IF l < k + m THEN part[l - k + 1] ELSE flow[l - m]
  <1> DEFINE c == Spliced(flow, k, k, part)
             m == Len(part)
  <1>1. Len(flow) \in Nat /\ m \in Nat /\ k \in Nat /\ k \in k .. Len(flow) + 1
    BY EntriesAre
  <1>2. /\ c \in Seq(Entry) /\ Len(c) = k - 1 + m + (Len(flow) - k + 1)
        /\ \A l \in 1 .. k - 1 + m + (Len(flow) - k + 1) :
              c[l] = IF l < k THEN flow[l]
                     ELSE IF l < k + m THEN part[l - k + 1] ELSE flow[l - k - m + k]
    BY <1>1, SplicedIs
  <1>. HIDE DEF c, m
  <1>3. k - 1 + m + (Len(flow) - k + 1) = Len(flow) + m
    BY <1>1
  <1>4. \A l \in 1 .. Len(flow) + m : l - k - m + k = l - m
    BY <1>1
  <1>. QED  BY <1>2, <1>3, <1>4 DEF c, m

(* An entry and what hangs from it, put in before k.                       *)
LEMMA InsertedIs ==
    ASSUME NEW flow \in Seq(Entry), NEW part \in Seq(Entry), NEW n \in Nat,
           NEW k \in 1 .. Len(flow) + 1, k <= Len(flow) => flow[k].level <= n,
           Len(part) > 0, part[1].level = n,
           \A l \in 2 .. Len(part) : part[l].level > n
    PROVE  LET c == Spliced(flow, k, k, part)
           IN  /\ c \in Seq(Entry) /\ k \in 1 .. Len(c) /\ c[k] = part[1]
               /\ \A l \in 1 .. k - 1 : c[l] = flow[l]
               /\ Rest(c, k) = flow
  <1> DEFINE c == Spliced(flow, k, k, part)
             m == Len(part)
             d == k + m
  <1>1. Len(flow) \in Nat /\ m \in Nat
    BY EntriesAre
  <1>2. /\ c \in Seq(Entry) /\ Len(c) = Len(flow) + m
        /\ \A l \in 1 .. Len(flow) + m :
              c[l] = IF l < k THEN flow[l]
                     ELSE IF l < k + m THEN part[l - k + 1] ELSE flow[l - m]
    BY PutInIs
  <1>. HIDE DEF c
  <1>4. k \in Nat /\ k >= 1 /\ k <= Len(flow) + 1 /\ m >= 1
    BY <1>1
  <1>. HIDE DEF m
  <1>6. ASSUME NEW l \in 1 .. k - 1 PROVE c[l] = flow[l]
    <2>1. l \in 1 .. Len(flow) + m /\ l < k
      BY <1>1, <1>4
    <2>. QED  BY <1>2, <2>1
  <1>7. ASSUME NEW l \in 1 .. m PROVE c[k + l - 1] = part[l]
    <2>1. /\ k + l - 1 \in 1 .. Len(flow) + m
          /\ ~(k + l - 1 < k) /\ k + l - 1 < k + m /\ k + l - 1 - k + 1 = l
      BY <1>1, <1>4
    <2>. QED  BY <1>2, <2>1
  <1>8. ASSUME NEW l \in k .. Len(flow) PROVE c[l + m] = flow[l]
    <2>0. l \in Nat /\ k <= l /\ l <= Len(flow)
      BY <1>1, <1>4
    <2>1. PICK z \in 1 .. Len(flow) + m : z = l + m
      BY <1>1, <1>4, <2>0
    <2>2. ~(z < k) /\ ~(z < k + m) /\ z - m = l
      BY <1>1, <1>4, <2>0, <2>1
    <2>3. c[z] = flow[z - m]
      BY <1>2, <2>2
    <2>. QED  BY <2>1, <2>2, <2>3
  <1>9. k \in 1 .. Len(c) /\ c[k] = part[1]
    <2>1. k \in 1 .. Len(c) /\ k + 1 - 1 = k /\ 1 \in 1 .. m
      BY <1>1, <1>2, <1>4
    <2>2. c[k + 1 - 1] = part[1]
      BY <1>7, <2>1
    <2>. QED  BY <2>1, <2>2
  <1>10. End(c, k) = d
    <2>1. d \in k + 1 .. Len(c) + 1
      BY <1>1, <1>2, <1>4
    <2>2. ASSUME NEW l \in k + 1 .. d - 1 PROVE c[l].level > c[k].level
      <3>0. l \in Nat /\ l > k /\ l < k + m
        BY <1>1, <1>4
      <3>1. l - k + 1 \in 2 .. m /\ l - k + 1 \in 1 .. m /\ k + (l - k + 1) - 1 = l
        BY <1>1, <1>4, <3>0
      <3>2. c[l] = part[l - k + 1]
        <4>1. c[k + (l - k + 1) - 1] = part[l - k + 1]
          BY <1>7, <3>1
        <4>. QED  BY <3>1, <4>1
      <3>. QED  BY <1>9, <3>1, <3>2 DEF m
    <2>3. ASSUME d <= Len(c) PROVE c[d].level <= c[k].level
      <3>1. k \in k .. Len(flow) /\ k <= Len(flow)
        BY <1>1, <1>2, <1>4, <2>3
      <3>2. c[d] = flow[k]
        BY <1>8, <3>1
      <3>. QED  BY <1>9, <3>1, <3>2
    <2>4. IsEnd(c, k, d)
      BY <2>2, <2>3 DEF IsEnd
    <2>. QED  BY <1>2, <1>9, <2>1, <2>4, EndUnique
  <1> DEFINE r == Spliced(c, k, d, <<>>)
  <1>11. /\ r \in Seq(Entry) /\ Len(r) = k - 1 + (Len(c) - d + 1)
         /\ \A l \in 1 .. k - 1 + (Len(c) - d + 1) :
               r[l] = IF l < k THEN c[l] ELSE c[l - k + d]
    <2>1. k \in 1 .. Len(c) + 1 /\ d \in k .. Len(c) + 1
      BY <1>1, <1>2, <1>4
    <2>. HIDE DEF d
    <2>2. c \in Seq(Entry)
      BY <1>2
    <2>. QED  BY <2>1, <2>2, CutIs
  <1>. HIDE DEF r
  <1>12. Len(r) = Len(flow)
    BY <1>1, <1>2, <1>4, <1>11
  <1>13. ASSUME NEW l \in 1 .. Len(r) PROVE r[l] = flow[l]
    <2>1. CASE l < k
      <3>1. l \in 1 .. k - 1
        BY <2>1
      <3>. QED  BY <1>6, <1>11, <2>1, <3>1
    <2>2. CASE ~(l < k)
      <3>1. l \in k .. Len(flow) /\ l - k + d = l + m
        BY <1>1, <1>4, <1>12, <2>2
      <3>2. r[l] = c[l - k + d]
        BY <1>11, <2>2
      <3>. QED  BY <1>8, <3>1, <3>2
    <2>. QED  BY <2>1, <2>2
  <1>14. r = flow
    BY <1>11, <1>12, <1>13, SeqEqual
  <1>15. Rest(c, k) = flow
    BY <1>10, <1>14 DEF Rest, r
  <1>. QED  BY <1>2, <1>6, <1>9, <1>15 DEF c

(* It is a scenario, has its modules' ids apart unless the edit brings its *)
(* own, and is as it was elsewhere.                                        *)
Sound(s, e, t) ==
    /\ t \in Scenario
    /\ IdsDiffer(s.flow) => IdsDiffer(t.flow) \/ BringsIds(e)
    /\ LeavesOthers(e, s.flow, t.flow)

LEMMA AddedIsSound ==
    ASSUME NEW s \in Scenario, NEW e, e.op = "modules.add", IsEdit(e), NEW t \in Added(s, e)
    PROVE  Sound(s, e, t)
  <1> DEFINE flow == s.flow
             id == e.module[1].id
  <1>1. /\ flow \in Tree("scenario") /\ flow \in Seq(Entry)
        /\ Len(flow) \in Nat /\ Len(flow) > 0 /\ DOMAIN flow = 1 .. Len(flow)
        /\ \A i \in 1 .. Len(flow) : flow[i] \in Entry /\ flow[i].level \in Nat
        /\ \A i \in 2 .. Len(flow) : flow[i].level <= flow[i - 1].level + 1
        /\ \A i \in Modules(flow) : i \in 2 .. Len(flow)
    BY ScenarioIs
  <1>2. e.module \in Tree("module") /\ id \in Ids
    BY DEF IsEdit
  <1>3. ~Has(flow, id)
    BY DEF Added
  <1> DEFINE places(j) == Within(Under(flow, j, "module"), e.position, End(flow, j))
             made(j, k) ==
                [s EXCEPT !.flow = Spliced(flow, k, k, Lifted(e.module, flow[j].level + 1))]
  <1>22. t \in UNION {{made(j, k) : k \in places(j)} : j \in Targets(flow, e)}
    BY <1>3 DEF Added
  <1>23. PICK j \in Targets(flow, e) : \E k \in places(j) : t = made(j, k)
    <2>. HIDE DEF made, places
    <2>. QED  BY <1>22
  <1>4. PICK k \in places(j) : t = made(j, k)
    <2>. HIDE DEF made, places
    <2>. QED  BY <1>23
  <1>5. j \in 1 .. Len(flow)
    <2>1. CASE e.id = None
      BY <1>1, <1>23, <2>1 DEF Targets
    <2>2. CASE e.id # None
      <3>1. PICK i \in Named(flow, e.id) : j \in Under(flow, i, "route")
        BY <1>23, <2>2 DEF Targets, Routes, Nth
      <3>2. i \in 1 .. Len(flow)
        BY <1>1, <3>1 DEF Named, Modules
      <3>3. j \in i + 1 .. End(flow, i) - 1
        BY <3>1 DEF Under
      <3>. QED  BY <1>1, <3>2, <3>3, Inside
    <2>. QED  BY <2>1, <2>2
  <1> DEFINE n == flow[j].level + 1
             part == Lifted(e.module, n)
             m == Len(part)
             c == Spliced(flow, k, k, part)
  <1>6. End(flow, j) \in j + 1 .. Len(flow) + 1 /\ IsEnd(flow, j, End(flow, j))
    BY <1>1, <1>5, EndIs
  <1>7. /\ k \in j + 1 .. End(flow, j)
        /\ k <= Len(flow) => flow[k].level <= n
    <2>1. k \in Under(flow, j, "module") \cup {End(flow, j)}
      BY <1>4 DEF Within, Nth
    <2>2. CASE k \in Under(flow, j, "module")
      <3>1. k \in j + 1 .. End(flow, j) - 1 /\ flow[k].level = n
        BY <2>2 DEF Under
      <3>. QED  BY <1>1, <1>5, <1>6, <3>1
    <2>3. CASE k = End(flow, j)
      BY <1>1, <1>5, <1>6, <2>3, SMTT(30) DEF IsEnd
    <2>. QED  BY <2>1, <2>2, <2>3
  <1>8. /\ n \in Nat \ {0} /\ k \in 2 .. Len(flow) + 1 /\ k \in k .. Len(flow) + 1
        /\ k \in 1 .. Len(flow) + 1
    BY <1>1, <1>5, <1>6, <1>7
  <1>9. n <= flow[k - 1].level + 1
    <2>1. CASE k = j + 1
      BY <1>1, <1>5, <2>1
    <2>2. CASE k # j + 1
      <3>1. k - 1 \in j + 1 .. End(flow, j) - 1 /\ k - 1 \in 1 .. Len(flow)
        BY <1>1, <1>5, <1>6, <1>7, <2>2
      <3>2. flow[k - 1].level > flow[j].level
        BY <1>6, <3>1 DEF IsEnd
      <3>3. flow[k - 1].level \in Nat /\ flow[j].level \in Nat
        BY <1>1, <1>5, <3>1
      <3>. QED  BY <3>2, <3>3
    <2>. QED  BY <2>1, <2>2
  <1>10. /\ e.module \in Forest(0) /\ e.module \in Seq(Entry)
         /\ Len(e.module) \in Nat /\ Len(e.module) > 0 /\ DOMAIN e.module = 1 .. Len(e.module)
         /\ e.module[1].kind = "module" /\ e.module[1].level = 0
         /\ \A l \in 2 .. Len(e.module) : e.module[l].level >= 1
         /\ \A l \in 1 .. Len(e.module) : e.module[l].level \in Nat
    <2>1. e.module \in Forest(0) /\ e.module \in Seq(Entry)
      BY <1>2, TreesAre DEF Tree
    <2>. QED  BY <1>2, <2>1, EntriesAre, TreeIs
  <1>11. /\ part \in Forest(n) /\ part \in Seq(Entry) /\ m = Len(e.module)
         /\ \A l \in 1 .. Len(e.module) : /\ part[l].level = e.module[l].level + n
                                          /\ part[l].kind = e.module[l].kind
                                          /\ part[l].id = e.module[l].id
    <2>. HIDE DEF n
    <2>. QED  BY <1>8, <1>10, LiftedForest, LiftedIs
  <1>12. Modules(part) = Modules(e.module) /\ \A l \in Modules(part) : part[l].id = e.module[l].id
    <2>. HIDE DEF n
    <2>. QED  BY <1>8, <1>10, LiftedIds
  <1>. HIDE DEF part, n
  <1>13. c \in Tree("scenario")
    BY <1>1, <1>7, <1>8, <1>9, <1>11, SplicedTree
  <1>14. /\ c \in Seq(Entry) /\ k \in 1 .. Len(c) /\ c[k] = part[1]
         /\ \A l \in 1 .. k - 1 : c[l] = flow[l]
         /\ Rest(c, k) = flow
    <2>1. \A l \in 2 .. m : part[l].level > n
      BY <1>8, <1>10, <1>11
    <2>2. m > 0 /\ part[1].level = n /\ n \in Nat
      BY <1>8, <1>10, <1>11
    <2>3. flow \in Seq(Entry) /\ part \in Seq(Entry)
      BY <1>1, <1>11
    <2>. QED  BY <1>7, <1>8, <2>1, <2>2, <2>3, InsertedIs
  <1>15. t \in Scenario /\ t.flow = c
    BY <1>4, <1>13, SetFlow DEF part, n
  <1>. HIDE DEF c, m
  <1>16. ASSUME IdsDiffer(flow), ~BringsIds(e) PROVE IdsDiffer(c)
    <2>1. Modules(part) = {1}
      BY <1>12, <1>16 DEF BringsIds
    <2>2. IdsDiffer(part)
      BY <2>1 DEF IdsDiffer
    <2>3. \A x \in Modules(part), y \in Modules(flow) : part[x].id # flow[y].id
      BY <1>3, <1>12, <2>1 DEF Has
    <2>. QED  BY <1>1, <1>8, <1>11, <1>16, <2>2, <2>3, SplicedIds DEF c
  <1>18. k \in Named(c, id)
    <2>0. DOMAIN c = 1 .. Len(c)
      BY <1>14, EntriesAre
    <2>1. k \in Modules(c) /\ c[k].id = id
      BY <1>10, <1>11, <1>14, <2>0 DEF Modules
    <2>2. ASSUME NEW l \in Modules(c), l < k PROVE c[l].id # id
      <3>1. l \in 1 .. k - 1 /\ l \in 1 .. Len(flow)
        BY <1>1, <1>8, <2>0, <2>2 DEF Modules
      <3>2. c[l] = flow[l]
        BY <1>14, <2>2, <3>1
      <3>3. l \in Modules(flow)
        BY <1>1, <2>2, <3>1, <3>2 DEF Modules
      <3>. QED  BY <1>3, <3>2, <3>3 DEF Has
    <2>. QED  BY <2>1, <2>2 DEF Named
  <1>21. LeavesOthers(e, flow, c)
    BY <1>14, <1>18 DEF LeavesOthers
  <1>. QED  BY <1>15, <1>16, <1>21 DEF Sound

LEMMA DeletedIsSound ==
    ASSUME NEW s \in Scenario, NEW e, e.op = "modules.delete", NEW t \in Deleted(s, e)
    PROVE  Sound(s, e, t)
  <1> DEFINE flow == s.flow
  <1>1. PICK i \in Named(flow, e.id) : t = [s EXCEPT !.flow = Rest(flow, i)]
    BY DEF Deleted, Rest
  <1>2. /\ flow \in Tree("scenario") /\ flow \in Seq(Entry) /\ Len(flow) \in Nat
        /\ i \in 2 .. Len(flow) /\ flow[i].level \in Nat \ {0}
        /\ flow[i].level <= flow[i - 1].level + 1
    <2>1. i \in 2 .. Len(flow)
      BY <1>1, ScenarioIs DEF Named
    <2>. QED  BY <2>1, ScenarioIs
  <1>3. /\ End(flow, i) \in i + 1 .. Len(flow) + 1 /\ IsEnd(flow, i, End(flow, i))
        /\ i \in 2 .. Len(flow) + 1 /\ End(flow, i) \in i .. Len(flow) + 1
        /\ i \in 1 .. Len(flow) + 1
    BY <1>2, EndIs
  <1>4. Rest(flow, i) \in Tree("scenario")
    <2>1. <<>> \in Forest(flow[i].level)
      BY EmptySeq DEF Forest
    <2>2. End(flow, i) <= Len(flow) => flow[End(flow, i)].level <= flow[i].level
      BY <1>3 DEF IsEnd
    <2>. QED  BY <1>2, <1>3, <2>1, <2>2, SplicedTree DEF Rest
  <1>5. t \in Scenario /\ t.flow = Rest(flow, i)
    BY <1>1, <1>4, SetFlow
  <1>6. IdsDiffer(flow) => IdsDiffer(Rest(flow, i))
    BY <1>2, <1>3, CutIds DEF Rest
  <1>7. LeavesOthers(e, flow, t.flow)
    BY <1>1, <1>5 DEF LeavesOthers
  <1>. QED  BY <1>5, <1>6, <1>7 DEF Sound

LEMMA ModifiedIsSound ==
    ASSUME NEW s \in Scenario, NEW e, e.op = "modules.modify", IsEdit(e),
           NEW t \in Modified(s, e)
    PROVE  Sound(s, e, t)
  <1> DEFINE flow == s.flow
             h(i) == HandlersOf(flow, i)
             x(i) == Patched(flow[i], e.patch)
             routes(i) == Kept(flow, i + 1, h(i), flow[i].level + 1, e.patch, "routes")
             onerror(i) == Kept(flow, h(i), End(flow, i), flow[i].level + 1, e.patch, "onerror")
             part(i) == <<x(i)>> \o routes(i) \o onerror(i)
             c(i) == Spliced(flow, i, End(flow, i), part(i))
  <1>1. PICK i \in Named(flow, e.id) : t = [s EXCEPT !.flow = c(i)]
    BY DEF Modified
  <1>2. i \in 2 .. Len(flow)
    BY <1>1, ScenarioIs DEF Named
  <1>3. /\ flow \in Tree("scenario") /\ flow \in Seq(Entry) /\ Len(flow) \in Nat
        /\ i \in 1 .. Len(flow) /\ flow[i] \in Entry /\ flow[i].level \in Nat
        /\ \A k \in 2 .. Len(flow) : flow[k].level <= flow[k - 1].level + 1
    BY <1>2, ScenarioIs
  <1>4. /\ End(flow, i) \in i + 1 .. Len(flow) + 1
        /\ h(i) \in i + 1 .. End(flow, i)
        /\ h(i) < End(flow, i) => flow[h(i)].level = flow[i].level + 1
    BY <1>3, EndIs, HandlersAre
  <1>17. flow \in Tree("scenario") /\ i \in 1 .. Len(flow)
    BY <1>3
  <1>5. IsPatch(e.patch)
    BY DEF IsEdit
  <1> DEFINE n == flow[i].level + 1
  <1>18. n \in Nat
    BY <1>3
  <1>6. routes(i) \in Forest(n)
    <2>1. i + 1 \in i + 1 .. End(flow, i) /\ h(i) \in i + 1 .. End(flow, i)
      BY <1>3, <1>4
    <2>2. ASSUME i + 1 < h(i) PROVE flow[i + 1].level <= flow[i].level + 1
      <3>1. i + 1 \in 2 .. Len(flow) /\ i + 1 - 1 = i
        BY <1>3, <1>4, <2>2
      <3>2. flow[i + 1].level <= flow[i + 1 - 1].level + 1
        BY <1>3, <3>1
      <3>. QED  BY <3>1, <3>2
    <2>3. PICK f : f = "routes"
      OBVIOUS
    <2>4. f \in DOMAIN e.patch => e.patch[f] \in Forest(0)
      BY <1>5, <2>3 DEF IsPatch
    <2>5. PICK a \in i + 1 .. End(flow, i) : a = i + 1
      BY <2>1
    <2>6. h(i) \in a .. End(flow, i) /\ (a < h(i) => flow[a].level <= flow[i].level + 1)
      BY <2>1, <2>2, <2>5
    <2>. HIDE DEF h, flow
    <2>7. n = flow[i].level + 1
      OBVIOUS
    <2>. HIDE DEF n
    <2>8. Kept(flow, a, h(i), n, e.patch, f) \in Forest(n)
      BY <1>17, <1>18, <2>4, <2>5, <2>6, <2>7, KeptForest
    <2>. QED  BY <2>3, <2>5, <2>8 DEF n
  <1>7. onerror(i) \in Forest(n)
    <2>1. /\ h(i) \in i + 1 .. End(flow, i) /\ End(flow, i) \in h(i) .. End(flow, i)
          /\ h(i) < End(flow, i) => flow[h(i)].level <= flow[i].level + 1
      BY <1>3, <1>4
    <2>3. PICK f : f = "onerror"
      OBVIOUS
    <2>4. f \in DOMAIN e.patch => e.patch[f] \in Forest(0)
      BY <1>5, <2>3 DEF IsPatch
    <2>. HIDE DEF h, flow
    <2>7. n = flow[i].level + 1
      OBVIOUS
    <2>. HIDE DEF n
    <2>8. Kept(flow, h(i), End(flow, i), n, e.patch, f) \in Forest(n)
      BY <1>17, <1>18, <2>1, <2>4, <2>7, KeptForest
    <2>. QED  BY <2>3, <2>8 DEF n
  <1>19. /\ "routes" \notin DOMAIN e.patch =>
               /\ Len(routes(i)) = h(i) - (i + 1)
               /\ \A k \in 1 .. h(i) - (i + 1) : routes(i)[k] = flow[i + 1 + k - 1]
         /\ "onerror" \notin DOMAIN e.patch =>
               /\ Len(onerror(i)) = End(flow, i) - h(i)
               /\ \A k \in 1 .. End(flow, i) - h(i) : onerror(i)[k] = flow[h(i) + k - 1]
    <2>1. /\ i + 1 \in 1 .. Len(flow) + 1 /\ h(i) \in i + 1 .. Len(flow) + 1
          /\ h(i) \in 1 .. Len(flow) + 1 /\ End(flow, i) \in h(i) .. Len(flow) + 1
      BY <1>3, <1>4
    <2>. HIDE DEF h, flow, n
    <2>2. PICK a : a = i + 1
      OBVIOUS
    <2>3. "routes" \notin DOMAIN e.patch =>
             /\ Len(Kept(flow, a, h(i), n, e.patch, "routes")) = h(i) - a
             /\ \A k \in 1 .. h(i) - a :
                   Kept(flow, a, h(i), n, e.patch, "routes")[k] = flow[a + k - 1]
      BY <1>3, <2>1, <2>2, KeptAsIs, SMTT(30)
    <2>4. "onerror" \notin DOMAIN e.patch =>
             /\ Len(Kept(flow, h(i), End(flow, i), n, e.patch, "onerror")) = End(flow, i) - h(i)
             /\ \A k \in 1 .. End(flow, i) - h(i) :
                   Kept(flow, h(i), End(flow, i), n, e.patch, "onerror")[k] = flow[h(i) + k - 1]
      BY <1>3, <2>1, KeptAsIs, SMTT(30)
    <2>5. /\ routes(i) = Kept(flow, a, h(i), n, e.patch, "routes")
          /\ onerror(i) = Kept(flow, h(i), End(flow, i), n, e.patch, "onerror")
      BY <2>2 DEF n
    <2>. HIDE DEF routes, onerror
    <2>. QED  BY <2>2, <2>3, <2>4, <2>5
  <1>8. /\ x(i) \in Entry /\ x(i).level = flow[i].level /\ x(i).kind = flow[i].kind
        /\ "id" \notin DOMAIN e.patch => x(i).id = flow[i].id
    BY <1>3, <1>5, PatchedIs
  <1>. HIDE DEF x, routes, onerror, h, n
  <1> DEFINE q == routes(i) \o onerror(i)
  <1>10. q \in Forest(n)
    BY <1>6, <1>7, <1>18, ConcatForest
  <1>11. part(i) = <<x(i)>> \o q
    <2>1. <<x(i)>> \in Seq(Entry) /\ routes(i) \in Seq(Entry) /\ onerror(i) \in Seq(Entry)
      BY <1>6, <1>7, <1>8 DEF Forest
    <2>. QED  BY <2>1, ConcatAssociative
  <1>12. ASSUME DOMAIN e.patch \cap {"id", "routes", "onerror"} = {}
         PROVE  Len(q) = End(flow, i) - i - 1 /\ \A k \in 1 .. Len(q) : q[k] = flow[i + k]
    <2>1. routes(i) \in Seq(Entry) /\ onerror(i) \in Seq(Entry)
      BY <1>6, <1>7 DEF Forest
    <2>2. /\ Len(q) = Len(routes(i)) + Len(onerror(i))
          /\ \A k \in 1 .. Len(routes(i)) + Len(onerror(i)) :
                q[k] = IF k <= Len(routes(i)) THEN routes(i)[k]
                       ELSE onerror(i)[k - Len(routes(i))]
      BY <2>1, ConcatProperties
    <2>3. /\ Len(routes(i)) = h(i) - (i + 1) /\ Len(onerror(i)) = End(flow, i) - h(i)
          /\ \A k \in 1 .. h(i) - (i + 1) : routes(i)[k] = flow[i + 1 + k - 1]
          /\ \A k \in 1 .. End(flow, i) - h(i) : onerror(i)[k] = flow[h(i) + k - 1]
      BY <1>12, <1>19
    <2>. HIDE DEF q
    <2>4. i \in Nat /\ h(i) \in Nat /\ End(flow, i) \in Nat /\ i + 1 <= h(i) /\ h(i) <= End(flow, i)
      BY <1>3, <1>4
    <2>5. Len(q) = End(flow, i) - i - 1
      BY <2>2, <2>3, <2>4
    <2>6. ASSUME NEW k \in 1 .. Len(q) PROVE q[k] = flow[i + k]
      <3>1. CASE k <= Len(routes(i))
        <4>1. k \in 1 .. h(i) - (i + 1) /\ i + 1 + k - 1 = i + k
          BY <2>3, <2>4, <3>1
        <4>2. q[k] = routes(i)[k]
          BY <2>2, <3>1
        <4>3. routes(i)[k] = flow[i + 1 + k - 1]
          BY <2>3, <4>1
        <4>. QED  BY <4>1, <4>2, <4>3
      <3>2. CASE ~(k <= Len(routes(i)))
        <4>1. PICK l \in 1 .. End(flow, i) - h(i) : l = k - Len(routes(i))
          BY <2>3, <2>4, <2>5, <3>2
        <4>2. q[k] = onerror(i)[l]
          BY <2>2, <3>2, <4>1
        <4>3. onerror(i)[l] = flow[h(i) + l - 1]
          BY <2>3, <4>1
        <4>4. h(i) + l - 1 = i + k
          <5>1. k \in Nat /\ Len(routes(i)) = h(i) - (i + 1) /\ l = k - Len(routes(i))
            BY <2>3, <2>4, <2>5, <4>1
          <5>. QED  BY <2>4, <5>1, SMTT(30)
        <4>. QED  BY <4>2, <4>3, <4>4
      <3>. QED  BY <3>1, <3>2
    <2>. QED  BY <2>5, <2>6
  <1>. HIDE DEF q, part
  <1>13. /\ c(i) \in Tree("scenario") /\ Rest(c(i), i) = Rest(flow, i)
         /\ (/\ Len(q) = End(flow, i) - i - 1
             /\ \A k \in 1 .. Len(q) : q[k] = flow[i + k]) =>
               /\ Len(c(i)) = Len(flow)
               /\ \A k \in 1 .. Len(flow) : c(i)[k] = IF k = i THEN x(i) ELSE flow[k]
    <2>1. c(i) = Spliced(flow, i, End(flow, i), <<x(i)>> \o q)
      BY <1>11
    <2>. HIDE DEF c, flow
    <2> DEFINE z == Spliced(flow, i, End(flow, i), <<x(i)>> \o q)
    <2>2. /\ z \in Tree("scenario") /\ Rest(z, i) = Rest(flow, i)
          /\ (/\ Len(q) = End(flow, i) - i - 1
              /\ \A k \in 1 .. Len(q) : q[k] = flow[i + k]) =>
                /\ Len(z) = Len(flow)
                /\ \A k \in 1 .. Len(flow) : z[k] = IF k = i THEN x(i) ELSE flow[k]
      BY <1>2, <1>3, <1>8, <1>10, AnewIs DEF n
    <2>. HIDE DEF z
    <2>3. c(i) = z
      BY <2>1 DEF z
    <2>. QED  BY <2>2, <2>3
  <1>. HIDE DEF c
  <1>14. t \in Scenario /\ t.flow = c(i)
    BY <1>1, <1>13, SetFlow
  <1>15. ASSUME IdsDiffer(flow), ~BringsIds(e) PROVE IdsDiffer(c(i))
    <2>1. DOMAIN e.patch \cap {"id", "routes", "onerror"} = {}
      BY <1>15 DEF BringsIds
    <2>2. /\ Len(c(i)) = Len(flow)
          /\ \A k \in 1 .. Len(flow) : c(i)[k] = IF k = i THEN x(i) ELSE flow[k]
      BY <1>12, <1>13, <2>1
    <2>3. x(i).kind = flow[i].kind /\ x(i).id = flow[i].id
      BY <1>8, <2>1
    <2>4. \A k \in 1 .. Len(flow) : /\ c(i)[k].kind = flow[k].kind
                                    /\ flow[k].kind = "module" => c(i)[k].id = flow[k].id
      BY <2>2, <2>3
    <2>5. c(i) \in Seq(Entry)
      BY <1>13, TreesAre
    <2>. QED  BY <1>3, <1>15, <2>2, <2>4, <2>5, SameIds
  <1>16. LeavesOthers(e, flow, c(i))
    BY <1>1, <1>13 DEF LeavesOthers
  <1>. QED  BY <1>14, <1>15, <1>16 DEF Sound

LEMMA FilteredIsSound ==
    ASSUME NEW s \in Scenario, NEW e, IsEdit(e), NEW t \in Filtered(s, e),
           e.op \in {"filters.add", "filters.modify", "filters.delete"}
    PROVE  Sound(s, e, t)
  <1> DEFINE flow == s.flow
             filter == IF e.op = "filters.delete" THEN None ELSE e.filter
             c(j) == [flow EXCEPT ![j].says = filter]
  <1>1. PICK j \in Routes(flow, e) : t = [s EXCEPT !.flow = c(j)]
    BY DEF Filtered
  <1>2. PICK i \in Named(flow, e.id) : j \in Under(flow, i, "route")
    BY <1>1 DEF Routes, Nth
  <1>3. i \in 2 .. Len(flow)
    BY <1>2, ScenarioIs DEF Named
  <1>4. /\ flow \in Tree("scenario") /\ flow \in Seq(Entry) /\ Len(flow) \in Nat
        /\ Len(flow) > 0 /\ i \in 1 .. Len(flow) /\ DOMAIN flow = 1 .. Len(flow)
        /\ \A k \in 1 .. Len(flow) : flow[k] \in Entry /\ flow[k].level \in Nat
    BY <1>3, ScenarioIs
  <1>5. j \in i + 1 .. End(flow, i) - 1 /\ j \in 2 .. Len(flow)
    BY <1>2, <1>4, Inside DEF Under
  <1>6. filter \in Values \cup {None}
    BY DEF IsEdit
  <1>. HIDE DEF filter
  <1> DEFINE y == [flow[j] EXCEPT !.says = filter]
  <1>7. /\ y \in Entry /\ y.level = flow[j].level /\ y.kind = flow[j].kind
        /\ y.id = flow[j].id
    <2>1. flow[j] \in Entry
      BY <1>4, <1>5
    <2>. QED  BY <1>6, <2>1 DEF Entry
  <1>. HIDE DEF y
  <1>8. /\ c(j) \in Seq(Entry) /\ Len(c(j)) = Len(flow)
        /\ \A k \in 1 .. Len(flow) : c(j)[k] = IF k = j THEN y ELSE flow[k]
    <2>1. c(j) = [flow EXCEPT ![j] = y]
      BY DEF y
    <2>2. j \in 1 .. Len(flow)
      BY <1>5
    <2>. HIDE DEF c
    <2>. QED  BY <1>4, <1>7, <2>1, <2>2, ExceptSeq
  <1>. HIDE DEF c
  <1>9. \A k \in 1 .. Len(flow) : /\ c(j)[k].level = flow[k].level
                                  /\ c(j)[k].kind = flow[k].kind
                                  /\ c(j)[k].id = flow[k].id
    BY <1>7, <1>8
  <1>10. c(j) \in Tree("scenario")
    <2>1. /\ Len(flow) > 0 /\ flow[1].kind = "scenario" /\ flow[1].level = 0
          /\ \A k \in 2 .. Len(flow) : /\ flow[k].level >= 1
                                       /\ flow[k].level <= flow[k - 1].level + 1
      BY ScenarioIs
    <2>2. 1 \in 1 .. Len(flow) /\ \A k \in 2 .. Len(flow) : k \in 1 .. Len(flow) /\ k - 1 \in 1 .. Len(flow)
      BY <1>4
    <2>3. /\ Len(c(j)) > 0 /\ c(j)[1].kind = "scenario" /\ c(j)[1].level = 0
          /\ \A k \in 2 .. Len(c(j)) : /\ c(j)[k].level >= 1
                                       /\ c(j)[k].level <= c(j)[k - 1].level + 1
      BY <1>8, <1>9, <2>1, <2>2
    <2>. QED  BY <1>8, <2>3, TreeIs
  <1>11. t \in Scenario /\ t.flow = c(j)
    BY <1>1, <1>10, SetFlow
  <1>12. IdsDiffer(flow) => IdsDiffer(c(j))
    BY <1>4, <1>8, <1>9, SameIds
  <1>13. Rest(c(j), i) = Rest(flow, i)
    <2> DEFINE d == End(flow, i)
    <2>1. d \in i + 1 .. Len(flow) + 1 /\ IsEnd(flow, i, d)
      BY <1>4, EndIs
    <2>. HIDE DEF d
    <2>2. d \in i + 1 .. Len(c(j)) + 1 /\ Len(c(j)) - d = Len(flow) - d
      BY <1>4, <1>8, <2>1
    <2>3. \A k \in 1 .. i - 1 : c(j)[k] = flow[k]
      BY <1>4, <1>5, <1>8
    <2>4. c(j)[i].level = flow[i].level
      BY <1>4, <1>9
    <2>5. \A k \in i + 1 .. d - 1 : c(j)[k].level > flow[i].level
      <3>1. \A k \in i + 1 .. d - 1 : k \in 1 .. Len(flow)
        BY <1>4, <2>1
      <3>. QED  BY <1>9, <2>1, <3>1 DEF IsEnd
    <2>6. ASSUME NEW k \in d .. Len(c(j)) PROVE c(j)[k] = flow[k - d + d]
      <3>1. k - d + d = k /\ k \in 1 .. Len(flow) /\ k # j
        BY <1>4, <1>5, <1>8, <2>1 DEF d
      <3>. QED  BY <1>8, <3>1
    <2>. QED  BY <1>4, <1>8, <2>2, <2>3, <2>4, <2>5, <2>6, RestIsKept DEF d
  <1>14. LeavesOthers(e, flow, c(j))
    BY <1>2, <1>13 DEF LeavesOthers
  <1>. QED  BY <1>11, <1>12, <1>14 DEF Sound

LEMMA StockedIsSound ==
    ASSUME NEW s \in Scenario, NEW e, IsEdit(e), NEW t \in Stocked(s, e),
           e.op \in {"datastores.add", "datastores.modify", "datastores.delete"}
    PROVE  Sound(s, e, t)
  <1> DEFINE rows == s.resources
             R == Keys \cup {None}
  <1>1. /\ rows \in Seq(R) /\ Len(rows) \in Nat /\ DOMAIN rows = 1 .. Len(rows)
    BY LenProperties DEF Scenario
  <1>2. \A r \in Seq(R) : [s EXCEPT !.resources = r] \in Scenario
                          /\ [s EXCEPT !.resources = r].flow = s.flow
    BY DEF Scenario
  <1>3. \E r \in Seq(R) : t = [s EXCEPT !.resources = r]
    <2>1. CASE e.op = "datastores.add"
      <3>1. t = [s EXCEPT !.resources = Append(rows, e.row)] /\ e.row \in R
        BY <2>1 DEF Stocked, IsEdit
      <3>2. Append(rows, e.row) \in Seq(R)
        BY <1>1, <3>1
      <3>. QED  BY <3>1, <3>2
    <2>2. CASE e.op = "datastores.modify"
      <3> DEFINE row(k) == IF e.row = None THEN rows[k] ELSE e.row
      <3>1. PICK k \in DOMAIN rows : t = [s EXCEPT !.resources = [rows EXCEPT ![k] = row(k)]]
        BY <2>2 DEF Stocked
      <3>2. k \in 1 .. Len(rows)
        BY <1>1
      <3>3. rows[k] \in R
        BY <1>1, <3>2, ElementOfSeq
      <3>4. row(k) \in R
        BY <2>2, <3>3 DEF IsEdit
      <3>. HIDE DEF row
      <3>5. [rows EXCEPT ![k] = row(k)] \in Seq(R)
        BY <1>1, <3>2, <3>4, ExceptSeq
      <3>. QED  BY <3>1, <3>5
    <2>3. CASE e.op = "datastores.delete"
      <3>1. PICK k \in DOMAIN rows : t = [s EXCEPT !.resources = Spliced(rows, k, k + 1, <<>>)]
        BY <2>3 DEF Stocked
      <3>2. k \in 1 .. Len(rows) + 1 /\ k + 1 \in k .. Len(rows) + 1
        BY <1>1
      <3>3. <<>> \in Seq(R)
        BY EmptySeq
      <3>. HIDE DEF rows, R
      <3>4. Spliced(rows, k, k + 1, <<>>) \in Seq(R)
        BY <1>1, <3>2, <3>3, SplicedIs
      <3>. QED  BY <3>1, <3>4 DEF rows
    <2>. QED  BY <2>1, <2>2, <2>3
  <1>4. t \in Scenario /\ t.flow = s.flow
    BY <1>2, <1>3
  <1>5. LeavesOthers(e, s.flow, t.flow)
    BY <1>4 DEF LeavesOthers
  <1>. QED  BY <1>4, <1>5 DEF Sound

(* A change of the handlers of the module that an edit names.              *)
LEMMA HandlersChanged ==
    ASSUME NEW s \in Scenario, NEW e, NEW t, NEW c \in Tree("scenario"),
           t = [s EXCEPT !.flow = c],
           e.op \in {"error_handlers.add", "error_handlers.modify", "error_handlers.delete"},
           NEW i \in Named(s.flow, e.id), Rest(c, i) = Rest(s.flow, i),
           IdsDiffer(s.flow) => IdsDiffer(c) \/ BringsIds(e)
    PROVE  Sound(s, e, t)
  <1>1. t \in Scenario /\ t.flow = c
    BY SetFlow
  <1>2. LeavesOthers(e, s.flow, c)
    BY DEF LeavesOthers
  <1>. QED  BY <1>1, <1>2 DEF Sound

LEMMA HandlerAddedIsSound ==
    ASSUME NEW s \in Scenario, NEW e, e.op = "error_handlers.add", IsEdit(e),
           NEW t, NEW i \in Named(s.flow, e.id),
           t = [s EXCEPT !.flow = Spliced(s.flow, End(s.flow, i), End(s.flow, i),
                                          Lifted(e.handler, s.flow[i].level + 1))]
    PROVE  Sound(s, e, t)
  <1> DEFINE flow == s.flow
             n == flow[i].level + 1
             part == Lifted(e.handler, n)
             d == End(flow, i)
             c == Spliced(flow, d, d, part)
  <1>1. i \in 2 .. Len(flow)
    BY ScenarioIs DEF Named
  <1>2. /\ flow \in Tree("scenario") /\ flow \in Seq(Entry) /\ Len(flow) \in Nat
        /\ i \in 1 .. Len(flow) /\ \A k \in 1 .. Len(flow) : flow[k].level \in Nat
    BY <1>1, ScenarioIs
  <1>3. d \in i + 1 .. Len(flow) + 1 /\ IsEnd(flow, i, d)
    BY <1>2, EndIs
  <1>4. n \in Nat \ {0} /\ n \in Nat /\ n > flow[i].level
    BY <1>2
  <1>5. e.handler \in Forest(0) /\ e.handler \in Seq(Entry)
    BY TreesAre DEF IsEdit, Tree
  <1>6. /\ part \in Forest(n) /\ part \in Seq(Entry)
        /\ Modules(part) = Modules(e.handler)
    <2>. HIDE DEF n
    <2>. QED  BY <1>4, <1>5, LiftedForest, LiftedIs, LiftedIds
  <1>. HIDE DEF part, d
  <1>7. n <= flow[d - 1].level + 1
    <2>1. CASE d = i + 1
      BY <1>2, <2>1
    <2>2. CASE d # i + 1
      <3>1. d - 1 \in i + 1 .. d - 1 /\ d - 1 \in 1 .. Len(flow)
        BY <1>2, <1>3, <2>2
      <3>2. flow[d - 1].level > flow[i].level
        BY <1>3, <3>1 DEF IsEnd
      <3>. QED  BY <1>2, <3>1, <3>2
    <2>. QED  BY <2>1, <2>2
  <1>8. d <= Len(flow) => flow[d].level <= n
    <2>. SUFFICES ASSUME d <= Len(flow) PROVE flow[d].level <= n
      OBVIOUS
    <2>1. d \in 1 .. Len(flow) /\ flow[d].level <= flow[i].level
      BY <1>2, <1>3 DEF IsEnd
    <2>. QED  BY <1>2, <2>1
  <1>9. /\ d \in 2 .. Len(flow) + 1 /\ d \in d .. Len(flow) + 1 /\ d \in 1 .. Len(flow) + 1
        /\ d \in i + 1 .. d /\ d \in d .. d
    BY <1>2, <1>3
  <1>10. c \in Tree("scenario")
    <2>. HIDE DEF n
    <2>. QED  BY <1>2, <1>4, <1>6, <1>7, <1>8, <1>9, SplicedTree
  <1>11. Rest(c, i) = Rest(flow, i)
    <2>1. \A k \in 1 .. Len(part) : part[k].level > flow[i].level
      <3>1. \A k \in 1 .. Len(part) : part[k].level \in Nat
        BY <1>6, EntriesAre
      <3>2. \A k \in 1 .. Len(part) : part[k].level >= n
        <4>. HIDE DEF n
        <4>. QED  BY <1>4, <1>6, ForestIs
      <3>. QED  BY <1>2, <3>1, <3>2
    <2>2. d \in i + 1 .. End(flow, i) /\ d \in d .. End(flow, i)
      BY <1>9 DEF d
    <2>. QED  BY <1>2, <1>6, <2>1, <2>2, RestOfSpliced
  <1>12. ASSUME IdsDiffer(flow), ~BringsIds(e) PROVE IdsDiffer(c)
    <2>1. Modules(part) = {}
      BY <1>6, <1>12 DEF BringsIds
    <2>2. IdsDiffer(part)
      BY <2>1 DEF IdsDiffer
    <2>. QED  BY <1>2, <1>6, <1>9, <1>12, <2>1, <2>2, SplicedIds
  <1>13. t = [s EXCEPT !.flow = c]
    BY DEF d, part
  <1>. HIDE DEF c
  <1>. QED  BY <1>10, <1>11, <1>12, <1>13, HandlersChanged

LEMMA HandlerModifiedIsSound ==
    ASSUME NEW s \in Scenario, NEW e, e.op = "error_handlers.modify", IsEdit(e),
           NEW t, NEW i \in Named(s.flow, e.id), NEW j \in Under(s.flow, i, "handler"),
           t = [s EXCEPT !.flow = Spliced(s.flow, j, End(s.flow, j),
                   <<Patched(s.flow[j], e.patch)>>
                   \o Kept(s.flow, j + 1, End(s.flow, j), s.flow[j].level + 1, e.patch, "flow"))]
    PROVE  Sound(s, e, t)
  <1> DEFINE flow == s.flow
             n == flow[j].level + 1
             d == End(flow, j)
             x == Patched(flow[j], e.patch)
             q == Kept(flow, j + 1, d, n, e.patch, "flow")
             part == <<x>> \o q
             c == Spliced(flow, j, d, part)
  <1>1. i \in 2 .. Len(flow)
    BY ScenarioIs DEF Named
  <1>2. /\ flow \in Tree("scenario") /\ flow \in Seq(Entry) /\ Len(flow) \in Nat
        /\ i \in 1 .. Len(flow)
    BY <1>1, ScenarioIs
  <1>3. /\ j \in i + 1 .. End(flow, i) - 1 /\ flow[j].kind = "handler"
        /\ j \in 2 .. Len(flow) /\ flow[j].level > flow[i].level
        /\ d \in j + 1 .. End(flow, i)
    BY <1>2, Inside DEF Under
  <1>14. End(flow, i) \in i + 1 .. Len(flow) + 1
    BY <1>2, EndIs
  <1>4. /\ j \in 1 .. Len(flow) /\ flow[j] \in Entry /\ flow[j].level \in Nat
        /\ n \in Nat
    BY <1>2, <1>3, ScenarioIs
  <1>5. d \in j + 1 .. Len(flow) + 1
    BY <1>2, <1>4, EndIs
  <1>6. IsPatch(e.patch)
    BY DEF IsEdit
  <1>7. x \in Entry /\ x.level = flow[j].level /\ x.kind = flow[j].kind
    BY <1>4, <1>6, PatchedIs
  <1>8. q \in Forest(n)
    <2>1. PICK a \in j + 1 .. d : a = j + 1
      BY <1>2, <1>4, <1>5
    <2>2. a < d => flow[a].level <= flow[j].level + 1
      <3>. SUFFICES ASSUME a < d PROVE flow[a].level <= flow[j].level + 1
        OBVIOUS
      <3>1. a \in 2 .. Len(flow) /\ a - 1 = j
        BY <1>2, <1>4, <1>5, <2>1
      <3>2. flow[a].level <= flow[a - 1].level + 1
        BY <3>1, ScenarioIs
      <3>. QED  BY <3>1, <3>2
    <2>3. PICK f : f = "flow"
      OBVIOUS
    <2>4. f \in DOMAIN e.patch => e.patch[f] \in Forest(0)
      BY <1>6, <2>3 DEF IsPatch
    <2>5. n = flow[j].level + 1 /\ d \in a .. End(flow, j) /\ a \in j + 1 .. End(flow, j)
      BY <2>1, <1>5
    <2>. HIDE DEF flow, n, d
    <2>6. Kept(flow, a, End(flow, j), n, e.patch, f) \in Forest(n)
      BY <1>2, <1>4, <2>2, <2>4, <2>5, KeptForest DEF d
    <2>. QED  BY <2>1, <2>3, <2>6 DEF d
  <1>9. "flow" \notin DOMAIN e.patch =>
           Len(q) = d - j - 1 /\ \A k \in 1 .. Len(q) : q[k] = flow[j + k]
    <2>. SUFFICES ASSUME "flow" \notin DOMAIN e.patch
                  PROVE  Len(q) = d - j - 1 /\ \A k \in 1 .. Len(q) : q[k] = flow[j + k]
      OBVIOUS
    <2>1. PICK a \in 1 .. Len(flow) + 1 : a = j + 1
      BY <1>2, <1>4, <1>5
    <2>2. d \in a .. Len(flow) + 1
      BY <1>5, <2>1
    <2>. HIDE DEF flow, n, d
    <2>3. /\ Len(Kept(flow, a, d, n, e.patch, "flow")) = d - a
          /\ \A k \in 1 .. d - a : Kept(flow, a, d, n, e.patch, "flow")[k] = flow[a + k - 1]
      BY <1>2, <2>1, <2>2, KeptAsIs
    <2>4. q = Kept(flow, a, d, n, e.patch, "flow")
      BY <2>1
    <2>. HIDE DEF q
    <2>5. Len(q) = d - a /\ \A k \in 1 .. d - a : q[k] = flow[a + k - 1]
      BY <2>3, <2>4
    <2>6. d - a = d - j - 1 /\ \A k \in 1 .. d - a : a + k - 1 = j + k
      BY <1>4, <1>5, <2>1
    <2>. QED  BY <2>5, <2>6
  <1>. HIDE DEF q, x
  <1>10. /\ c \in Tree("scenario")
         /\ (/\ Len(q) = d - j - 1 /\ \A k \in 1 .. Len(q) : q[k] = flow[j + k]) =>
               /\ Len(c) = Len(flow)
               /\ \A k \in 1 .. Len(flow) : c[k] = IF k = j THEN x ELSE flow[k]
    <2>. HIDE DEF flow
    <2> DEFINE z == Spliced(flow, j, End(flow, j), <<x>> \o q)
    <2>1. /\ z \in Tree("scenario") /\ Rest(z, j) = Rest(flow, j)
          /\ (/\ Len(q) = End(flow, j) - j - 1 /\ \A k \in 1 .. Len(q) : q[k] = flow[j + k]) =>
                /\ Len(z) = Len(flow)
                /\ \A k \in 1 .. Len(flow) : z[k] = IF k = j THEN x ELSE flow[k]
      <3>1. /\ flow \in Tree("scenario") /\ j \in 2 .. Len(flow) /\ x \in Entry
            /\ x.level = flow[j].level /\ x.kind = flow[j].kind
            /\ q \in Forest(flow[j].level + 1)
        BY <1>2, <1>3, <1>7, <1>8
      <3>. QED  BY <3>1, AnewIs
    <2>2. z = c /\ d = End(flow, j)
      OBVIOUS
    <2>. HIDE DEF z, c, d
    <2>. QED  BY <2>1, <2>2
  <1>15. part \in Seq(Entry) /\ \A k \in 1 .. Len(part) : part[k].level >= flow[j].level
    <2>1. q \in Forest(x.level + 1)
      BY <1>7, <1>8
    <2>2. part \in Forest(flow[j].level)
      BY <1>7, <2>1, ConsForest
    <2>. HIDE DEF part, flow
    <2>3. part \in Seq(Entry)
      BY <2>2 DEF Forest
    <2>. QED  BY <1>4, <2>2, <2>3, ForestIs
  <1>11. Rest(c, i) = Rest(flow, i)
    <2>1. j \in i + 1 .. End(flow, i) /\ d \in j .. End(flow, i)
      BY <1>2, <1>3, <1>14
    <2>. HIDE DEF part
    <2>2. \A k \in 1 .. Len(part) : part[k].level > flow[i].level
      <3>1. \A k \in 1 .. Len(part) : part[k].level \in Nat
        BY <1>15, EntriesAre
      <3>2. flow[i].level \in Nat
        BY <1>2, ScenarioIs
      <3>. HIDE DEF flow
      <3>. QED  BY <1>3, <1>4, <1>15, <3>1, <3>2, SMTT(30)
    <2>. HIDE DEF d
    <2>. QED  BY <1>2, <1>15, <2>1, <2>2, RestOfSpliced
  <1>12. ASSUME IdsDiffer(flow), ~BringsIds(e) PROVE IdsDiffer(c)
    <2>1. "flow" \notin DOMAIN e.patch
      BY <1>12 DEF BringsIds
    <2>2. Len(c) = Len(flow) /\ \A k \in 1 .. Len(flow) : c[k] = IF k = j THEN x ELSE flow[k]
      BY <1>9, <1>10, <2>1
    <2>3. c \in Seq(Entry)
      BY <1>10, TreesAre
    <2>. HIDE DEF c
    <2>4. \A k \in 1 .. Len(flow) : /\ c[k].kind = flow[k].kind
                                    /\ flow[k].kind = "module" => c[k].id = flow[k].id
      BY <1>3, <1>7, <2>2
    <2>. QED  BY <1>2, <1>12, <2>2, <2>3, <2>4, SameIds
  <1>13. t = [s EXCEPT !.flow = c]
    BY DEF x, q
  <1>. HIDE DEF c
  <1>. QED  BY <1>10, <1>11, <1>12, <1>13, HandlersChanged

LEMMA HandlerDeletedIsSound ==
    ASSUME NEW s \in Scenario, NEW e, e.op = "error_handlers.delete",
           NEW t, NEW i \in Named(s.flow, e.id), NEW j \in Under(s.flow, i, "handler"),
           t = [s EXCEPT !.flow = Spliced(s.flow, j, End(s.flow, j), <<>>)]
    PROVE  Sound(s, e, t)
  <1> DEFINE flow == s.flow
             d == End(flow, j)
             c == Spliced(flow, j, d, <<>>)
  <1>1. i \in 2 .. Len(flow)
    BY ScenarioIs DEF Named
  <1>2. /\ flow \in Tree("scenario") /\ flow \in Seq(Entry) /\ Len(flow) \in Nat
        /\ i \in 1 .. Len(flow)
    BY <1>1, ScenarioIs
  <1>3. /\ j \in i + 1 .. End(flow, i) - 1 /\ j \in 2 .. Len(flow)
        /\ d \in j + 1 .. End(flow, i)
    BY <1>2, Inside DEF Under
  <1>11. End(flow, i) \in i + 1 .. Len(flow) + 1
    BY <1>2, EndIs
  <1>4. /\ flow[j].level \in Nat \ {0} /\ flow[j].level <= flow[j - 1].level + 1
        /\ j \in 1 .. Len(flow)
    BY <1>2, <1>3, ScenarioIs
  <1>5. d \in j + 1 .. Len(flow) + 1 /\ IsEnd(flow, j, d)
    BY <1>2, <1>4, EndIs
  <1>6. /\ j \in 2 .. Len(flow) + 1 /\ j \in 1 .. Len(flow) + 1 /\ d \in j .. Len(flow) + 1
        /\ j \in i + 1 .. End(flow, i) /\ d \in j .. End(flow, i)
    BY <1>2, <1>3, <1>5, <1>11
  <1>. HIDE DEF d
  <1>7. c \in Tree("scenario")
    <2>1. <<>> \in Forest(flow[j].level)
      BY EmptySeq DEF Forest
    <2>2. d <= Len(flow) => flow[d].level <= flow[j].level
      BY <1>5 DEF IsEnd
    <2>. QED  BY <1>2, <1>4, <1>6, <2>1, <2>2, SplicedTree
  <1>8. Rest(c, i) = Rest(flow, i)
    <2> DEFINE p == <<>>
    <2>1. p \in Seq(Entry) /\ \A k \in 1 .. Len(p) : p[k].level > flow[i].level
      BY EmptySeq
    <2>. HIDE DEF p
    <2>2. Rest(Spliced(flow, j, d, p), i) = Rest(flow, i)
      BY <1>2, <1>6, <2>1, RestOfSpliced
    <2>. QED  BY <2>2 DEF p
  <1>9. IdsDiffer(flow) => IdsDiffer(c)
    BY <1>2, <1>6, CutIds
  <1>10. t = [s EXCEPT !.flow = c]
    BY DEF d
  <1>. HIDE DEF c
  <1>. QED  BY <1>7, <1>8, <1>9, <1>10, HandlersChanged

LEMMA HandledIsSound ==
    ASSUME NEW s \in Scenario, NEW e, IsEdit(e), NEW t \in Handled(s, e),
           e.op \in {"error_handlers.add", "error_handlers.modify", "error_handlers.delete"}
    PROVE  Sound(s, e, t)
  <1> DEFINE flow == s.flow
             handlers(i) == Nth(Under(flow, i, "handler"), e.index)
  <1>1. \A i : handlers(i) \subseteq Under(flow, i, "handler")
    BY DEF Nth
  <1>. HIDE DEF handlers
  <1>2. CASE e.op = "error_handlers.add"
    <2>1. PICK i \in Named(flow, e.id) :
            t = [s EXCEPT !.flow = Spliced(flow, End(flow, i), End(flow, i),
                                           Lifted(e.handler, flow[i].level + 1))]
      BY <1>2 DEF Handled
    <2>. QED  BY <1>2, <2>1, HandlerAddedIsSound
  <1>3. CASE e.op = "error_handlers.modify"
    <2>1. PICK i \in Named(flow, e.id) : \E j \in handlers(i) :
            t = [s EXCEPT !.flow = Spliced(flow, j, End(flow, j),
                   <<Patched(flow[j], e.patch)>>
                   \o Kept(flow, j + 1, End(flow, j), flow[j].level + 1, e.patch, "flow"))]
      BY <1>3 DEF Handled, handlers
    <2>. QED  BY <1>1, <1>3, <2>1, HandlerModifiedIsSound
  <1>4. CASE e.op = "error_handlers.delete"
    <2>1. PICK i \in Named(flow, e.id) : \E j \in handlers(i) :
            t = [s EXCEPT !.flow = Spliced(flow, j, End(flow, j), <<>>)]
      BY <1>4 DEF Handled, handlers
    <2>. QED  BY <1>1, <1>4, <2>1, HandlerDeletedIsSound
  <1>. QED  BY <1>2, <1>3, <1>4

(* An edit makes scenarios of scenarios, leaves the ids apart unless it    *)
(* brings its own, and changes nothing but the module that it names.       *)
LEMMA EditsAreSound ==
    ASSUME NEW s \in Scenario, NEW e, IsEdit(e), NEW t \in EditProject(s, e)
    PROVE  Sound(s, e, t)
  <1>1. e.op \in {"modules.add", "modules.modify", "modules.delete", "filters.add",
                  "filters.modify", "filters.delete", "error_handlers.add",
                  "error_handlers.modify", "error_handlers.delete", "datastores.add",
                  "datastores.modify", "datastores.delete"}
    BY DEF IsEdit
  <1>2. CASE e.op = "modules.add"
    BY <1>2, AddedIsSound DEF EditProject
  <1>3. CASE e.op = "modules.modify"
    BY <1>3, ModifiedIsSound DEF EditProject
  <1>4. CASE e.op = "modules.delete"
    BY <1>4, DeletedIsSound DEF EditProject
  <1>5. CASE e.op \in {"filters.add", "filters.modify", "filters.delete"}
    BY <1>5, FilteredIsSound DEF EditProject
  <1>6. CASE e.op \in {"error_handlers.add", "error_handlers.modify",
                       "error_handlers.delete"}
    BY <1>6, HandledIsSound DEF EditProject
  <1>7. CASE e.op \in {"datastores.add", "datastores.modify", "datastores.delete"}
    BY <1>7, StockedIsSound DEF EditProject
  <1>. QED  BY <1>1, <1>2, <1>3, <1>4, <1>5, <1>6, <1>7

-----------------------------------------------------------------------------
\* Types.

OnItsWay(c) == calls[c].at \in {"loaded", "open"}

LEMMA Kinds ==
    /\ Empty.kind = "empty" /\ Mixed.kind = "mixed" /\ Empty # Mixed
    /\ Empty \notin Versions /\ Mixed \notin Versions
    /\ \A v \in Versions : /\ v.kind = "version" /\ v.scenario \in Scenario
                           /\ v.made \subseteq Calls
  BY DEF Empty, Mixed, Versions

LEMMA VersionIs ==
    ASSUME NEW s \in Scenario, NEW made \in SUBSET Calls
    PROVE  /\ Version(s, made) \in Versions
           /\ Version(s, made).scenario = s /\ Version(s, made).made = made
  BY DEF Version, Versions

(* Calls by their fields. *)
Made(at, edit, base, version, seen, beside) ==
    [at |-> at, edit |-> edit, base |-> base, version |-> version,
     seen |-> seen, beside |-> beside]

LEMMA NewCall == New = Made("new", None, Empty, Empty, {}, {})
  BY DEF New, Made

\* A call by itself, so that a step says what becomes of the one it changes.
IsCall(call) ==
    /\ call \in Call
    /\ call.at \in {"loaded", "open"} =>
          /\ call.base \in Versions /\ call.version \in Versions /\ call.edit \in Edits

LEMMA CallIs ==
    ASSUME NEW call \in Call
    PROVE  /\ call = Made(call.at, call.edit, call.base, call.version, call.seen, call.beside)
           /\ call.at \in {"new", "loaded", "open", "answered", "refused", "killed", "cut"}
           /\ call.edit \in Edits \cup {None}
           /\ call.base \in Versions \cup {Empty} /\ call.version \in Versions \cup {Empty}
           /\ call.seen \subseteq Calls /\ call.beside \subseteq Calls
  BY DEF Call, Made

LEMMA MadeIs ==
    ASSUME NEW at \in {"new", "loaded", "open", "answered", "refused", "killed", "cut"},
           NEW edit \in Edits \cup {None}, NEW base \in Versions \cup {Empty},
           NEW version \in Versions \cup {Empty},
           NEW seen \in SUBSET Calls, NEW beside \in SUBSET Calls,
           at \in {"loaded", "open"} =>
               base \in Versions /\ version \in Versions /\ edit \in Edits
    PROVE  IsCall(Made(at, edit, base, version, seen, beside))
  BY DEF IsCall, Call, Made

LEMMA TypesByCall ==
    TypeOK <=> /\ file \in Versions \cup {Empty, Mixed}
               /\ calls \in [Calls -> Call]
               /\ \A c \in Calls : IsCall(calls[c])
  BY DEF TypeOK, IsCall, OnTheirWay, Those

(* What each step makes of the call that takes it; the others stay.        *)
Others(c) ==
    /\ calls' = [calls EXCEPT ![c] = calls'[c]] /\ DOMAIN calls' = Calls
    /\ \A d \in Calls \ {c} : calls'[d] = calls[d]

LEMMA SetCall ==
    ASSUME TypeOK, NEW c \in Calls, NEW call, calls' = [calls EXCEPT ![c] = call]
    PROVE  calls'[c] = call /\ Others(c)
  BY DEF TypeOK, Others

LEMMA LoadStep ==
    ASSUME TypeOK, NEW c \in Calls, NEW e \in Edits, Load(c, e)
    PROVE  /\ calls[c].at = "new" /\ Readable /\ file \in Versions /\ file' = file
           /\ Others(c) /\ IsCall(calls'[c])
           /\ calls'[c].at = "loaded" /\ calls'[c].edit = e /\ calls'[c].base = file
           /\ calls'[c].version.scenario \in EditProject(file.scenario, e)
           /\ calls'[c].version.made = file.made \cup {c}
           /\ calls'[c].seen = Those("answered") /\ calls'[c].beside = {}
  <1>1. file \in Versions
    BY Kinds DEF Load, Readable, TypeOK
  <1>2. PICK s \in EditProject(file.scenario, e) :
          calls' = [calls EXCEPT ![c] =
             [New EXCEPT !.at = "loaded", !.edit = e, !.base = file,
                         !.version = Version(s, file.made \cup {c}),
                         !.seen = Those("answered")]]
    BY DEF Load, Read
  <1> DEFINE call == [New EXCEPT !.at = "loaded", !.edit = e, !.base = file,
                                 !.version = Version(s, file.made \cup {c}),
                                 !.seen = Those("answered")]
  <1>6. calls'[c] = call /\ Others(c)
    BY <1>2, SetCall
  <1>3. call = Made("loaded", e, file, Version(s, file.made \cup {c}), Those("answered"), {})
    <2> DEFINE c1 == [New EXCEPT !.at = "loaded"]
               c2 == [c1 EXCEPT !.edit = e]
               c3 == [c2 EXCEPT !.base = file]
               c4 == [c3 EXCEPT !.version = Version(s, file.made \cup {c})]
               c5 == [c4 EXCEPT !.seen = Those("answered")]
    <2>1. call = c5
      OBVIOUS
    <2>2. c1 = Made("loaded", None, Empty, Empty, {}, {})
      BY NewCall DEF Made
    <2> HIDE DEF c1, call
    <2>3. c2 = Made("loaded", e, Empty, Empty, {}, {})
      BY <2>2 DEF Made
    <2> HIDE DEF c2
    <2>4. c3 = Made("loaded", e, file, Empty, {}, {})
      BY <2>3 DEF Made
    <2> HIDE DEF c3
    <2>5. c4 = Made("loaded", e, file, Version(s, file.made \cup {c}), {}, {})
      BY <2>4 DEF Made
    <2> HIDE DEF c4
    <2>6. c5 = Made("loaded", e, file, Version(s, file.made \cup {c}), Those("answered"), {})
      BY <2>5 DEF Made
    <2> HIDE DEF c5
    <2>. QED  BY <2>1, <2>6
  <1> HIDE DEF call
  <1>4. /\ Version(s, file.made \cup {c}).scenario = s
        /\ Version(s, file.made \cup {c}).made = file.made \cup {c}
        /\ Version(s, file.made \cup {c}) \in Versions
    <2>1. file.scenario \in Scenario /\ file.made \cup {c} \in SUBSET Calls
      BY <1>1, Kinds
    <2>2. IsEdit(e)
      BY EditsAreEdits
    <2>3. s \in Scenario
      BY <1>2, <2>1, <2>2, EditsAreSound DEF Sound
    <2>. QED  BY <2>1, <2>3, VersionIs
  <1>5. Those("answered") \subseteq Calls
    BY DEF Those
  <1>7. IsCall(call)
    BY <1>1, <1>3, <1>4, <1>5, MadeIs
  <1>8. /\ call.at = "loaded" /\ call.edit = e /\ call.base = file
        /\ call.version = Version(s, file.made \cup {c})
        /\ call.seen = Those("answered") /\ call.beside = {}
    BY <1>3 DEF Made
  <1>9. calls[c].at = "new" /\ Readable /\ file' = file
    BY DEF Load
  <1>. QED  BY <1>1, <1>4, <1>6, <1>7, <1>8, <1>9

LEMMA RefuseStep ==
    ASSUME TypeOK, NEW c \in Calls, NEW e \in Edits, Refuse(c, e)
    PROVE  /\ calls[c].at = "new" /\ file' = file
           /\ Others(c) /\ IsCall(calls'[c])
           /\ calls'[c].at = "refused" /\ calls'[c].beside = {}
  <1> DEFINE call == [New EXCEPT !.at = "refused"]
  <1>1. calls'[c] = call /\ Others(c)
    BY SetCall DEF Refuse
  <1>2. call = Made("refused", None, Empty, Empty, {}, {})
    BY NewCall DEF Made
  <1> HIDE DEF call
  <1>3. IsCall(call) /\ call.at = "refused" /\ call.beside = {}
    BY <1>2, MadeIs DEF Made
  <1>. QED  BY <1>1, <1>3 DEF Refuse

LEMMA OpenStep ==
    ASSUME TypeOK, NEW c \in Calls, OpenFile(c)
    PROVE  /\ calls[c].at = "loaded" /\ file' = Empty
           /\ Others(c) /\ IsCall(calls'[c])
           /\ calls'[c].at = "open" /\ calls'[c].edit = calls[c].edit
           /\ calls'[c].base = calls[c].base /\ calls'[c].version = calls[c].version
           /\ calls'[c].seen = calls[c].seen /\ calls'[c].beside = Those("open")
  <1> DEFINE call == [[calls[c] EXCEPT !.at = "open"] EXCEPT !.beside = Those("open")]
  <1>1. calls'[c] = call /\ Others(c)
    BY DEF OpenFile, TypeOK, Others
  <1>2. IsCall(calls[c]) /\ Those("open") \subseteq Calls
    BY TypesByCall, CallIs DEF Those, IsCall
  <1>3. /\ calls[c].at = "loaded" /\ file' = Empty
    BY DEF OpenFile
  <1>5. call = Made("open", calls[c].edit, calls[c].base, calls[c].version,
                    calls[c].seen, Those("open"))
    <2>1. [calls[c] EXCEPT !.at = "open"] =
            Made("open", calls[c].edit, calls[c].base, calls[c].version,
                 calls[c].seen, calls[c].beside)
      BY <1>2, CallIs DEF IsCall, Made
    <2>2. call = [Made("open", calls[c].edit, calls[c].base, calls[c].version,
                       calls[c].seen, calls[c].beside) EXCEPT !.beside = Those("open")]
      BY <2>1
    <2> HIDE DEF call
    <2>. QED  BY <2>2 DEF Made
  <1> HIDE DEF call
  <1>4. /\ IsCall(call) /\ call.at = "open" /\ call.edit = calls[c].edit
        /\ call.base = calls[c].base /\ call.version = calls[c].version
        /\ call.seen = calls[c].seen /\ call.beside = Those("open")
    BY <1>2, <1>3, <1>5, CallIs, MadeIs DEF IsCall, Made
  <1>. QED  BY <1>1, <1>3, <1>4

LEMMA WriteStep ==
    ASSUME TypeOK, NEW c \in Calls, Write(c)
    PROVE  /\ calls[c].at = "open"
           /\ file' = calls[c].version \/ (file # Empty /\ file' = Mixed)
           /\ Others(c) /\ IsCall(calls'[c])
           /\ calls'[c].at = "answered" /\ calls'[c].edit = calls[c].edit
           /\ calls'[c].seen = calls[c].seen /\ calls'[c].beside = calls[c].beside
  <1> DEFINE call == [[[calls[c] EXCEPT !.at = "answered"] EXCEPT !.base = Empty]
                          EXCEPT !.version = Empty]
  <1>1. calls'[c] = call /\ Others(c)
    BY DEF Write, TypeOK, Others
  <1>2. IsCall(calls[c])
    BY TypesByCall
  <1>4. call = Made("answered", calls[c].edit, Empty, Empty, calls[c].seen, calls[c].beside)
    <2>1. [calls[c] EXCEPT !.at = "answered"] =
            Made("answered", calls[c].edit, calls[c].base, calls[c].version,
                 calls[c].seen, calls[c].beside)
      BY <1>2, CallIs DEF IsCall, Made
    <2>2. [Made("answered", calls[c].edit, calls[c].base, calls[c].version,
                calls[c].seen, calls[c].beside) EXCEPT !.base = Empty] =
            Made("answered", calls[c].edit, Empty, calls[c].version,
                 calls[c].seen, calls[c].beside)
      BY DEF Made
    <2>3. call = [Made("answered", calls[c].edit, Empty, calls[c].version,
                       calls[c].seen, calls[c].beside) EXCEPT !.version = Empty]
      BY <2>1, <2>2
    <2> HIDE DEF call
    <2>. QED  BY <2>3 DEF Made
  <1> HIDE DEF call
  <1>3. /\ IsCall(call) /\ call.at = "answered" /\ call.edit = calls[c].edit
        /\ call.seen = calls[c].seen /\ call.beside = calls[c].beside
    BY <1>2, <1>4, CallIs, MadeIs, SMTT(30) DEF IsCall, Made
  <1>. QED  BY <1>1, <1>3 DEF Write, Texts

LEMMA KillStep ==
    ASSUME TypeOK, NEW c \in Calls, Kill(c)
    PROVE  /\ calls[c].at \in {"loaded", "open"} /\ file' = file
           /\ Others(c) /\ IsCall(calls'[c])
           /\ calls'[c].at = IF calls[c].at = "open" THEN "cut" ELSE "killed"
           /\ calls'[c].beside = {}
  <1> DEFINE call == [New EXCEPT !.at = IF calls[c].at = "open" THEN "cut" ELSE "killed"]
  <1>1. calls'[c] = call /\ Others(c)
    BY SetCall DEF Kill
  <1>2. call = Made(IF calls[c].at = "open" THEN "cut" ELSE "killed",
                    None, Empty, Empty, {}, {})
    BY NewCall DEF Made
  <1> HIDE DEF call
  <1>3. /\ IsCall(call) /\ call.beside = {}
        /\ call.at = IF calls[c].at = "open" THEN "cut" ELSE "killed"
    BY <1>2, MadeIs DEF Made
  <1>. QED  BY <1>1, <1>3 DEF Kill

LEMMA OneCall ==
    ASSUME TypeOK, NEW c \in Calls, Others(c), IsCall(calls'[c]),
           file' \in Versions \cup {Empty, Mixed}
    PROVE  TypeOK'
  <1>1. \A d \in Calls : IsCall(calls'[d])
    BY TypesByCall DEF Others
  <1>2. calls' \in [Calls -> Call]
    BY DEF TypeOK, IsCall, Others
  <1>. QED  BY <1>1, <1>2 DEF TypeOK, IsCall, OnTheirWay, Those

LEMMA InitTypes == Init => TypeOK
  <1>. SUFFICES ASSUME Init PROVE TypeOK
    OBVIOUS
  <1>1. IsCall(New)
    BY NewCall, MadeIs
  <1>2. file \in Versions
    BY OriginalIsAScenario, VersionIs DEF Init
  <1>3. calls \in [Calls -> Call] /\ \A c \in Calls : IsCall(calls[c])
    BY <1>1 DEF Init, IsCall
  <1>. QED  BY <1>2, <1>3, TypesByCall

LEMMA TypesAreKept == TypeOK /\ [Next]_vars => TypeOK'
  <1>. SUFFICES ASSUME TypeOK, [Next]_vars PROVE TypeOK'
    OBVIOUS
  <1>0. file \in Versions \cup {Empty, Mixed}
    BY DEF TypeOK
  <1>1. ASSUME NEW c \in Calls, NEW e \in Edits, Load(c, e) PROVE TypeOK'
    BY <1>0, <1>1, LoadStep, OneCall
  <1>2. ASSUME NEW c \in Calls, NEW e \in Edits, Refuse(c, e) PROVE TypeOK'
    BY <1>0, <1>2, RefuseStep, OneCall
  <1>3. ASSUME NEW c \in Calls, OpenFile(c) PROVE TypeOK'
    BY <1>3, OpenStep, OneCall
  <1>4. ASSUME NEW c \in Calls, Write(c) PROVE TypeOK'
    <2>1. calls[c].version \in Versions
      BY <1>4, WriteStep, TypesByCall DEF IsCall
    <2>. QED  BY <1>4, <2>1, WriteStep, OneCall
  <1>5. ASSUME NEW c \in Calls, Kill(c) PROVE TypeOK'
    BY <1>0, <1>5, KillStep, OneCall
  <1>6. CASE UNCHANGED vars
    BY <1>6 DEF vars, TypeOK, OnTheirWay, Those
  <1>. QED  BY <1>1, <1>2, <1>3, <1>4, <1>5, <1>6 DEF Next

(* The file is a version, empty or of two texts, and a call on its way has *)
(* read a version and is about to write one.                               *)
THEOREM TypeCorrect == Spec => []TypeOK
  <1>. QED  BY InitTypes, TypesAreKept, PTL DEF Spec

-----------------------------------------------------------------------------
\* What a step leaves alone.

Answered == Those("answered")

LEMMA ThoseOf ==
    ASSUME NEW c \in Calls, NEW state
    PROVE  c \in Those(state) <=> calls[c].at = state
  BY DEF Those

LEMMA AnsweredStay ==
    ASSUME NEW c \in Calls, Others(c), calls[c].at # "answered"
    PROVE  /\ Answered \subseteq Answered' /\ Answered' \subseteq Answered \cup {c}
           /\ c \notin Answered /\ \A d \in Answered : calls'[d] = calls[d]
           /\ calls'[c].at = "answered" => Answered' = Answered \cup {c}
           /\ calls'[c].at # "answered" => Answered' = Answered
  BY DEF Answered, Those, Others

(* A step is of one call that had not answered.                            *)
LEMMA StepOf ==
    ASSUME TypeOK, Next
    PROVE  \E c \in Calls :
              \/ \E e \in Edits : Load(c, e)
              \/ \E e \in Edits : Refuse(c, e)
              \/ OpenFile(c) \/ Write(c) \/ Kill(c)
  BY DEF Next

-----------------------------------------------------------------------------
\* Edits that are lost.

(* What a call on its way will write: what it has read, and its own edit.  *)
(* Of the edits that had been answered when it read, those that are        *)
(* missing were missing already.                                           *)
Follows(c) ==
    LET call == calls[c]
    IN  /\ call.version.made = call.base.made \cup {c}
        /\ call.base.made \subseteq Answered /\ call.seen \subseteq Answered
        /\ \A m \in call.seen \ call.base.made :
              \E d \in call.base.made : m \notin calls[d].seen

Traced ==
    /\ Readable => file.made \subseteq Answered
    /\ LostOnlyToOverlap
    /\ \A c \in Calls : OnItsWay(c) => Follows(c)

LEMMA OthersFollow ==
    ASSUME NEW c \in Calls, Others(c), calls[c].at # "answered",
           NEW d \in Calls, calls'[d] = calls[d], Follows(d)
    PROVE  Follows(d)'
  <1>1. /\ Answered \subseteq Answered'
        /\ \A x \in Answered : calls'[x] = calls[x]
    BY AnsweredStay
  <1>. QED  BY <1>1 DEF Follows

(* A step after which nothing new is in the file.                          *)
LEMMA QuietTraced ==
    ASSUME Traced, NEW c \in Calls, Others(c), calls[c].at # "answered",
           calls'[c].at # "answered", file' = file,
           OnItsWay(c)' => Follows(c)'
    PROVE  Traced'
  <1>1. Answered' = Answered /\ \A d \in Answered : calls'[d] = calls[d]
    BY AnsweredStay
  <1>2. Readable' => file.made \subseteq Answered'
    BY <1>1 DEF Traced, Readable
  <1>3. LostOnlyToOverlap'
    <2>. SUFFICES ASSUME Readable', NEW m \in Answered' \ file'.made
                  PROVE  \E d \in file'.made : m \notin calls'[d].seen
      BY DEF LostOnlyToOverlap, Answered
    <2>1. Readable /\ m \in Answered \ file.made
      BY <1>1 DEF Readable
    <2>2. PICK d \in file.made : m \notin calls[d].seen
      BY <2>1 DEF Traced, LostOnlyToOverlap, Answered
    <2>3. calls'[d] = calls[d]
      BY <1>1, <2>1 DEF Traced
    <2>. QED  BY <2>2, <2>3
  <1>4. ASSUME NEW d \in Calls, OnItsWay(d)' PROVE Follows(d)'
    <2>1. CASE d = c
      BY <1>4, <2>1
    <2>2. CASE d # c
      <3>1. calls'[d] = calls[d]
        BY <2>2 DEF Others
      <3>2. Follows(d)
        BY <1>4, <3>1 DEF Traced, OnItsWay
      <3>. QED  BY <3>1, <3>2, OthersFollow
    <2>. QED  BY <2>1, <2>2
  <1>. QED  BY <1>2, <1>3, <1>4 DEF Traced

LEMMA LoadTraced ==
    ASSUME TypeOK, Traced, NEW c \in Calls, NEW e \in Edits, Load(c, e)
    PROVE  Traced'
  <1>1. /\ calls[c].at = "new" /\ Readable /\ file' = file /\ Others(c)
        /\ calls'[c].at = "loaded" /\ calls'[c].base = file
        /\ calls'[c].version.made = file.made \cup {c} /\ calls'[c].seen = Answered
    BY LoadStep DEF Answered
  <1>2. Answered' = Answered /\ \A d \in Answered : calls'[d] = calls[d]
    BY <1>1, AnsweredStay
  <1>3. file.made \subseteq Answered
    BY <1>1 DEF Traced
  <1>4. ASSUME NEW m \in Answered \ file.made
        PROVE  \E d \in file.made : m \notin calls'[d].seen
    <2>1. PICK d \in file.made : m \notin calls[d].seen
      BY <1>1, <1>4 DEF Traced, LostOnlyToOverlap, Answered
    <2>. QED  BY <1>2, <1>3, <2>1
  <1>5. Follows(c)'
    BY <1>1, <1>2, <1>3, <1>4 DEF Follows
  <1>. QED  BY <1>1, <1>5, QuietTraced

LEMMA OpenTraced ==
    ASSUME TypeOK, Traced, NEW c \in Calls, OpenFile(c)
    PROVE  Traced'
  <1>1. /\ calls[c].at = "loaded" /\ file' = Empty /\ Others(c)
        /\ calls'[c].at = "open" /\ calls'[c].base = calls[c].base
        /\ calls'[c].version = calls[c].version /\ calls'[c].seen = calls[c].seen
    BY OpenStep
  <1>2. Answered' = Answered /\ \A d \in Answered : calls'[d] = calls[d]
    BY <1>1, AnsweredStay
  <1>3. ~Readable'
    BY <1>1, Kinds DEF Readable
  <1>4. Follows(c)
    BY <1>1 DEF Traced, OnItsWay
  <1>5. Follows(c)'
    BY <1>1, <1>2, <1>4 DEF Follows
  <1>6. ASSUME NEW d \in Calls, OnItsWay(d)' PROVE Follows(d)'
    <2>1. CASE d # c
      <3>1. calls'[d] = calls[d]
        BY <1>1, <2>1 DEF Others
      <3>2. Follows(d)
        BY <1>6, <3>1 DEF Traced, OnItsWay
      <3>. QED  BY <1>1, <3>1, <3>2, OthersFollow
    <2>. QED  BY <1>5, <2>1
  <1>. QED  BY <1>3, <1>6 DEF Traced, LostOnlyToOverlap

LEMMA WriteTraced ==
    ASSUME TypeOK, Traced, NEW c \in Calls, Write(c)
    PROVE  Traced'
  <1>1. /\ calls[c].at = "open" /\ Others(c)
        /\ file' = calls[c].version \/ file' = Mixed
        /\ calls'[c].at = "answered" /\ calls'[c].seen = calls[c].seen
    BY WriteStep
  <1>2. /\ Answered' = Answered \cup {c}
        /\ \A d \in Answered : calls'[d] = calls[d]
    BY <1>1, AnsweredStay
  <1>3. Follows(c)
    BY <1>1 DEF Traced, OnItsWay
  <1>4. ASSUME Readable' PROVE file' = calls[c].version
    BY <1>1, <1>4, Kinds DEF Readable
  <1>5. Readable' => file'.made \subseteq Answered'
    BY <1>2, <1>3, <1>4 DEF Follows
  <1>6. LostOnlyToOverlap'
    <2>. SUFFICES ASSUME Readable', NEW m \in Answered' \ file'.made
                  PROVE  \E d \in file'.made : m \notin calls'[d].seen
      BY DEF LostOnlyToOverlap, Answered
    <2>1. file'.made = calls[c].base.made \cup {c}
      BY <1>3, <1>4 DEF Follows
    <2>2. m \in Answered /\ m # c
      BY <1>2, <2>1
    <2>3. CASE m \notin calls[c].seen
      BY <1>1, <2>1, <2>3
    <2>4. CASE m \in calls[c].seen
      <3>1. PICK d \in calls[c].base.made : m \notin calls[d].seen
        BY <1>3, <2>1, <2>4 DEF Follows
      <3>2. calls'[d] = calls[d]
        BY <1>2, <1>3 DEF Follows
      <3>. QED  BY <2>1, <3>1, <3>2
    <2>. QED  BY <2>3, <2>4
  <1>7. ASSUME NEW d \in Calls, OnItsWay(d)' PROVE Follows(d)'
    <2>1. d # c
      BY <1>1, <1>7 DEF OnItsWay
    <2>2. calls'[d] = calls[d]
      BY <1>1, <2>1 DEF Others
    <2>3. Follows(d)
      BY <1>7, <2>2 DEF Traced, OnItsWay
    <2>. QED  BY <1>1, <2>2, <2>3, OthersFollow
  <1>. QED  BY <1>5, <1>6, <1>7 DEF Traced

LEMMA InitTraced == Init => Traced
  <1>. SUFFICES ASSUME Init PROVE Traced
    OBVIOUS
  <1>1. \A c \in Calls : calls[c].at = "new"
    BY DEF Init, New
  <1>2. file.made = {} /\ Answered = {}
    BY <1>1 DEF Init, Version, Answered, Those
  <1>. QED  BY <1>1, <1>2 DEF Traced, LostOnlyToOverlap, Answered, OnItsWay

LEMMA TracedIsKept == TypeOK /\ Traced /\ [Next]_vars => Traced'
  <1>. SUFFICES ASSUME TypeOK, Traced, [Next]_vars PROVE Traced'
    OBVIOUS
  <1>1. ASSUME NEW c \in Calls, NEW e \in Edits, Refuse(c, e) PROVE Traced'
    BY <1>1, RefuseStep, QuietTraced DEF OnItsWay
  <1>2. ASSUME NEW c \in Calls, Kill(c) PROVE Traced'
    BY <1>2, KillStep, QuietTraced DEF OnItsWay
  <1>3. CASE UNCHANGED vars
    BY <1>3 DEF vars, Traced, Readable, LostOnlyToOverlap, Follows, OnItsWay, Answered, Those
  <1>. QED  BY <1>1, <1>2, <1>3, StepOf, LoadTraced, OpenTraced, WriteTraced

(* An answered edit is missing from the file only if a call that had       *)
(* loaded before the answer wrote its own version.                         *)
THEOREM LostOnlyToOverlapHolds == Spec => []LostOnlyToOverlap
  <1>1. TypeOK /\ Traced => LostOnlyToOverlap
    BY DEF Traced
  <1>. QED  BY <1>1, InitTypes, TypesAreKept, InitTraced, TracedIsKept, PTL DEF Spec

-----------------------------------------------------------------------------
\* Files that are no JSON.

(* A writer was killed, or one opened the file while another had it open.  *)
Excused == Those("cut") # {} \/ \E c \in Calls : calls[c].beside # {}

(* Of two that have the file open, one opened it beside the other.  What   *)
(* is in the file while it is open for a new text came from a second one.  *)
Torn ==
    /\ \A c \in Calls : calls[c].at \in {"new", "loaded"} => calls[c].beside = {}
    /\ \A c, d \in Calls : calls[c].at = "open" /\ calls[d].at = "open" /\ c # d =>
          calls[c].beside # {} \/ calls[d].beside # {}
    /\ file # Empty => Those("open") = {} \/ Excused
    /\ file = Empty => Those("open") # {} \/ Excused
    /\ file = Mixed => Excused

LEMMA ExcusedStays ==
    ASSUME NEW c \in Calls, Others(c), Excused,
           calls[c].at # "cut" \/ calls'[c].at = "cut",
           calls[c].beside # {} => calls'[c].beside # {} \/ calls'[c].at = "cut"
    PROVE  Excused'
  BY DEF Excused, Those, Others

LEMMA LoadTorn ==
    ASSUME TypeOK, Torn, NEW c \in Calls, NEW e \in Edits, Load(c, e) \/ Refuse(c, e)
    PROVE  Torn'
  <1>1. /\ calls[c].at = "new" /\ file' = file /\ Others(c)
        /\ calls'[c].at \in {"loaded", "refused"} /\ calls'[c].beside = {}
    BY LoadStep, RefuseStep
  <1>2. calls[c].beside = {}
    BY <1>1 DEF Torn
  <1>3. Excused => Excused'
    BY <1>1, <1>2, ExcusedStays
  <1>4. Those("open")' = Those("open")
    BY <1>1 DEF Those, Others
  <1>5. \A d \in Calls : /\ calls'[d].at \in {"new", "loaded"} => calls'[d].beside = {}
                         /\ calls'[d].at = "open" => calls'[d] = calls[d]
    BY <1>1 DEF Torn, Others
  <1>. QED  BY <1>1, <1>3, <1>4, <1>5 DEF Torn

LEMMA OpenTorn ==
    ASSUME TypeOK, Torn, NEW c \in Calls, OpenFile(c)
    PROVE  Torn'
  <1>1. /\ calls[c].at = "loaded" /\ file' = Empty /\ Others(c)
        /\ calls'[c].at = "open" /\ calls'[c].beside = Those("open")
    BY OpenStep
  <1>2. c \in Those("open")'
    BY <1>1 DEF Those
  <1>3. ASSUME NEW d \in Calls, d # c, calls'[d].at = "open"
        PROVE  calls'[c].beside # {} /\ calls'[d] = calls[d]
    BY <1>1, <1>3 DEF Those, Others
  <1>4. \A d \in Calls : calls'[d].at \in {"new", "loaded"} => calls'[d].beside = {}
    BY <1>1 DEF Torn, Others
  <1>5. \A a, d \in Calls : calls'[a].at = "open" /\ calls'[d].at = "open" /\ a # d =>
          calls'[a].beside # {} \/ calls'[d].beside # {}
    BY <1>3 DEF Torn
  <1>. QED  BY <1>1, <1>2, <1>4, <1>5, Kinds DEF Torn

LEMMA WriteTorn ==
    ASSUME TypeOK, Torn, NEW c \in Calls, Write(c)
    PROVE  Torn'
  <1>1. /\ calls[c].at = "open" /\ Others(c)
        /\ file' = calls[c].version \/ (file # Empty /\ file' = Mixed)
        /\ calls'[c].at = "answered" /\ calls'[c].beside = calls[c].beside
    BY WriteStep
  <1>2. calls[c].version # Mixed /\ calls[c].version # Empty
    BY <1>1, Kinds, TypesByCall DEF IsCall
  <1>3. file' # Empty /\ (file' = Mixed => file # Empty)
    BY <1>1, <1>2, Kinds
  <1>4. Excused => Excused'
    BY <1>1, ExcusedStays
  <1>5. file' = Mixed => Excused'
    <2>1. Those("open") # {}
      BY <1>1 DEF Those
    <2>. QED  BY <1>3, <1>4, <2>1 DEF Torn
  <1>6. Those("open")' = {} \/ Excused'
    <2>1. ASSUME NEW d \in Those("open")'
          PROVE  Excused'
      <3>1. d \in Calls /\ d # c /\ calls'[d] = calls[d] /\ calls[d].at = "open"
        BY <1>1, <2>1 DEF Those, Others
      <3>2. calls[c].beside # {} \/ calls[d].beside # {}
        BY <1>1, <3>1 DEF Torn
      <3>. QED  BY <1>1, <3>1, <3>2 DEF Excused
    <2>. QED  BY <2>1
  <1>7. \A d \in Calls : /\ calls'[d].at \in {"new", "loaded"} => calls'[d].beside = {}
                         /\ calls'[d].at = "open" => calls'[d] = calls[d]
    BY <1>1 DEF Torn, Others
  <1>. QED  BY <1>3, <1>5, <1>6, <1>7 DEF Torn

LEMMA KillTorn ==
    ASSUME TypeOK, Torn, NEW c \in Calls, Kill(c)
    PROVE  Torn'
  <1>1. /\ calls[c].at \in {"loaded", "open"} /\ file' = file /\ Others(c)
        /\ calls'[c].at = (IF calls[c].at = "open" THEN "cut" ELSE "killed")
        /\ calls'[c].beside = {}
    BY KillStep
  <1>2. calls[c].at = "loaded" => calls[c].beside = {}
    BY DEF Torn
  <1>3. Excused => Excused'
    BY <1>1, <1>2, ExcusedStays
  <1>4. calls[c].at = "open" => Excused'
    BY <1>1 DEF Excused, Those
  <1>5. calls[c].at = "loaded" => Those("open")' = Those("open")
    BY <1>1 DEF Those, Others
  <1>6. \A d \in Calls : /\ calls'[d].at \in {"new", "loaded"} => calls'[d].beside = {}
                         /\ calls'[d].at = "open" => calls'[d] = calls[d]
    BY <1>1 DEF Torn, Others
  <1>. QED  BY <1>1, <1>3, <1>4, <1>5, <1>6 DEF Torn

LEMMA InitTorn == Init => Torn
  <1>. SUFFICES ASSUME Init PROVE Torn
    OBVIOUS
  <1>1. \A c \in Calls : calls[c].at = "new" /\ calls[c].beside = {}
    BY DEF Init, New
  <1>2. file # Empty /\ file # Mixed
    BY DEF Init, Version, Empty, Mixed
  <1>. QED  BY <1>1, <1>2 DEF Torn, Those

LEMMA TornIsKept == TypeOK /\ Torn /\ [Next]_vars => Torn'
  <1>. SUFFICES ASSUME TypeOK, Torn, [Next]_vars PROVE Torn'
    OBVIOUS
  <1>1. CASE UNCHANGED vars
    BY <1>1 DEF vars, Torn, Excused, Those, Empty, Mixed
  <1>. QED  BY <1>1, StepOf, LoadTorn, OpenTorn, WriteTorn, KillTorn

(* Nobody has the file open and it is no JSON: a writer was killed, or two *)
(* had it open at once.                                                    *)
THEOREM TornIsExcusedHolds == Spec => []TornIsExcused
  <1>1. TypeOK /\ Torn => TornIsExcused
    BY Kinds DEF TypeOK, Torn, TornIsExcused, Excused, Readable
  <1>. QED  BY <1>1, InitTypes, TypesAreKept, InitTorn, TornIsKept, PTL DEF Spec

-----------------------------------------------------------------------------
\* What a call is about to write.

Edited ==
    \A c \in OnTheirWay :
        calls[c].version.scenario \in EditProject(calls[c].base.scenario, calls[c].edit)

LEMMA EditedIsKept == TypeOK /\ Edited /\ [Next]_vars => Edited'
  <1>. SUFFICES ASSUME TypeOK, Edited, [Next]_vars PROVE Edited'
    OBVIOUS
  <1>1. ASSUME NEW c \in Calls, Others(c),
               OnItsWay(c)' => calls'[c].version.scenario \in
                                  EditProject(calls'[c].base.scenario, calls'[c].edit)
        PROVE  Edited'
    <2>. SUFFICES ASSUME NEW d \in Calls, OnItsWay(d)'
                  PROVE  calls'[d].version.scenario \in
                            EditProject(calls'[d].base.scenario, calls'[d].edit)
      BY DEF Edited, OnTheirWay, Those, OnItsWay
    <2>1. CASE d = c
      BY <1>1, <2>1
    <2>2. CASE d # c
      BY <1>1, <2>2 DEF Others, Edited, OnTheirWay, Those, OnItsWay
    <2>. QED  BY <2>1, <2>2
  <1>2. ASSUME NEW c \in Calls, NEW e \in Edits, Load(c, e) PROVE Edited'
    BY <1>1, <1>2, LoadStep
  <1>3. ASSUME NEW c \in Calls, NEW e \in Edits, Refuse(c, e) PROVE Edited'
    BY <1>1, <1>3, RefuseStep DEF OnItsWay
  <1>4. ASSUME NEW c \in Calls, OpenFile(c) PROVE Edited'
    BY <1>1, <1>4, OpenStep DEF Edited, OnTheirWay, Those
  <1>5. ASSUME NEW c \in Calls, Write(c) PROVE Edited'
    BY <1>1, <1>5, WriteStep DEF OnItsWay
  <1>6. ASSUME NEW c \in Calls, Kill(c) PROVE Edited'
    BY <1>1, <1>6, KillStep DEF OnItsWay
  <1>7. CASE UNCHANGED vars
    BY <1>7 DEF vars, Edited, OnTheirWay, Those
  <1>. QED  BY <1>2, <1>3, <1>4, <1>5, <1>6, <1>7, StepOf

LEMMA EditedIsSound ==
    ASSUME TypeOK, Edited, NEW c \in OnTheirWay
    PROVE  Sound(calls[c].base.scenario, calls[c].edit, calls[c].version.scenario)
  <1>1. calls[c].edit \in Edits /\ calls[c].base \in Versions
    BY DEF TypeOK
  <1>2. IsEdit(calls[c].edit) /\ calls[c].base.scenario \in Scenario
    BY <1>1, EditsAreEdits, Kinds
  <1>3. calls[c].version.scenario \in EditProject(calls[c].base.scenario, calls[c].edit)
    BY DEF Edited
  <1>. QED  BY <1>2, <1>3, EditsAreSound

LEMMA InitEdited == Init => Edited
  BY DEF Init, New, Edited, OnTheirWay, Those

LEMMA WritesOneEdit == Spec => [](TypeOK /\ Edited)
  <1>. QED  BY InitTypes, TypesAreKept, InitEdited, EditedIsKept, PTL DEF Spec

(* An edit leaves the modules with an id each, of those that have one,     *)
(* unless it brings ids of its own past the check.                         *)
THEOREM EditsKeepIdsHolds == Spec => []EditsKeepIds
  <1>1. TypeOK /\ Edited => EditsKeepIds
    BY EditedIsSound DEF Sound, EditsKeepIds
  <1>. QED  BY <1>1, WritesOneEdit, PTL

(* What a call is about to write differs from what it read in the first    *)
(* module of the id that it names, and in nothing that does not hang from  *)
(* it.                                                                     *)
THEOREM OthersAreKeptHolds == Spec => []OthersAreKept
  <1>1. TypeOK /\ Edited => OthersAreKept
    BY EditedIsSound DEF Sound, OthersAreKept
  <1>. QED  BY <1>1, WritesOneEdit, PTL

-----------------------------------------------------------------------------
\* Ids that are there twice.

Blamed(table, made) == \E c \in made : BringsIds(table[c].edit)

Brought ==
    /\ DuplicatesAreTheCallers
    /\ \A c \in Calls : OnItsWay(c) /\ ~IdsDiffer(calls[c].version.scenario.flow) =>
          Blamed(calls, calls[c].version.made)

LEMMA WaitingBrought ==
    ASSUME TypeOK, Traced, Brought, NEW c \in Calls, Others(c), calls[c].at # "answered",
           NEW d \in Calls, d # c, OnItsWay(d)', ~IdsDiffer(calls'[d].version.scenario.flow)
    PROVE  Blamed(calls', calls'[d].version.made)
  <1>1. calls'[d] = calls[d]
    BY DEF Others
  <1>2. OnItsWay(d) /\ Follows(d)
    BY <1>1 DEF OnItsWay, Traced
  <1>3. c \notin calls[d].version.made
    BY <1>2, AnsweredStay DEF Follows
  <1>4. calls[d].version.made \subseteq Calls
    BY <1>2, TypesByCall, Kinds DEF OnItsWay, IsCall
  <1>5. Blamed(calls, calls[d].version.made)
    BY <1>1, <1>2 DEF Brought
  <1>6. Blamed(calls', calls[d].version.made)
    BY <1>1, <1>3, <1>4, <1>5 DEF Blamed, Others
  <1>. QED  BY <1>1, <1>6 DEF Blamed

(* A step after which the file is the same, or is not readable.            *)
LEMMA QuietBrought ==
    ASSUME TypeOK, Traced, Brought, NEW c \in Calls, Others(c), calls[c].at # "answered",
           file' = file \/ ~Readable',
           OnItsWay(c)' /\ ~IdsDiffer(calls'[c].version.scenario.flow) =>
               Blamed(calls', calls'[c].version.made)
    PROVE  Brought'
  <1>1. DuplicatesAreTheCallers'
    <2>. SUFFICES ASSUME Readable', ~IdsDiffer(file'.scenario.flow)
                  PROVE  \E d \in file'.made : BringsIds(calls'[d].edit)
      BY DEF DuplicatesAreTheCallers
    <2>1. Readable /\ file' = file
      BY DEF Readable
    <2>2. PICK d \in file.made : BringsIds(calls[d].edit)
      BY <2>1 DEF Brought, DuplicatesAreTheCallers
    <2>3. calls'[d] = calls[d]
      BY <2>1, AnsweredStay DEF Traced
    <2>. QED  BY <2>1, <2>2, <2>3
  <1>. QED  BY <1>1, WaitingBrought DEF Brought

LEMMA LoadBrought ==
    ASSUME TypeOK, Traced, Brought, EditsKeepIds', NEW c \in Calls, NEW e \in Edits,
           Load(c, e)
    PROVE  Brought'
  <1>1. /\ calls[c].at = "new" /\ Readable /\ file' = file /\ Others(c)
        /\ calls'[c].at = "loaded" /\ calls'[c].base = file /\ calls'[c].edit = e
        /\ calls'[c].version.made = file.made \cup {c}
    BY LoadStep
  <1>2. \A d \in Answered : calls'[d] = calls[d]
    BY <1>1, AnsweredStay
  <1>3. ASSUME ~IdsDiffer(calls'[c].version.scenario.flow)
        PROVE  \E d \in file.made \cup {c} : BringsIds(calls'[d].edit)
    <2>1. IdsDiffer(file.scenario.flow) => BringsIds(e)
      BY <1>1, <1>3 DEF EditsKeepIds, OnTheirWay, Those
    <2>2. CASE BringsIds(e)
      BY <1>1, <2>2
    <2>3. CASE ~IdsDiffer(file.scenario.flow)
      <3>1. PICK d \in file.made : BringsIds(calls[d].edit)
        BY <1>1, <2>3 DEF Brought, DuplicatesAreTheCallers
      <3>2. calls'[d] = calls[d]
        BY <1>1, <1>2 DEF Traced
      <3>. QED  BY <3>1, <3>2
    <2>. QED  BY <2>1, <2>2, <2>3
  <1>4. ~IdsDiffer(calls'[c].version.scenario.flow) => Blamed(calls', calls'[c].version.made)
    BY <1>1, <1>3 DEF Blamed
  <1>. QED  BY <1>1, <1>4, QuietBrought

LEMMA WriteBrought ==
    ASSUME TypeOK, Traced, Brought, NEW c \in Calls, Write(c)
    PROVE  Brought'
  <1>1. /\ calls[c].at = "open" /\ Others(c) /\ calls'[c].at = "answered"
        /\ file' = calls[c].version \/ file' = Mixed
        /\ calls'[c].edit = calls[c].edit
    BY WriteStep
  <1>2. calls[c].version.made \subseteq Calls
    BY <1>1, TypesByCall, Kinds DEF IsCall
  <1>3. DuplicatesAreTheCallers'
    <2>. SUFFICES ASSUME Readable', ~IdsDiffer(file'.scenario.flow)
                  PROVE  \E d \in file'.made : BringsIds(calls'[d].edit)
      BY DEF DuplicatesAreTheCallers
    <2>1. file' = calls[c].version
      BY <1>1, Kinds DEF Readable
    <2>2. Blamed(calls, calls[c].version.made)
      BY <1>1, <2>1 DEF Brought, OnItsWay
    <2>. QED  BY <1>1, <1>2, <2>1, <2>2 DEF Blamed, Others
  <1>. QED  BY <1>1, <1>3, WaitingBrought DEF Brought, OnItsWay

LEMMA BroughtIsKept ==
    TypeOK /\ Traced /\ Brought /\ EditsKeepIds' /\ [Next]_vars => Brought'
  <1>. SUFFICES ASSUME TypeOK, Traced, Brought, EditsKeepIds', [Next]_vars PROVE Brought'
    OBVIOUS
  <1>1. ASSUME NEW c \in Calls, NEW e \in Edits, Refuse(c, e) PROVE Brought'
    BY <1>1, RefuseStep, QuietBrought DEF OnItsWay
  <1>2. ASSUME NEW c \in Calls, Kill(c) PROVE Brought'
    BY <1>2, KillStep, QuietBrought DEF OnItsWay
  <1>3. ASSUME NEW c \in Calls, OpenFile(c) PROVE Brought'
    <2>1. /\ calls[c].at = "loaded" /\ file' = Empty /\ Others(c)
          /\ calls'[c].version = calls[c].version /\ calls'[c].edit = calls[c].edit
      BY <1>3, OpenStep
    <2>2. ~Readable'
      BY <2>1, Kinds DEF Readable
    <2>3. calls[c].version.made \subseteq Calls
      BY <2>1, TypesByCall, Kinds DEF IsCall
    <2>4. ~IdsDiffer(calls[c].version.scenario.flow) => Blamed(calls, calls[c].version.made)
      BY <2>1 DEF Brought, OnItsWay
    <2>5. ~IdsDiffer(calls'[c].version.scenario.flow) => Blamed(calls', calls'[c].version.made)
      BY <2>1, <2>3, <2>4 DEF Blamed, Others
    <2>. QED  BY <2>1, <2>2, <2>5, QuietBrought
  <1>4. CASE UNCHANGED vars
    BY <1>4 DEF vars, Brought, DuplicatesAreTheCallers, Blamed, Readable, OnItsWay
  <1>. QED  BY <1>1, <1>2, <1>3, <1>4, StepOf, LoadBrought, WriteBrought

(* From a scenario whose modules have an id each, two modules have one id  *)
(* only after an edit that brought ids of its own past the check: calls    *)
(* that load at once, lose edits or are killed never add the same id twice. *)
THEOREM DuplicatesAreTheCallersHolds == Spec => []DuplicatesAreTheCallers
  <1>1. Init => Brought
    BY OriginalIsAScenario
    DEF Init, New, Version, Brought, DuplicatesAreTheCallers, OnItsWay
  <1>2. TypeOK /\ Traced /\ Brought => DuplicatesAreTheCallers
    BY DEF Brought
  <1>. QED  BY <1>1, <1>2, InitTypes, TypesAreKept, InitTraced, TracedIsKept,
               BroughtIsKept, EditsKeepIdsHolds, PTL DEF Spec
=============================================================================
