-------------------------- MODULE DictionaryProofs --------------------------
(***************************************************************************)
(* For every set of texts, every resolution of the dictionary and every    *)
(* source: dictionary_find finds the words that were added and no others,  *)
(* at every turn of the loop of dictionary_add, and the tree implements a  *)
(* table of words.                                                         *)
(*                                                                         *)
(* The argument speaks of spans: S[x] is the set of the entries at or      *)
(* below x.  A tree is one whose spans are made of the spans of the        *)
(* branches, with smaller words on side 0 and greater ones on side 1, and  *)
(* whose root spans all entries.  Rotations change the spans of the two or *)
(* three entries they turn; the word that is being added stays close to    *)
(* the span of the entry the walk has reached.                             *)
(***************************************************************************)
EXTENDS Dictionary, FiniteSetTheorems, SequenceTheorems, WellFoundedInduction, TLAPS

SortCodes == [1 .. Resolution -> Nat]
Side == 0 .. 1

---------------------------------------------------------------------------
(* The order of words.                                                     *)

(* A set of numbers that is not empty has a least one.                     *)
LEMMA LeastNumber ==
  ASSUME NEW T \in SUBSET Nat, T # {}
  PROVE  \E x \in T : \A y \in T : x <= y
<1>1. \E x \in T : \A y \in T : ~ (<<y, x>> \in OpToRel(<, Nat))
  BY NatLessThanWellFounded, WFMin
<1>2. PICK x \in T : \A y \in T : ~ (<<y, x>> \in OpToRel(<, Nat))
  BY <1>1
<1>3. ASSUME NEW y \in T PROVE x <= y
  <2>1. ~ (y < x)
    BY <1>2 DEF OpToRel
  <2> QED  BY <2>1
<1> QED  BY <1>3

(* compare_sorts orders the sort codes strictly and totally.               *)
LEMMA StrictOrder ==
  ASSUME NEW c \in SortCodes, NEW d \in SortCodes
  PROVE  /\ ~ Before(c, c)
         /\ Before(c, d) => ~ Before(d, c)
         /\ c # d => Before(c, d) \/ Before(d, c)
<1> USE BoundsAssumption
<1>1. ~ Before(c, c)
  BY DEF Before, SortCodes
<1>2. ASSUME Before(c, d), Before(d, c) PROVE FALSE
  <2>1. PICK i \in 1 .. Resolution : c[i] < d[i] /\ \A k \in 1 .. i - 1 : c[k] = d[k]
    BY <1>2 DEF Before
  <2>2. PICK j \in 1 .. Resolution : d[j] < c[j] /\ \A k \in 1 .. j - 1 : d[k] = c[k]
    BY <1>2 DEF Before
  <2>3. c[i] \in Nat /\ d[i] \in Nat /\ c[j] \in Nat /\ d[j] \in Nat
    BY DEF SortCodes
  <2>4. CASE i < j
    <3>1. i \in 1 .. j - 1  BY <2>4
    <3> QED  BY <3>1, <2>1, <2>2, <2>3
  <2>5. CASE j < i
    <3>1. j \in 1 .. i - 1  BY <2>5
    <3> QED  BY <3>1, <2>1, <2>2, <2>3
  <2>6. CASE i = j
    BY <2>6, <2>1, <2>2, <2>3
  <2> QED  BY <2>4, <2>5, <2>6
<1>3. ASSUME c # d PROVE Before(c, d) \/ Before(d, c)
  <2> DEFINE T == {i \in 1 .. Resolution : c[i] # d[i]}
  <2>1. T # {}
    <3> SUFFICES ASSUME \A i \in 1 .. Resolution : c[i] = d[i] PROVE FALSE  OBVIOUS
    <3>1. c = [i \in 1 .. Resolution |-> c[i]] /\ d = [i \in 1 .. Resolution |-> d[i]]
      BY DEF SortCodes
    <3> QED  BY <3>1, <1>3
  <2>2. PICK i \in T : \A j \in T : i <= j
    <3>1. T \in SUBSET Nat  OBVIOUS
    <3> QED  BY <3>1, <2>1, LeastNumber
  <2>3. \A j \in 1 .. i - 1 : c[j] = d[j]
    <3> SUFFICES ASSUME NEW j \in 1 .. i - 1 PROVE c[j] = d[j]  OBVIOUS
    <3>1. j \in 1 .. Resolution /\ ~ (i <= j)  OBVIOUS
    <3> QED  BY <3>1, <2>2
  <2>4. i \in 1 .. Resolution /\ c[i] # d[i]  OBVIOUS
  <2>5. c[i] \in Nat /\ d[i] \in Nat  BY <2>4 DEF SortCodes
  <2>6. c[i] < d[i] \/ d[i] < c[i]  BY <2>4, <2>5
  <2>7. \A j \in 1 .. i - 1 : d[j] = c[j]  BY <2>3
  <2> QED  BY <2>3, <2>4, <2>6, <2>7 DEF Before
<1> QED  BY <1>1, <1>2, <1>3

(* The order is transitive.                                                *)
LEMMA OrderedOn ==
  ASSUME NEW c \in SortCodes, NEW d \in SortCodes, NEW e \in SortCodes,
         Before(c, d), Before(d, e)
  PROVE  Before(c, e)
<1> USE BoundsAssumption
<1>1. PICK i \in 1 .. Resolution : c[i] < d[i] /\ \A k \in 1 .. i - 1 : c[k] = d[k]
  BY DEF Before
<1>2. PICK j \in 1 .. Resolution : d[j] < e[j] /\ \A k \in 1 .. j - 1 : d[k] = e[k]
  BY DEF Before
<1>3. \A k \in 1 .. Resolution : c[k] \in Nat /\ d[k] \in Nat /\ e[k] \in Nat
  BY DEF SortCodes
<1>4. CASE i <= j
  <2>1. d[i] <= e[i]
    <3>1. CASE i = j  BY <3>1, <1>2, <1>3
    <3>2. CASE i < j
      <4>1. i \in 1 .. j - 1  BY <3>2
      <4> QED  BY <4>1, <1>2, <1>3
    <3> QED  BY <3>1, <3>2, <1>4
  <2>2. c[i] < e[i]
    BY <2>1, <1>1, <1>3
  <2>3. ASSUME NEW k \in 1 .. i - 1 PROVE c[k] = e[k]
    <3>1. k \in 1 .. j - 1  BY <1>4
    <3> QED  BY <3>1, <1>1, <1>2
  <2> QED  BY <2>2, <2>3 DEF Before
<1>5. CASE j < i
  <2>1. j \in 1 .. i - 1  BY <1>5
  <2>2. c[j] < e[j]
    BY <2>1, <1>1, <1>2
  <2>3. ASSUME NEW k \in 1 .. j - 1 PROVE c[k] = e[k]
    <3>1. k \in 1 .. i - 1  BY <1>5
    <3> QED  BY <3>1, <1>1, <1>2
  <2> QED  BY <2>2, <2>3 DEF Before
<1> QED  BY <1>4, <1>5

---------------------------------------------------------------------------
(* Trees.  N are the entries, K their sort codes and S their spans.        *)

NodeOn(N) == [branch : [Side -> N \cup {VACANT}], colour : {"red", "black"}]
Trees(N) == [root : N \cup {VACANT}, node : [N -> NodeOn(N)]]

\* c lies on side s of d.
Lies(s, c, d) == IF s = 0 THEN Before(c, d) ELSE Before(d, c)

IsData(N, K) == VACANT \notin N /\ IsFiniteSet(N) /\ K \in [N -> SortCodes]

Spans(t, N, S) ==
  /\ S \in [N \cup {VACANT} -> SUBSET N]
  /\ S[VACANT] = {}
  /\ \A x \in N : S[x] = {x} \cup S[Child(t, x, 0)] \cup S[Child(t, x, 1)]
  /\ S[t.root] = N

Sorted(t, N, K, S) ==
  \A x \in N, s \in Side : \A y \in S[Child(t, x, s)] : Lies(s, K[y], K[x])

IsTree(t, N, K, S) ==
  IsData(N, K) /\ t \in Trees(N) /\ Spans(t, N, S) /\ Sorted(t, N, K, S)

(* The order as a relation of entries.                                     *)
LEMMA LiesOrder ==
  ASSUME NEW s \in Side, NEW c \in SortCodes, NEW d \in SortCodes
  PROVE  /\ 1 - s \in Side /\ 1 - (1 - s) = s /\ s # 1 - s
         /\ Lies(1 - s, d, c) = Lies(s, c, d)
         /\ ~ Lies(s, c, c)
         /\ Lies(s, c, d) => ~ Lies(s, d, c) /\ c # d
         /\ c # d => Lies(s, c, d) \/ Lies(1 - s, c, d)
         /\ \A e \in SortCodes : Lies(s, c, d) /\ Lies(s, d, e) => Lies(s, c, e)
<1>1. s = 0 \/ s = 1  BY DEF Side
<1>2. 1 - s \in Side /\ 1 - (1 - s) = s /\ s # 1 - s  BY <1>1 DEF Side
<1>3. /\ ~ Before(c, c)
      /\ Before(c, d) => ~ Before(d, c)
      /\ Before(d, c) => ~ Before(c, d)
      /\ c # d => Before(c, d) \/ Before(d, c)
  BY StrictOrder
<1>4. /\ Lies(0, c, d) = Before(c, d) /\ Lies(1, c, d) = Before(d, c)
      /\ Lies(0, d, c) = Before(d, c) /\ Lies(1, d, c) = Before(c, d)
      /\ Lies(0, c, c) = Before(c, c) /\ Lies(1, c, c) = Before(c, c)
  BY DEF Lies, Before
<1>5. ASSUME NEW e \in SortCodes, Lies(s, c, d), Lies(s, d, e) PROVE Lies(s, c, e)
  <2>1. Before(c, d) /\ Before(d, e) => Before(c, e)  BY OrderedOn
  <2>2. Before(e, d) /\ Before(d, c) => Before(e, c)  BY OrderedOn
  <2>3. CASE s = 0  BY <2>3, <2>1, <1>5 DEF Lies
  <2>4. CASE s = 1  BY <2>4, <2>2, <1>5 DEF Lies
  <2> QED  BY <1>1, <2>3, <2>4
<1>6. CASE s = 0  BY <1>6, <1>2, <1>3, <1>4, <1>5
<1>7. CASE s = 1  BY <1>7, <1>2, <1>3, <1>4, <1>5
<1> QED  BY <1>1, <1>6, <1>7

(* What the spans of a tree say about each other.                          *)
LEMMA TreeFacts ==
  ASSUME NEW t, NEW N, NEW K, NEW S, IsTree(t, N, K, S), NEW x \in N
  PROVE  /\ S[VACANT] = {} /\ S[t.root] = N /\ t.root \in N \cup {VACANT}
         /\ S[x] \subseteq N /\ x \in S[x] /\ x # VACANT
         /\ K[x] \in SortCodes
         /\ \A s \in Side :
              /\ Child(t, x, s) \in N \cup {VACANT}
              /\ S[Child(t, x, s)] \subseteq S[x]
              /\ x \notin S[Child(t, x, s)]
              /\ \A y \in S[Child(t, x, s)] : Lies(s, K[y], K[x]) /\ y \in N
              /\ \A y \in S[x] :
                   y # x => y \in S[Child(t, x, s)] \/ y \in S[Child(t, x, 1 - s)]
              /\ S[Child(t, x, s)] \cap S[Child(t, x, 1 - s)] = {}
<1> USE DEF IsTree
<1>1. /\ S[VACANT] = {} /\ S[t.root] = N /\ x # VACANT
      /\ S \in [N \cup {VACANT} -> SUBSET N]
      /\ S[x] = {x} \cup S[Child(t, x, 0)] \cup S[Child(t, x, 1)]
      /\ K[x] \in SortCodes
  BY DEF Spans, IsData
<1>2. t.root \in N \cup {VACANT}  BY DEF Trees
<1>3. S[x] \subseteq N  BY <1>1
<1>4. ASSUME NEW s \in Side
      PROVE  /\ Child(t, x, s) \in N \cup {VACANT}
             /\ S[Child(t, x, s)] \subseteq S[x]
             /\ x \notin S[Child(t, x, s)]
             /\ \A y \in S[Child(t, x, s)] : Lies(s, K[y], K[x]) /\ y \in N
             /\ \A y \in S[x] :
                  y # x => y \in S[Child(t, x, s)] \/ y \in S[Child(t, x, 1 - s)]
             /\ S[Child(t, x, s)] \cap S[Child(t, x, 1 - s)] = {}
  <2>1. s = 0 \/ s = 1  BY DEF Side
  <2>2. t.node[x] \in NodeOn(N)  BY DEF Trees
  <2>3. Child(t, x, s) \in N \cup {VACANT}  BY <2>2 DEF NodeOn, Child
  <2>4. S[Child(t, x, s)] \subseteq S[x]  BY <2>1, <1>1
  <2>5. \A y \in S[Child(t, x, s)] : Lies(s, K[y], K[x]) /\ y \in N
    BY <2>4, <1>3 DEF Sorted
  <2>6. x \notin S[Child(t, x, s)]
    BY <2>5, <1>1, LiesOrder
  <2>7. \A y \in S[x] :
           y # x => y \in S[Child(t, x, s)] \/ y \in S[Child(t, x, 1 - s)]
    <3>1. CASE s = 0
      <4>1. 1 - s = 1  BY <3>1
      <4> QED  BY <4>1, <3>1, <1>1
    <3>2. CASE s = 1
      <4>1. 1 - s = 0  BY <3>2
      <4> QED  BY <4>1, <3>2, <1>1
    <3> QED  BY <2>1, <3>1, <3>2
  <2>8. ASSUME NEW y, y \in S[Child(t, x, s)], y \in S[Child(t, x, 1 - s)]
        PROVE  FALSE
    <3>1. 1 - s \in Side  BY <1>1, LiesOrder
    <3>2. Lies(s, K[y], K[x]) /\ y \in N  BY <2>5, <2>8
    <3>3. Lies(1 - s, K[y], K[x])  BY <3>1, <2>8 DEF Sorted
    <3>4. K[y] \in SortCodes  BY <3>2 DEF IsData
    <3>5. Lies(1 - s, K[y], K[x]) = Lies(s, K[x], K[y])  BY <3>4, <1>1, LiesOrder
    <3>6. Lies(s, K[y], K[x]) => ~ Lies(s, K[x], K[y])  BY <3>4, <1>1, LiesOrder
    <3> QED  BY <3>2, <3>3, <3>5, <3>6
  <2> QED  BY <2>3, <2>4, <2>5, <2>6, <2>7, <2>8
<1>5. x \in S[x]  BY <1>1
<1> QED  BY <1>1, <1>2, <1>3, <1>4, <1>5

(* Every set of entries has one whose branches are outside of it.          *)
LEMMA Lowest ==
  ASSUME NEW t, NEW N, NEW K, NEW S, IsTree(t, N, K, S), NEW B \in SUBSET N, B # {}
  PROVE  \E x \in B : \A s \in Side : Child(t, x, s) \notin B
<1> DEFINE T == {Cardinality(S[x]) : x \in B}
<1>1. \A x \in B : IsFiniteSet(S[x]) /\ Cardinality(S[x]) \in Nat
  <2> SUFFICES ASSUME NEW x \in B
               PROVE  IsFiniteSet(S[x]) /\ Cardinality(S[x]) \in Nat
    OBVIOUS
  <2>1. IsFiniteSet(N)  BY DEF IsTree, IsData
  <2>2. S[x] \in SUBSET N  BY TreeFacts
  <2>3. IsFiniteSet(S[x])  BY <2>1, <2>2, FS_Subset
  <2> QED  BY <2>3, FS_CardinalityType
<1>2. PICK n \in T : \A m \in T : n <= m
  <2>1. T \in SUBSET Nat  BY <1>1
  <2>2. T # {}  OBVIOUS
  <2> HIDE DEF T
  <2> QED  BY <2>1, <2>2, LeastNumber
<1>3. PICK x \in B : n = Cardinality(S[x])  OBVIOUS
<1>4. ASSUME NEW s \in Side, Child(t, x, s) \in B PROVE FALSE
  <2> DEFINE c == Child(t, x, s)
  <2>1. S[c] \in SUBSET S[x] /\ x \in S[x] /\ x \notin S[c]
    BY TreeFacts
  <2>2. Cardinality(S[c]) <= Cardinality(S[x]) /\ Cardinality(S[x]) # Cardinality(S[c])
    <3> HIDE DEF c
    <3> QED  BY <2>1, <1>1, FS_Subset
  <2>3. Cardinality(S[c]) \in T  BY <1>4
  <2> QED  BY <2>2, <2>3, <1>1, <1>2, <1>3, <1>4
<1> QED  BY <1>4

(* Two functions that agree on an entry when they agree on its branches    *)
(* are the same.                                                           *)
LEMMA SameOnTree ==
  ASSUME NEW t, NEW N, NEW K, NEW S, IsTree(t, N, K, S), NEW f, NEW h,
         f[VACANT] = h[VACANT],
         \A x \in N : (\A s \in Side : f[Child(t, x, s)] = h[Child(t, x, s)]) => f[x] = h[x]
  PROVE  \A x \in N \cup {VACANT} : f[x] = h[x]
<1> DEFINE B == {x \in N : f[x] # h[x]}
<1>1. ASSUME B # {} PROVE FALSE
  <2>1. PICK x \in B : \A s \in Side : Child(t, x, s) \notin B
    BY <1>1, Lowest
  <2>2. \A s \in Side : Child(t, x, s) \in N \cup {VACANT}
    BY TreeFacts
  <2>3. \A s \in Side : f[Child(t, x, s)] = h[Child(t, x, s)]
    BY <2>1, <2>2
  <2> QED  BY <2>3
<1> QED  BY <1>1

(* Spans are nested.                                                       *)
LEMMA Nested ==
  ASSUME NEW t, NEW N, NEW K, NEW S, IsTree(t, N, K, S), NEW x \in N, NEW y \in S[x]
  PROVE  y \in N /\ S[y] \subseteq S[x]
<1> DEFINE B == {z \in N : \E u \in S[z] : ~ (S[u] \subseteq S[z])}
<1>1. ASSUME B # {} PROVE FALSE
  <2>1. PICK z \in B : \A s \in Side : Child(t, z, s) \notin B
    BY <1>1, Lowest
  <2>2. PICK u \in S[z] : ~ (S[u] \subseteq S[z])
    BY <2>1
  <2>3. u # z  BY <2>2
  <2>4. 0 \in Side /\ 1 - 0 \in Side  BY DEF Side
  <2>5. PICK s \in Side : u \in S[Child(t, z, s)]
    BY <2>2, <2>3, <2>4, TreeFacts
  <2>6. Child(t, z, s) \in N \cup {VACANT} /\ S[Child(t, z, s)] \subseteq S[z] /\ S[VACANT] = {}
    BY TreeFacts
  <2>7. Child(t, z, s) \in N  BY <2>5, <2>6
  <2>8. S[u] \subseteq S[Child(t, z, s)]  BY <2>1, <2>5, <2>7
  <2> QED  BY <2>2, <2>6, <2>8
<1>2. y \in N  BY TreeFacts
<1> QED  BY <1>1, <1>2

(* Two entries meet: there is one that spans both, and no branch of which  *)
(* does.                                                                   *)
LEMMA Meet ==
  ASSUME NEW t, NEW N, NEW K, NEW S, IsTree(t, N, K, S), NEW x \in N, NEW y \in N
  PROVE  \E z \in N :
           /\ x \in S[z] /\ y \in S[z]
           /\ \/ z = x \/ z = y
              \/ \E s \in Side : x \in S[Child(t, z, s)] /\ y \in S[Child(t, z, 1 - s)]
<1> DEFINE B == {z \in N : x \in S[z] /\ y \in S[z]}
<1>1. B # {}
  <2>1. S[t.root] = N /\ t.root \in N \cup {VACANT} /\ S[VACANT] = {}
    BY TreeFacts
  <2> QED  BY <2>1
<1>2. PICK z \in B : \A s \in Side : Child(t, z, s) \notin B
  BY <1>1, Lowest
<1>3. ASSUME z # x, z # y
      PROVE  \E s \in Side : x \in S[Child(t, z, s)] /\ y \in S[Child(t, z, 1 - s)]
  <2>1. 0 \in Side /\ 1 - 0 \in Side /\ 1 - (1 - 0) = 0  BY DEF Side
  <2>2. \A s \in Side : \A v \in S[z] :
           v # z => v \in S[Child(t, z, s)] \/ v \in S[Child(t, z, 1 - s)]
    BY TreeFacts
  <2>3. PICK s \in Side : x \in S[Child(t, z, s)]
    BY <1>3, <2>1, <2>2
  <2>4. Child(t, z, s) \in N \cup {VACANT} /\ S[VACANT] = {}  BY TreeFacts
  <2>5. y \notin S[Child(t, z, s)]
    BY <2>3, <2>4, <1>2
  <2> QED  BY <2>2, <2>3, <2>5, <1>3
<1> QED  BY <1>2, <1>3

(* An entry below another does not span it.                                *)
LEMMA NoCycle ==
  ASSUME NEW t, NEW N, NEW K, NEW S, IsTree(t, N, K, S), NEW x \in N, NEW s \in Side,
         NEW y \in S[Child(t, x, s)]
  PROVE  /\ Child(t, x, s) \in N /\ y \in N /\ y # x
         /\ S[y] \subseteq S[Child(t, x, s)] /\ x \notin S[y]
<1>1. /\ Child(t, x, s) \in N \cup {VACANT} /\ S[VACANT] = {}
      /\ x \notin S[Child(t, x, s)]
  BY TreeFacts
<1>2. Child(t, x, s) \in N  BY <1>1
<1>3. y \in N /\ S[y] \subseteq S[Child(t, x, s)]  BY <1>2, Nested
<1> QED  BY <1>1, <1>2, <1>3

(* A span lies on one side of every entry outside of it.                   *)
LEMMA OnOneSide ==
  ASSUME NEW t, NEW N, NEW K, NEW S, IsTree(t, N, K, S), NEW x \in N, NEW y \in N,
         y \notin S[x]
  PROVE  \E s \in Side : \A v \in S[x] : v \in N /\ Lies(s, K[v], K[y])
<1>1. PICK z \in N :
        /\ x \in S[z] /\ y \in S[z]
        /\ \/ z = x \/ z = y
           \/ \E s \in Side : x \in S[Child(t, z, s)] /\ y \in S[Child(t, z, 1 - s)]
  BY Meet
<1>2. CASE z = x  BY <1>1, <1>2
<1>3. CASE z = y
  <2>1. x # y  BY TreeFacts
  <2>2. 0 \in Side /\ 1 - 0 \in Side  BY DEF Side
  <2>3. PICK s \in Side : x \in S[Child(t, y, s)]
    BY <1>1, <1>3, <2>1, <2>2, TreeFacts
  <2>4. S[x] \subseteq S[Child(t, y, s)]  BY <2>3, NoCycle
  <2>5. \A v \in S[Child(t, y, s)] : v \in N /\ Lies(s, K[v], K[y])
    BY TreeFacts
  <2> QED  BY <2>4, <2>5
<1>4. ASSUME NEW s \in Side, x \in S[Child(t, z, s)], y \in S[Child(t, z, 1 - s)]
      PROVE  \A v \in S[x] : v \in N /\ Lies(s, K[v], K[y])
  <2>1. S[x] \subseteq S[Child(t, z, s)]  BY <1>4, NoCycle
  <2>2. \A v \in S[Child(t, z, s)] : v \in N /\ Lies(s, K[v], K[z])  BY TreeFacts
  <2>3. K[z] \in SortCodes /\ K[y] \in SortCodes  BY TreeFacts
  <2>4. 1 - s \in Side  BY DEF Side
  <2>5. Lies(1 - s, K[y], K[z])  BY <2>4, <1>4, TreeFacts
  <2>6. Lies(s, K[z], K[y])  BY <2>3, <2>5, LiesOrder
  <2>7. ASSUME NEW v \in S[x] PROVE v \in N /\ Lies(s, K[v], K[y])
    <3>1. v \in N /\ Lies(s, K[v], K[z])  BY <2>1, <2>2
    <3>2. K[v] \in SortCodes  BY <3>1, TreeFacts
    <3>3. \A e \in SortCodes : Lies(s, K[v], K[z]) /\ Lies(s, K[z], e) => Lies(s, K[v], e)
      BY <3>2, <2>3, LiesOrder
    <3> QED  BY <3>1, <3>3, <2>3, <2>6
  <2> QED  BY <2>7
<1> QED  BY <1>1, <1>2, <1>3, <1>4

(* An entry hangs from one branch, the root from none.                     *)
LEMMA OneParent ==
  ASSUME NEW t, NEW N, NEW K, NEW S, IsTree(t, N, K, S),
         NEW x \in N, NEW s \in Side, Child(t, x, s) \in N
  PROVE  /\ Child(t, x, s) # t.root
         /\ Child(t, x, s) # x
         /\ \A y \in N, u \in Side : Child(t, y, u) = Child(t, x, s) => y = x /\ u = s
<1> DEFINE c == Child(t, x, s)
<1>1. c \in S[c] /\ x \notin S[c] /\ x \in N  BY TreeFacts
<1>2. c # t.root  BY <1>1, TreeFacts
<1>3. c # x  BY <1>1
<1>4. ASSUME NEW y \in N, NEW u \in Side, Child(t, y, u) = c PROVE y = x /\ u = s
  <2>1. y \notin S[c] /\ c \in S[x] /\ c \in S[y]
    BY <1>1, <1>4, TreeFacts
  <2>2. PICK z \in N :
          /\ x \in S[z] /\ y \in S[z]
          /\ \/ z = x \/ z = y
             \/ \E v \in Side : x \in S[Child(t, z, v)] /\ y \in S[Child(t, z, 1 - v)]
    BY Meet
  <2>3. ASSUME NEW v \in Side, x \in S[Child(t, z, v)], y \in S[Child(t, z, 1 - v)]
        PROVE  FALSE
    <3>1. 1 - v \in Side  BY DEF Side
    <3>2. S[x] \subseteq S[Child(t, z, v)]  BY <2>3, NoCycle
    <3>3. S[y] \subseteq S[Child(t, z, 1 - v)]  BY <2>3, <3>1, NoCycle
    <3>4. S[Child(t, z, v)] \cap S[Child(t, z, 1 - v)] = {}  BY TreeFacts
    <3> QED  BY <3>2, <3>3, <3>4, <2>1
  <2>4. ASSUME NEW a \in N, NEW b \in N, NEW i \in Side, Child(t, a, i) = c,
               b \in S[a], a # b, c \in S[b], b \notin S[c]
        PROVE  FALSE
    <3>1. 1 - i \in Side /\ 1 - (1 - i) = i  BY DEF Side
    <3>2. b \in S[Child(t, a, 1 - i)]
      BY <2>4, TreeFacts
    <3>3. S[b] \subseteq S[Child(t, a, 1 - i)]  BY <3>1, <3>2, NoCycle
    <3>4. S[Child(t, a, i)] \cap S[Child(t, a, 1 - i)] = {}  BY TreeFacts
    <3> QED  BY <3>3, <3>4, <2>4, <1>1
  <2>5. x = y
    <3>1. CASE z = x
      <4> SUFFICES ASSUME x # y PROVE FALSE  OBVIOUS
      <4> QED  BY <3>1, <2>1, <2>2, <2>4
    <3>2. CASE z = y
      <4> SUFFICES ASSUME x # y PROVE FALSE  OBVIOUS
      <4> HIDE DEF c
      <4>1. Child(t, y, u) = c  BY <1>4
      <4> QED  BY <3>2, <4>1, <1>1, <2>1, <2>2, <2>4
    <3> QED  BY <2>2, <2>3, <3>1, <3>2
  <2>6. u = s
    <3> SUFFICES ASSUME u # s PROVE FALSE  OBVIOUS
    <3>1. u = 1 - s  BY DEF Side
    <3>2. S[Child(t, x, s)] \cap S[Child(t, x, 1 - s)] = {}  BY TreeFacts
    <3> QED  BY <3>1, <3>2, <2>5, <1>1, <1>4
  <2> QED  BY <2>5, <2>6
<1> QED  BY <1>2, <1>3, <1>4

(* The entries of a tree have different words.                             *)
LEMMA Distinct ==
  ASSUME NEW t, NEW N, NEW K, NEW S, IsTree(t, N, K, S), NEW x \in N, NEW y \in N,
         K[x] = K[y]
  PROVE  x = y
<1> SUFFICES ASSUME x # y PROVE FALSE  OBVIOUS
<1>1. K[x] \in SortCodes /\ K[y] \in SortCodes /\ x \in S[x]  BY TreeFacts
<1>2. \A s \in Side : ~ Lies(s, K[x], K[y])  BY <1>1, LiesOrder
<1>3. CASE x \in S[y]
  <2>1. 0 \in Side /\ 1 - 0 \in Side  BY DEF Side
  <2>2. PICK s \in Side : x \in S[Child(t, y, s)]  BY <1>3, <2>1, TreeFacts
  <2>3. Lies(s, K[x], K[y])  BY <2>2, TreeFacts
  <2> QED  BY <2>3, <1>2
<1>4. CASE x \notin S[y]
  <2>1. \E s \in Side : \A v \in S[y] : v \in N /\ Lies(s, K[v], K[x])
    BY <1>4, OnOneSide
  <2>2. y \in S[y]  BY TreeFacts
  <2>3. \A s \in Side : ~ Lies(s, K[y], K[x])  BY <1>1, LiesOrder
  <2> QED  BY <2>1, <2>2, <2>3
<1> QED  BY <1>3, <1>4

---------------------------------------------------------------------------
(* dictionary_find.                                                        *)

\* The entry of a word among some entries.
Holder(A, K, word) ==
  IF \E n \in A : K[n] = word THEN CHOOSE n \in A : K[n] = word ELSE VACANT

(* In every tree of the entries, dictionary_find gives the entry of a word *)
(* if there is one, and VACANT if not.                                     *)
LEMMA Finds ==
  ASSUME NEW t, NEW S, IsTree(t, Entries, codes, S), NEW word \in SortCodes
  PROVE  dictionary_find(t, word) = Holder(Entries, codes, word)
<1> DEFINE N == Entries
           D == N \cup {VACANT}
           below(f, x) ==
             IF x = VACANT \/ word = codes[x] THEN x
             ELSE f[Child(t, x, IF Before(word, codes[x]) THEN 0 ELSE 1)]
           h == [x \in D |-> Holder(S[x], codes, word)]
           found == CHOOSE f : f = [x \in D |-> below(f, x)]
<1>1. /\ DOMAIN t.node = N /\ VACANT \notin N
  BY DEF IsTree, IsData, Trees
<1>2. /\ S[VACANT] = {} /\ S[t.root] = N /\ t.root \in D
  BY DEF IsTree, Spans, Trees
<1>3. dictionary_find(t, word) = found[t.root]
  BY <1>1 DEF dictionary_find
<1>4. ASSUME NEW x \in N PROVE Holder(S[x], codes, word) = below(h, x)
  <2>0. x \in S[x] /\ S[x] \subseteq N /\ codes[x] \in SortCodes /\ x # VACANT
    BY TreeFacts
  <2>1. CASE word = codes[x]
    <3>1. \A n \in S[x] : codes[n] = word => n = x
      BY <2>0, <2>1, Distinct
    <3>2. (CHOOSE n \in S[x] : codes[n] = word) = x
      BY <2>0, <2>1, <3>1
    <3>3. \E n \in S[x] : codes[n] = word  BY <2>0, <2>1
    <3>4. Holder(S[x], codes, word) = x  BY <3>2, <3>3 DEF Holder
    <3> QED  BY <3>4, <2>1
  <2>2. CASE word # codes[x]
    <3> DEFINE s == IF Before(word, codes[x]) THEN 0 ELSE 1
               c == Child(t, x, s)
    <3>1. s \in Side /\ 1 - s \in Side  BY DEF Side
    <3>2. c \in D /\ S[c] \subseteq S[x]  BY <3>1, TreeFacts
    <3>3. ASSUME NEW n \in S[x], codes[n] = word PROVE n \in S[c]
      <4>1. n # x  BY <2>2, <3>3
      <4>2. ~ Lies(1 - s, word, codes[x])
        <5>1. Before(word, codes[x]) => ~ Before(codes[x], word)  BY <2>0, StrictOrder
        <5>2. CASE Before(word, codes[x])
          <6>1. 1 - s = 1  BY <5>2
          <6> QED  BY <6>1, <5>1, <5>2 DEF Lies
        <5>3. CASE ~ Before(word, codes[x])
          <6>1. 1 - s = 0  BY <5>3
          <6> QED  BY <6>1, <5>3 DEF Lies
        <5> QED  BY <5>2, <5>3
      <4>3. n \notin S[Child(t, x, 1 - s)]
        <5> HIDE DEF s
        <5> QED  BY <3>1, <3>3, <4>2, TreeFacts
      <4> HIDE DEF s
      <4> QED  BY <3>1, <4>1, <4>3, TreeFacts
    <3>4. {n \in S[x] : codes[n] = word} = {n \in S[c] : codes[n] = word}
      <4> HIDE DEF c
      <4> QED  BY <3>2, <3>3
    <3>5. Holder(S[x], codes, word) = Holder(S[c], codes, word)
      <4> HIDE DEF c
      <4>1. \A n : (n \in S[x] /\ codes[n] = word) = (n \in S[c] /\ codes[n] = word)
        BY <3>4
      <4>2. (CHOOSE n : n \in S[x] /\ codes[n] = word) = (CHOOSE n : n \in S[c] /\ codes[n] = word)
        BY <4>1
      <4> QED  BY <4>1, <4>2 DEF Holder
    <3>6. h[c] = Holder(S[c], codes, word)
      <4> HIDE DEF c
      <4> QED  BY <3>2
    <3>7. below(h, x) = h[c]  BY <2>0, <2>2
    <3> QED  BY <3>5, <3>6, <3>7
  <2> QED  BY <2>1, <2>2
<1>5. h[VACANT] = VACANT
  BY <1>2 DEF Holder
<1>6. h = [x \in D |-> below(h, x)]
  <2>1. ASSUME NEW x \in D PROVE h[x] = below(h, x)
    <3>1. CASE x = VACANT  BY <3>1, <1>5
    <3>2. CASE x \in N  BY <3>2, <1>4
    <3> QED  BY <3>1, <3>2
  <2> HIDE DEF below, h
  <2>2. h = [x \in D |-> h[x]]  BY DEF h
  <2> QED  BY <2>1, <2>2
<1>7. found = [x \in D |-> below(found, x)]
  <2> HIDE DEF below, h
  <2> QED  BY <1>6
<1>8. \A x \in D : found[x] = h[x]
  <2>1. \A x \in D : found[x] = below(found, x)
    <3> HIDE DEF below, found
    <3> QED  BY <1>7
  <2>2. \A x \in D : h[x] = below(h, x)
    <3> HIDE DEF below, h
    <3> QED  BY <1>6
  <2>3. found[VACANT] = h[VACANT]
    <3>1. VACANT \in D  OBVIOUS
    <3>2. found[VACANT] = below(found, VACANT)
      <4> HIDE DEF found, below
      <4> QED  BY <3>1, <2>1
    <3>3. below(found, VACANT) = VACANT  OBVIOUS
    <3> QED  BY <3>2, <3>3, <1>5
  <2>4. ASSUME NEW x \in N, \A s \in Side : found[Child(t, x, s)] = h[Child(t, x, s)]
        PROVE  found[x] = h[x]
    <3>1. 0 \in Side /\ 1 \in Side  BY DEF Side
    <3>2. below(found, x) = below(h, x)
      <4> HIDE DEF found, h
      <4> QED  BY <3>1, <2>4
    <3> HIDE DEF found, h, below
    <3> QED  BY <2>1, <2>2, <3>2
  <2> HIDE DEF found, h, below
  <2> QED  BY <2>3, <2>4, SameOnTree
<1>9. h[t.root] = Holder(N, codes, word)  BY <1>2
<1> HIDE DEF found, h
<1> QED  BY <1>2, <1>3, <1>8, <1>9

---------------------------------------------------------------------------
(* recursively_sort.                                                       *)

\* How many entries of A have smaller words than y.
Rank(A, K, y) == Cardinality({z \in A : Before(K[z], K[y])})

\* The entries of A in the order of their words.
InOrder(A, K) == [i \in 1 .. Cardinality(A) |-> CHOOSE y \in A : Rank(A, K, y) = i - 1]

(* Different words that are finitely many have ranks from 0 on.            *)
LEMMA Ranks ==
  ASSUME NEW A, IsFiniteSet(A), NEW K, \A x \in A : K[x] \in SortCodes,
         \A x \in A, y \in A : K[x] = K[y] => x = y
  PROVE  /\ Cardinality(A) \in Nat
         /\ \A y \in A : Rank(A, K, y) \in 0 .. Cardinality(A) - 1
         /\ \A x \in A, y \in A : Rank(A, K, x) = Rank(A, K, y) => x = y
         /\ \A i \in 1 .. Cardinality(A) : \E y \in A : Rank(A, K, y) = i - 1
<1> DEFINE smaller(y) == {z \in A : Before(K[z], K[y])}
<1>1. Cardinality(A) \in Nat  BY FS_CardinalityType
<1>2. \A y : IsFiniteSet(smaller(y)) /\ Cardinality(smaller(y)) \in Nat
  <2> SUFFICES ASSUME NEW y PROVE IsFiniteSet(smaller(y)) /\ Cardinality(smaller(y)) \in Nat
    OBVIOUS
  <2>1. smaller(y) \in SUBSET A  OBVIOUS
  <2> HIDE DEF smaller
  <2>2. IsFiniteSet(smaller(y))  BY <2>1, FS_Subset
  <2> QED  BY <2>2, FS_CardinalityType
<1>3. ASSUME NEW y \in A PROVE Rank(A, K, y) \in 0 .. Cardinality(A) - 1
  <2>1. y \notin smaller(y)  BY StrictOrder
  <2>2. smaller(y) \in SUBSET A  OBVIOUS
  <2>3. Cardinality(smaller(y)) <= Cardinality(A) /\ Cardinality(smaller(y)) # Cardinality(A)
    <3> HIDE DEF smaller
    <3> QED  BY <2>1, <2>2, FS_Subset
  <2>4. Rank(A, K, y) = Cardinality(smaller(y))  BY DEF Rank
  <2> HIDE DEF smaller
  <2> QED  BY <1>1, <1>2, <2>3, <2>4
<1>4. ASSUME NEW x \in A, NEW y \in A, Before(K[x], K[y])
      PROVE  Rank(A, K, x) # Rank(A, K, y)
  <2>1. smaller(x) \in SUBSET smaller(y)
    <3> SUFFICES ASSUME NEW z \in A, Before(K[z], K[x]) PROVE Before(K[z], K[y])  OBVIOUS
    <3> QED  BY <1>4, OrderedOn
  <2>2. x \in smaller(y)  BY <1>4
  <2>3. x \notin smaller(x)  BY StrictOrder
  <2>4. Rank(A, K, x) = Cardinality(smaller(x)) /\ Rank(A, K, y) = Cardinality(smaller(y))
    BY DEF Rank
  <2> HIDE DEF smaller
  <2> QED  BY <1>2, <2>1, <2>2, <2>3, <2>4, FS_Subset
<1>5. ASSUME NEW x \in A, NEW y \in A, Rank(A, K, x) = Rank(A, K, y) PROVE x = y
  <2>1. K[x] # K[y] => Before(K[x], K[y]) \/ Before(K[y], K[x])  BY StrictOrder
  <2> QED  BY <2>1, <1>4, <1>5
<1>6. ASSUME NEW i \in 1 .. Cardinality(A) PROVE \E y \in A : Rank(A, K, y) = i - 1
  <2> DEFINE T == 0 .. Cardinality(A) - 1
             f == [y \in A |-> Rank(A, K, y)]
  <2>1. IsFiniteSet(T) /\ Cardinality(T) = Cardinality(A)
    <3> DEFINE b == Cardinality(A) - 1
    <3>1. b \in Int /\ 0 \in Int  BY <1>1
    <3>2. /\ IsFiniteSet(0 .. b)
          /\ Cardinality(0 .. b) = IF 0 > b THEN 0 ELSE b - 0 + 1
      <4> HIDE DEF b
      <4> QED  BY <3>1, FS_Interval
    <3> QED  BY <1>1, <3>2
  <2>2. f \in Injection(A, T)
    BY <1>3, <1>5 DEF Injection, IsInjective
  <2>3. f \in Surjection(A, T)
    <3> HIDE DEF f, T
    <3> QED  BY <2>1, <2>2, FS_Injection
  <2>4. i - 1 \in T  BY <1>1
  <2>5. \E y \in A : f[y] = i - 1
    <3> HIDE DEF f, T
    <3> QED  BY <2>3, <2>4 DEF Surjection
  <2> QED  BY <2>5
<1> QED  BY <1>1, <1>3, <1>5, <1>6

(* What the order of entries holds at each place.                          *)
LEMMA Places ==
  ASSUME NEW A, IsFiniteSet(A), NEW K, \A x \in A : K[x] \in SortCodes,
         \A x \in A, y \in A : K[x] = K[y] => x = y
  PROVE  /\ InOrder(A, K) \in Seq(A) /\ Len(InOrder(A, K)) = Cardinality(A)
         /\ \A i \in 1 .. Cardinality(A), y \in A :
              (InOrder(A, K)[i] = y) = (Rank(A, K, y) = i - 1)
<1>1. /\ Cardinality(A) \in Nat
      /\ \A x \in A, y \in A : Rank(A, K, x) = Rank(A, K, y) => x = y
      /\ \A i \in 1 .. Cardinality(A) : \E y \in A : Rank(A, K, y) = i - 1
  BY Ranks
<1>2. ASSUME NEW i \in 1 .. Cardinality(A)
      PROVE  InOrder(A, K)[i] \in A /\ Rank(A, K, InOrder(A, K)[i]) = i - 1
  <2>1. InOrder(A, K)[i] = CHOOSE y \in A : Rank(A, K, y) = i - 1  BY DEF InOrder
  <2> QED  BY <2>1, <1>1
<1>3. InOrder(A, K) \in [1 .. Cardinality(A) -> A]
  BY <1>2 DEF InOrder
<1>4. InOrder(A, K) \in Seq(A) /\ Len(InOrder(A, K)) = Cardinality(A)
  BY <1>1, <1>3
<1> QED  BY <1>1, <1>2, <1>4

\* The entries at or below x in order: those of the first branch, x, and
\* those of the second.
Joined(t, K, S, x) ==
  InOrder(S[x], K) = InOrder(S[Child(t, x, 0)], K) \o <<x>> \o InOrder(S[Child(t, x, 1)], K)

(* Every span of a tree is joined in this way.                             *)
LEMMA InOrderOfSpan ==
  ASSUME NEW t, NEW N, NEW K, NEW S, IsTree(t, N, K, S), NEW x \in N
  PROVE  Joined(t, K, S, x)
<1> SUFFICES InOrder(S[x], K) =
               InOrder(S[Child(t, x, 0)], K) \o <<x>> \o InOrder(S[Child(t, x, 1)], K)
  BY Zenon DEF Joined
<1> DEFINE A == S[x]
           L == S[Child(t, x, 0)]
           R == S[Child(t, x, 1)]
<1>1. /\ x \in N /\ A \subseteq N /\ A = {x} \cup L \cup R
      /\ x \notin L /\ x \notin R /\ L \cap R = {}
  <2>1. 0 \in Side /\ 1 \in Side /\ 1 - 0 = 1  BY DEF Side
  <2>2. A \subseteq N /\ x \notin L /\ x \notin R /\ L \cap R = {}
    BY <2>1, TreeFacts
  <2>3. A = {x} \cup L \cup R  BY DEF IsTree, Spans
  <2> QED  BY <2>2, <2>3
<1>2. /\ \A y \in L : Before(K[y], K[x])
      /\ \A y \in R : Before(K[x], K[y])
  <2>1. 0 \in Side /\ 1 \in Side  BY DEF Side
  <2>2. \A y \in L : Lies(0, K[y], K[x])  BY <2>1, TreeFacts
  <2>3. \A y \in R : Lies(1, K[y], K[x])  BY <2>1, TreeFacts
  <2> QED  BY <2>2, <2>3 DEF Lies
<1>3. \A y \in N : K[y] \in SortCodes  BY TreeFacts
<1>4. \A y \in N, z \in N : K[y] = K[z] => y = z  BY Distinct
<1>5. IsFiniteSet(N)  BY DEF IsTree, IsData
<1> HIDE DEF A, L, R
<1>6. IsFiniteSet(A) /\ IsFiniteSet(L) /\ IsFiniteSet(R)
  BY <1>1, <1>5, FS_Subset
<1>7. /\ Cardinality(L) \in Nat /\ Cardinality(R) \in Nat
      /\ Cardinality(L \cup {x}) = Cardinality(L) + 1
      /\ Cardinality(A) = Cardinality(L) + 1 + Cardinality(R)
  <2>1. Cardinality(L) \in Nat /\ Cardinality(R) \in Nat  BY <1>6, FS_CardinalityType
  <2>2. IsFiniteSet(L \cup {x}) /\ Cardinality(L \cup {x}) = Cardinality(L) + 1
    BY <1>1, <1>6, FS_AddElement
  <2>3. A = (L \cup {x}) \cup R /\ (L \cup {x}) \cap R = {}  BY <1>1
  <2>4. Cardinality((L \cup {x}) \cup R) =
          Cardinality(L \cup {x}) + Cardinality(R) - Cardinality((L \cup {x}) \cap R)
    BY <2>2, <1>6, FS_Union
  <2>5. Cardinality((L \cup {x}) \cap R) = 0  BY <2>3, FS_EmptySet
  <2> QED  BY <2>1, <2>2, <2>3, <2>4, <2>5
<1>8. \A y \in L : Rank(A, K, y) = Rank(L, K, y)
  <2> SUFFICES ASSUME NEW y \in L PROVE Rank(A, K, y) = Rank(L, K, y)  OBVIOUS
  <2>1. Before(K[y], K[x]) /\ y \in N  BY <1>1, <1>2
  <2>2. ~ Before(K[x], K[y])  BY <2>1, <1>3, StrictOrder
  <2>3. \A z \in R : ~ Before(K[z], K[y])
    <3> SUFFICES ASSUME NEW z \in R, Before(K[z], K[y]) PROVE FALSE  OBVIOUS
    <3>1. z \in N /\ Before(K[x], K[z])  BY <1>1, <1>2
    <3>2. Before(K[x], K[y])  BY <3>1, <2>1, <1>3, OrderedOn
    <3> QED  BY <3>2, <2>2
  <2>4. {z \in A : Before(K[z], K[y])} = {z \in L : Before(K[z], K[y])}
    BY <2>2, <2>3, <1>1
  <2> QED  BY <2>4 DEF Rank
<1>9. Rank(A, K, x) = Cardinality(L)
  <2>1. ~ Before(K[x], K[x])  BY <1>1, <1>3, StrictOrder
  <2>2. \A z \in R : ~ Before(K[z], K[x])
    <3> SUFFICES ASSUME NEW z \in R PROVE ~ Before(K[z], K[x])  OBVIOUS
    <3>1. z \in N /\ Before(K[x], K[z])  BY <1>1, <1>2
    <3> QED  BY <3>1, <1>1, <1>3, StrictOrder
  <2>3. {z \in A : Before(K[z], K[x])} = L  BY <2>1, <2>2, <1>1, <1>2
  <2> QED  BY <2>3 DEF Rank
<1>10. \A y \in R : Rank(A, K, y) = Cardinality(L) + 1 + Rank(R, K, y)
  <2> SUFFICES ASSUME NEW y \in R
               PROVE  Rank(A, K, y) = Cardinality(L) + 1 + Rank(R, K, y)
    OBVIOUS
  <2> DEFINE W == {z \in R : Before(K[z], K[y])}
  <2>1. Before(K[x], K[y]) /\ y \in N  BY <1>1, <1>2
  <2>2. \A z \in L : Before(K[z], K[y])
    <3> SUFFICES ASSUME NEW z \in L PROVE Before(K[z], K[y])  OBVIOUS
    <3>1. z \in N /\ Before(K[z], K[x])  BY <1>1, <1>2
    <3> QED  BY <3>1, <2>1, <1>1, <1>3, OrderedOn
  <2>3. {z \in A : Before(K[z], K[y])} = (L \cup {x}) \cup W
    BY <2>1, <2>2, <1>1
  <2>4. W \in SUBSET R  OBVIOUS
  <2>5. Rank(R, K, y) = Cardinality(W)  BY DEF Rank
  <2> HIDE DEF W
  <2>6. IsFiniteSet(W) /\ IsFiniteSet(L \cup {x})
    BY <2>4, <1>6, FS_Subset, FS_AddElement
  <2>7. Cardinality((L \cup {x}) \cup W) =
          Cardinality(L \cup {x}) + Cardinality(W) - Cardinality((L \cup {x}) \cap W)
    BY <2>6, FS_Union
  <2>8. (L \cup {x}) \cap W = {}  BY <2>4, <1>1
  <2>9. Cardinality((L \cup {x}) \cap W) = 0 /\ Cardinality(W) \in Nat
    BY <2>8, <2>6, FS_EmptySet, FS_CardinalityType
  <2>10. Cardinality((L \cup {x}) \cup W) = Cardinality(L) + 1 + Cardinality(W)
    BY <2>7, <2>9, <1>7
  <2>11. Rank(A, K, y) = Cardinality((L \cup {x}) \cup W)
    BY <2>3 DEF Rank
  <2> QED  BY <2>5, <2>10, <2>11
<1> DEFINE IA == InOrder(A, K)
           IL == InOrder(L, K)
           IR == InOrder(R, K)
           nl == Cardinality(L)
           nr == Cardinality(R)
<1>11. /\ IA \in Seq(A) /\ Len(IA) = Cardinality(A)
       /\ \A i \in 1 .. Cardinality(A), y \in A : (IA[i] = y) = (Rank(A, K, y) = i - 1)
  <2>1. /\ \A y \in A : K[y] \in SortCodes
        /\ \A y \in A, z \in A : K[y] = K[z] => y = z
    BY <1>1, <1>3, <1>4
  <2> QED  BY <2>1, <1>6, Places
<1>12. /\ IL \in Seq(L) /\ Len(IL) = nl
       /\ \A i \in 1 .. nl, y \in L : (IL[i] = y) = (Rank(L, K, y) = i - 1)
  <2>1. /\ \A y \in L : K[y] \in SortCodes
        /\ \A y \in L, z \in L : K[y] = K[z] => y = z
    BY <1>1, <1>3, <1>4
  <2> QED  BY <2>1, <1>6, Places
<1>13. /\ IR \in Seq(R) /\ Len(IR) = nr
       /\ \A i \in 1 .. nr, y \in R : (IR[i] = y) = (Rank(R, K, y) = i - 1)
  <2>1. /\ \A y \in R : K[y] \in SortCodes
        /\ \A y \in R, z \in R : K[y] = K[z] => y = z
    BY <1>1, <1>3, <1>4
  <2> QED  BY <2>1, <1>6, Places
<1> HIDE DEF IA, IL, IR
<1>14. \A i \in 1 .. nl : IA[i] = IL[i]
  <2> SUFFICES ASSUME NEW i \in 1 .. nl PROVE IA[i] = IL[i]  OBVIOUS
  <2>1. IL[i] \in L  BY <1>12, ElementOfSeq
  <2>2. Rank(L, K, IL[i]) = i - 1  BY <2>1, <1>12
  <2>3. Rank(A, K, IL[i]) = i - 1 /\ IL[i] \in A /\ i \in 1 .. Cardinality(A)
    BY <2>1, <2>2, <1>1, <1>7, <1>8
  <2> QED  BY <2>3, <1>11
<1>15. IA[nl + 1] = x
  <2>1. nl + 1 \in 1 .. Cardinality(A) /\ x \in A  BY <1>1, <1>7
  <2>2. Rank(A, K, x) = (nl + 1) - 1  BY <1>7, <1>9
  <2> QED  BY <2>1, <2>2, <1>11
<1>16. \A j \in 1 .. nr : IA[nl + 1 + j] = IR[j]
  <2> SUFFICES ASSUME NEW j \in 1 .. nr PROVE IA[nl + 1 + j] = IR[j]  OBVIOUS
  <2>1. IR[j] \in R  BY <1>13, ElementOfSeq
  <2>2. Rank(R, K, IR[j]) = j - 1  BY <2>1, <1>13
  <2>3. Rank(A, K, IR[j]) = nl + 1 + (j - 1) /\ IR[j] \in A
    BY <2>1, <2>2, <1>1, <1>10
  <2> DEFINE i == nl + 1 + j
  <2>4. i \in 1 .. Cardinality(A) /\ i - 1 = nl + 1 + (j - 1)
    BY <1>7
  <2> HIDE DEF i, nl
  <2>5. (IA[i] = IR[j]) = (Rank(A, K, IR[j]) = i - 1)
    BY <2>3, <2>4, <1>11
  <2> QED  BY <2>3, <2>4, <2>5 DEF i
<1>17. IA = IL \o <<x>> \o IR
  <2> DEFINE M == IL \o <<x>>
  <2>1. IA \in Seq(N) /\ IL \in Seq(N) /\ IR \in Seq(N) /\ <<x>> \in Seq(N)
    BY <1>1, <1>11, <1>12, <1>13, SeqMonotonic
  <2>2. Len(<<x>>) = 1 /\ <<x>>[1] = x  OBVIOUS
  <2>3. /\ M \in Seq(N) /\ Len(M) = nl + 1
        /\ \A i \in 1 .. nl + 1 : M[i] = IF i <= nl THEN IL[i] ELSE <<x>>[i - nl]
    BY <2>1, <2>2, <1>12, ConcatProperties
  <2> HIDE DEF M
  <2>4. /\ M \o IR \in Seq(N) /\ Len(M \o IR) = nl + 1 + nr
        /\ \A i \in 1 .. nl + 1 + nr :
             (M \o IR)[i] = IF i <= nl + 1 THEN M[i] ELSE IR[i - (nl + 1)]
    <3>1. /\ M \o IR \in Seq(N) /\ Len(M \o IR) = Len(M) + Len(IR)
          /\ \A i \in 1 .. Len(M) + Len(IR) :
               (M \o IR)[i] = IF i <= Len(M) THEN M[i] ELSE IR[i - Len(M)]
      BY <2>1, <2>3, ConcatProperties
    <3> HIDE DEF nl, nr
    <3> QED  BY <3>1, <2>3, <1>13
  <2>5. Len(IA) = nl + 1 + nr  BY <1>7, <1>11
  <2>6. ASSUME NEW i \in 1 .. nl + 1 + nr PROVE IA[i] = (M \o IR)[i]
    <3>1. nl \in Nat /\ nr \in Nat  BY <1>7
    <3>2. CASE i <= nl
      <4>1. i \in 1 .. nl /\ i \in 1 .. nl + 1 /\ i <= nl + 1  BY <3>1, <3>2
      <4>2. (M \o IR)[i] = M[i]  BY <4>1, <2>4
      <4>3. M[i] = IL[i]  BY <4>1, <3>2, <2>3
      <4> QED  BY <4>1, <4>2, <4>3, <1>14
    <3>3. CASE i = nl + 1
      <4>1. i \in 1 .. nl + 1 /\ ~ (i <= nl) /\ i - nl = 1 /\ i <= nl + 1  BY <3>1, <3>3
      <4>2. (M \o IR)[i] = M[i]  BY <4>1, <2>4
      <4>3. M[i] = x  BY <4>1, <2>2, <2>3
      <4> QED  BY <4>2, <4>3, <3>3, <1>15
    <3>4. CASE i > nl + 1
      <4> DEFINE j == i - (nl + 1)
      <4>1. j \in 1 .. nr /\ ~ (i <= nl + 1) /\ i = nl + 1 + j  BY <3>1, <3>4
      <4>2. (M \o IR)[i] = IR[j]  BY <4>1, <2>4
      <4> HIDE DEF j
      <4> QED  BY <4>1, <4>2, <1>16
    <3> HIDE DEF nl, nr
    <3>5. i <= nl \/ i = nl + 1 \/ i > nl + 1  BY <3>1
    <3> QED  BY <3>5, <3>2, <3>3, <3>4
  <2> DEFINE MR == M \o IR
  <2> HIDE DEF MR
  <2>7. MR = M \o IR  BY DEF MR
  <2>8. IA = MR
    <3>1. MR \in Seq(N) /\ Len(MR) = Len(IA)  BY <2>4, <2>5, <2>7
    <3>2. \A i \in 1 .. Len(IA) : IA[i] = MR[i]  BY <2>5, <2>6, <2>7
    <3> QED  BY <3>1, <3>2, <2>1, SeqEqual
  <2> QED  BY <2>7, <2>8 DEF M
<1> QED  BY <1>17 DEF IA, IL, IR, A, L, R

(* recursively_sort gives the entries in the order of their words.         *)
LEMMA Sorts ==
  ASSUME NEW t, NEW N, NEW K, NEW S, IsTree(t, N, K, S)
  PROVE  Traversal(t) = InOrder(N, K)
<1> DEFINE D == N \cup {VACANT}
           over(f, x) ==
             IF x = VACANT THEN << >>
             ELSE f[Child(t, x, 0)] \o <<x>> \o f[Child(t, x, 1)]
           h == [x \in D |-> InOrder(S[x], K)]
           below == CHOOSE f : f = [x \in D |-> over(f, x)]
<1>1. DOMAIN t.node = N /\ VACANT \notin N
  BY DEF IsTree, IsData, Trees
<1>2. S[VACANT] = {} /\ S[t.root] = N /\ t.root \in D
  BY DEF IsTree, Spans, Trees
<1>3. Traversal(t) = below[t.root]
  BY <1>1 DEF Traversal
<1>4. ASSUME NEW x \in D PROVE h[x] = over(h, x)
  <2>1. CASE x = VACANT
    <3>1. InOrder({}, K) = << >>  BY FS_EmptySet DEF InOrder
    <3> QED  BY <3>1, <2>1, <1>2
  <2>2. CASE x \in N
    <3>1. 0 \in Side /\ 1 \in Side  BY DEF Side
    <3>2. Child(t, x, 0) \in D /\ Child(t, x, 1) \in D  BY <2>2, <3>1, TreeFacts
    <3>3. InOrder(S[x], K) =
            InOrder(S[Child(t, x, 0)], K) \o <<x>> \o InOrder(S[Child(t, x, 1)], K)
      <4>1. Joined(t, K, S, x)
        BY <2>2, InOrderOfSpan
      <4> QED
        BY <4>1, Zenon DEF Joined
    <3> QED  BY <2>2, <3>2, <3>3, <1>1
  <2> QED  BY <2>1, <2>2
<1>5. h = [x \in D |-> over(h, x)]
  <2> HIDE DEF over, h
  <2>1. h = [x \in D |-> h[x]]  BY DEF h
  <2> QED  BY <2>1, <1>4
<1>6. below = [x \in D |-> over(below, x)]
  <2> HIDE DEF over, h
  <2> QED  BY <1>5
<1>7. \A x \in D : below[x] = h[x]
  <2>1. \A x \in D : below[x] = over(below, x)
    <3> HIDE DEF over, below
    <3> QED  BY <1>6
  <2>2. below[VACANT] = h[VACANT]
    <3>1. VACANT \in D  OBVIOUS
    <3>2. below[VACANT] = over(below, VACANT) /\ h[VACANT] = over(h, VACANT)
      <4> HIDE DEF below, h, over
      <4> QED  BY <3>1, <2>1, <1>4
    <3>3. over(below, VACANT) = over(h, VACANT)  OBVIOUS
    <3> QED  BY <3>2, <3>3
  <2>3. ASSUME NEW x \in N, \A s \in Side : below[Child(t, x, s)] = h[Child(t, x, s)]
        PROVE  below[x] = h[x]
    <3>1. 0 \in Side /\ 1 \in Side  BY DEF Side
    <3>2. over(below, x) = over(h, x)
      <4> HIDE DEF below, h
      <4> QED  BY <3>1, <2>3
    <3> HIDE DEF below, h, over
    <3> QED  BY <2>1, <1>4, <3>2
  <2> HIDE DEF below, h, over
  <2> QED  BY <2>2, <2>3, SameOnTree
<1>8. h[t.root] = InOrder(N, K)  BY <1>2
<1> HIDE DEF below, h
<1> QED  BY <1>2, <1>3, <1>7, <1>8

---------------------------------------------------------------------------
(* Changing a tree.                                                        *)

\* u has the links of t, but for y on side s of x.
Relinked(u, t, N, x, s, y) ==
  \A z \in N, i \in Side :
    Child(u, z, i) = IF z = x /\ i = s THEN y ELSE Child(t, z, i)

SameLinks(u, t, N) == \A z \in N, i \in Side : Child(u, z, i) = Child(t, z, i)

(* An assignment to a branch.                                              *)
LEMMA SetBranch ==
  ASSUME NEW N, NEW t \in Trees(N), NEW x \in N, NEW s \in Side, NEW y \in N \cup {VACANT}
  PROVE  LET u == [t EXCEPT !.node[x].branch[s] = y]
         IN  u \in Trees(N) /\ u.root = t.root /\ Relinked(u, t, N, x, s, y)
<1> DEFINE b == [t.node[x].branch EXCEPT ![s] = y]
           a == [t.node[x] EXCEPT !.branch = b]
           n == [t.node EXCEPT ![x] = a]
           u == [t EXCEPT !.node = n]
<1>1. t.node \in [N -> NodeOn(N)] /\ t.node[x] \in NodeOn(N)
  BY DEF Trees
<1>2. /\ b \in [Side -> N \cup {VACANT}]
      /\ \A i \in Side : b[i] = IF i = s THEN y ELSE t.node[x].branch[i]
  BY <1>1 DEF NodeOn
<1> HIDE DEF b
<1>3. a \in NodeOn(N) /\ a.branch = b
  BY <1>1, <1>2 DEF NodeOn
<1> HIDE DEF a
<1>4. n \in [N -> NodeOn(N)] /\ \A z \in N : n[z] = IF z = x THEN a ELSE t.node[z]
  BY <1>1, <1>3
<1> HIDE DEF n
<1>5. u \in Trees(N) /\ u.root = t.root /\ u.node = n
  BY <1>4 DEF Trees
<1>6. Relinked(u, t, N, x, s, y)
  <2> HIDE DEF u
  <2> QED  BY <1>2, <1>3, <1>4, <1>5 DEF Relinked, Child
<1> QED  BY <1>5, <1>6 DEF b, a, n, u

(* An assignment to a colour.                                              *)
LEMMA SetColour ==
  ASSUME NEW N, NEW t \in Trees(N), NEW x \in N, NEW c \in {"red", "black"}
  PROVE  LET u == [t EXCEPT !.node[x].colour = c]
         IN  u \in Trees(N) /\ u.root = t.root /\ SameLinks(u, t, N)
<1> DEFINE a == [t.node[x] EXCEPT !.colour = c]
           n == [t.node EXCEPT ![x] = a]
           u == [t EXCEPT !.node = n]
<1>1. t.node \in [N -> NodeOn(N)] /\ t.node[x] \in NodeOn(N)
  BY DEF Trees
<1>2. a \in NodeOn(N) /\ a.branch = t.node[x].branch
  BY <1>1 DEF NodeOn
<1> HIDE DEF a
<1>3. n \in [N -> NodeOn(N)] /\ \A z \in N : n[z] = IF z = x THEN a ELSE t.node[z]
  BY <1>1, <1>2
<1> HIDE DEF n
<1>4. u \in Trees(N) /\ u.root = t.root /\ u.node = n
  BY <1>3 DEF Trees
<1>5. SameLinks(u, t, N)
  <2> HIDE DEF u
  <2> QED  BY <1>2, <1>3, <1>4 DEF SameLinks, Child
<1> QED  BY <1>4, <1>5 DEF a, n, u

(* An assignment to root.                                                  *)
LEMMA SetRoot ==
  ASSUME NEW N, NEW t \in Trees(N), NEW x \in N
  PROVE  LET u == [t EXCEPT !.root = x]
         IN  u \in Trees(N) /\ u.root = x /\ SameLinks(u, t, N)
  BY DEF Trees, SameLinks, Child

(* A span in terms of the branches on a side and on the other.             *)
LEMMA SpanBySide ==
  ASSUME NEW t, NEW N, NEW K, NEW S, IsTree(t, N, K, S), NEW x \in N, NEW s \in Side
  PROVE  S[x] = {x} \cup S[Child(t, x, s)] \cup S[Child(t, x, 1 - s)]
<1>1. S[x] = {x} \cup S[Child(t, x, 0)] \cup S[Child(t, x, 1)]
  BY DEF IsTree, Spans
<1>2. CASE s = 0
  <2>1. 1 - s = 1  BY <1>2
  <2> QED  BY <1>1, <1>2, <2>1
<1>3. CASE s = 1
  <2>1. 1 - s = 0  BY <1>3
  <2> QED  BY <1>1, <1>3, <2>1
<1> QED  BY <1>2, <1>3 DEF Side

\* Outside of M the spans S of t and R of u are the same.
Untouched(t, u, N, M, S, R) ==
  \A z \in N \ M :
    R[z] = S[z] /\ \A i \in Side : R[Child(u, z, i)] = S[Child(t, z, i)]

\* The spans R fit the links and the order in M.
Fits(u, K, M, R) ==
  \A z \in M : \E i \in Side :
    /\ R[z] = {z} \cup R[Child(u, z, i)] \cup R[Child(u, z, 1 - i)]
    /\ \A y \in R[Child(u, z, i)] : Lies(i, K[y], K[z])
    /\ \A y \in R[Child(u, z, 1 - i)] : Lies(1 - i, K[y], K[z])

(* It is enough to look at the entries whose links lead elsewhere.         *)
LEMMA StillTree ==
  ASSUME NEW t, NEW N, NEW K, NEW S, IsTree(t, N, K, S),
         NEW u \in Trees(N), NEW R \in [N \cup {VACANT} -> SUBSET N], NEW M \in SUBSET N,
         R[VACANT] = {}, R[u.root] = N,
         Untouched(t, u, N, M, S, R), Fits(u, K, M, R)
  PROVE  IsTree(u, N, K, R)
<1>1. ASSUME NEW z \in N, z \notin M
      PROVE  /\ R[z] = {z} \cup R[Child(u, z, 0)] \cup R[Child(u, z, 1)]
             /\ \A i \in Side : \A y \in R[Child(u, z, i)] : Lies(i, K[y], K[z])
  <2>1. R[z] = S[z] /\ \A i \in Side : R[Child(u, z, i)] = S[Child(t, z, i)]
    BY <1>1 DEF Untouched
  <2>2. 0 \in Side /\ 1 \in Side /\ 1 - 0 = 1  BY DEF Side
  <2>3. S[z] = {z} \cup S[Child(t, z, 0)] \cup S[Child(t, z, 1)]
    BY DEF IsTree, Spans
  <2>4. \A i \in Side : \A y \in S[Child(t, z, i)] : Lies(i, K[y], K[z])
    BY DEF IsTree, Sorted
  <2> QED  BY <2>1, <2>2, <2>3, <2>4
<1>2. ASSUME NEW z \in M
      PROVE  /\ R[z] = {z} \cup R[Child(u, z, 0)] \cup R[Child(u, z, 1)]
             /\ \A i \in Side : \A y \in R[Child(u, z, i)] : Lies(i, K[y], K[z])
  <2>1. PICK i \in Side :
           /\ R[z] = {z} \cup R[Child(u, z, i)] \cup R[Child(u, z, 1 - i)]
           /\ \A y \in R[Child(u, z, i)] : Lies(i, K[y], K[z])
           /\ \A y \in R[Child(u, z, 1 - i)] : Lies(1 - i, K[y], K[z])
    BY DEF Fits
  <2>2. CASE i = 0
    <3>1. 1 - i = 1 /\ Side = {0, 1}  BY <2>2 DEF Side
    <3> QED  BY <2>1, <2>2, <3>1
  <2>3. CASE i = 1
    <3>1. 1 - i = 0 /\ Side = {0, 1}  BY <2>3 DEF Side
    <3> QED  BY <2>1, <2>3, <3>1
  <2> QED  BY <2>2, <2>3 DEF Side
<1>3. /\ \A z \in N : R[z] = {z} \cup R[Child(u, z, 0)] \cup R[Child(u, z, 1)]
      /\ \A z \in N, i \in Side : \A y \in R[Child(u, z, i)] : Lies(i, K[y], K[z])
  BY <1>1, <1>2
<1>4. IsData(N, K)  BY DEF IsTree
<1> QED  BY <1>3, <1>4 DEF IsTree, Spans, Sorted

(* An entry g, its branch f on side s and what hangs beside f.             *)
LEMMA Family ==
  ASSUME NEW t, NEW N, NEW K, NEW S, IsTree(t, N, K, S), NEW g \in N, NEW s \in Side,
         Child(t, g, s) \in N
  PROVE  LET f == Child(t, g, s)
             k == Child(t, g, 1 - s)
         IN  /\ f # g /\ g \notin S[f] /\ f \in S[f] /\ S[f] \subseteq S[g] /\ g \in S[g]
             /\ S[g] = {g} \cup S[f] \cup S[k] /\ S[k] \cap S[f] = {} /\ g \notin S[k]
             /\ k \in N \cup {VACANT} /\ k # f /\ k # g
             /\ k \notin S[f]
             /\ 1 - s \in Side /\ 1 - (1 - s) = s
             /\ Lies(s, K[f], K[g]) /\ Lies(1 - s, K[g], K[f])
             /\ \A y \in S[f] : Lies(s, K[y], K[g]) /\ y \in N
             /\ \A y \in S[k] : Lies(1 - s, K[y], K[g]) /\ y \in N
<1> DEFINE f == Child(t, g, s)
           k == Child(t, g, 1 - s)
<1>1. 1 - s \in Side /\ 1 - (1 - s) = s  BY DEF Side
<1>2. /\ g \notin S[f] /\ f \in S[f] /\ S[f] \subseteq S[g] /\ g \in S[g] /\ g \in N
      /\ S[k] \cap S[f] = {} /\ g \notin S[k] /\ k \in N \cup {VACANT}
      /\ \A y \in S[f] : Lies(s, K[y], K[g]) /\ y \in N
      /\ \A y \in S[k] : Lies(1 - s, K[y], K[g]) /\ y \in N
      /\ S[f] \subseteq N
  BY <1>1, TreeFacts
<1>3. S[g] = {g} \cup S[f] \cup S[k]  BY SpanBySide
<1>4. k \in N => k \in S[k]  BY TreeFacts
<1>5. VACANT \notin N  BY DEF IsTree, IsData
<1>6. K[f] \in SortCodes /\ K[g] \in SortCodes  BY TreeFacts
<1> HIDE DEF f, k
<1>7. Lies(s, K[f], K[g])  BY <1>2
<1>8. Lies(1 - s, K[g], K[f])  BY <1>6, <1>7, LiesOrder
<1>9. k \notin S[f]  BY <1>2, <1>4, <1>5
<1>10. k # f /\ k # g /\ f # g  BY <1>2, <1>4, <1>5
<1> QED  BY <1>1, <1>2, <1>3, <1>7, <1>8, <1>9, <1>10 DEF f, k

---------------------------------------------------------------------------
(* Where the walk stands.                                                  *)

\* x hangs from side s of p, or is the root.
Above(t, N, p, s, x) ==
  /\ s \in Side
  /\ p = VACANT => t.root = x
  /\ p # VACANT => p \in N /\ Child(t, p, s) = x

\* The links from "gf" to "at".
Seated(t, N, w) ==
  /\ w.at \in N /\ w.r \in Side
  /\ Above(t, N, w.f, w.fr, w.at)
  /\ w.gfr \in Side
  /\ w.f = VACANT => w.gf = VACANT
  /\ w.f # VACANT => Above(t, N, w.gf, w.gfr, w.f)

\* All links the walk remembers.
Linked(t, N, w) ==
  /\ Seated(t, N, w)
  /\ w.ggfr \in Side
  /\ w.gf = VACANT => w.ggf = VACANT
  /\ w.gf # VACANT => Above(t, N, w.ggf, w.ggfr, w.gf)

(* What Hang makes of the links.                                           *)
LEMMA HangLinks ==
  ASSUME NEW N, NEW t \in Trees(N), VACANT \notin N, NEW w,
         w.ggf \in N \cup {VACANT}, w.ggfr \in Side, NEW x \in N
  PROVE  /\ Hang(t, w, x) \in Trees(N)
         /\ Hang(t, w, x).root = IF w.ggf = VACANT THEN x ELSE t.root
         /\ \A z \in N, i \in Side :
              Child(Hang(t, w, x), z, i) =
                IF z = w.ggf /\ i = w.ggfr THEN x ELSE Child(t, z, i)
<1>1. CASE w.ggf = VACANT
  <2>1. Hang(t, w, x) = [t EXCEPT !.root = x]  BY <1>1 DEF Hang
  <2> DEFINE u == [t EXCEPT !.root = x]
  <2>2. u \in Trees(N) /\ u.root = x /\ SameLinks(u, t, N)
    BY SetRoot
  <2> HIDE DEF u
  <2>3. Hang(t, w, x) = u  BY <2>1 DEF u
  <2> QED  BY <2>2, <2>3, <1>1 DEF SameLinks
<1>2. CASE w.ggf # VACANT
  <2> DEFINE u == [t EXCEPT !.node[w.ggf].branch[w.ggfr] = x]
  <2>1. Hang(t, w, x) = u  BY <1>2 DEF Hang
  <2>2. w.ggf \in N /\ x \in N \cup {VACANT}  BY <1>2
  <2>3. u \in Trees(N) /\ u.root = t.root /\ Relinked(u, t, N, w.ggf, w.ggfr, x)
    BY <2>2, SetBranch
  <2> HIDE DEF u
  <2> QED  BY <2>1, <2>3, <1>2 DEF Relinked
<1> QED  BY <1>1, <1>2

(* The links after a single rotation.                                      *)
LEMMA SingleLinks ==
  ASSUME NEW N, NEW t \in Trees(N), VACANT \notin N, NEW w,
         w.ggf \in N \cup {VACANT}, w.ggfr \in Side,
         w.gf \in N, w.gfr \in Side, w.f \in N, w.fr \in Side, w.f # w.gf,
         Child(t, w.f, 1 - w.fr) \in N \cup {VACANT}
  PROVE  /\ Single(t, w) \in Trees(N)
         /\ Single(t, w).root = IF w.ggf = VACANT THEN w.f ELSE t.root
         /\ \A z \in N, i \in Side :
              Child(Single(t, w), z, i) =
                IF z = w.f /\ i = 1 - w.fr THEN w.gf
                ELSE IF z = w.gf /\ i = w.gfr THEN Child(t, w.f, 1 - w.fr)
                ELSE IF z = w.ggf /\ i = w.ggfr THEN w.f
                ELSE Child(t, z, i)
<1> DEFINE m == Child(t, w.f, 1 - w.fr)
           t1 == Hang(t, w, w.f)
           t2 == [t1 EXCEPT !.node[w.gf].branch[w.gfr] = m]
           t3 == [t2 EXCEPT !.node[w.f].branch[1 - w.fr] = w.gf]
           t4 == [t3 EXCEPT !.node[w.f].colour = "black"]
           t5 == [t4 EXCEPT !.node[w.gf].colour = "red"]
<1>1. Single(t, w) = t5  BY DEF Single
<1>2. /\ t1 \in Trees(N) /\ t1.root = IF w.ggf = VACANT THEN w.f ELSE t.root
      /\ \A z \in N, i \in Side :
           Child(t1, z, i) = IF z = w.ggf /\ i = w.ggfr THEN w.f ELSE Child(t, z, i)
  BY HangLinks
<1> HIDE DEF t1
<1>3. t2 \in Trees(N) /\ t2.root = t1.root /\ Relinked(t2, t1, N, w.gf, w.gfr, m)
  <2> HIDE DEF m
  <2>1. m \in N \cup {VACANT}  BY DEF m
  <2> QED  BY <2>1, <1>2, SetBranch
<1> HIDE DEF t2
<1>4. t3 \in Trees(N) /\ t3.root = t2.root /\ Relinked(t3, t2, N, w.f, 1 - w.fr, w.gf)
  <2>1. 1 - w.fr \in Side /\ w.gf \in N \cup {VACANT}  BY DEF Side
  <2> QED  BY <2>1, <1>3, SetBranch
<1> HIDE DEF t3
<1>5. t4 \in Trees(N) /\ t4.root = t3.root /\ SameLinks(t4, t3, N)
  BY <1>4, SetColour
<1> HIDE DEF t4
<1>6. t5 \in Trees(N) /\ t5.root = t4.root /\ SameLinks(t5, t4, N)
  BY <1>5, SetColour
<1> HIDE DEF t5
<1>7. t5.root = IF w.ggf = VACANT THEN w.f ELSE t.root
  BY <1>2, <1>3, <1>4, <1>5, <1>6
<1>8. ASSUME NEW z \in N, NEW i \in Side
      PROVE  Child(t5, z, i) =
               IF z = w.f /\ i = 1 - w.fr THEN w.gf
               ELSE IF z = w.gf /\ i = w.gfr THEN m
               ELSE IF z = w.ggf /\ i = w.ggfr THEN w.f
               ELSE Child(t, z, i)
  <2>1. Child(t5, z, i) = Child(t3, z, i)  BY <1>5, <1>6 DEF SameLinks
  <2>2. Child(t3, z, i) = IF z = w.f /\ i = 1 - w.fr THEN w.gf ELSE Child(t2, z, i)
    BY <1>4 DEF Relinked
  <2>3. Child(t2, z, i) = IF z = w.gf /\ i = w.gfr THEN m ELSE Child(t1, z, i)
    BY <1>3 DEF Relinked
  <2> QED  BY <2>1, <2>2, <2>3, <1>2
<1> QED  BY <1>1, <1>6, <1>7, <1>8

(* The links after a double rotation.                                      *)
LEMMA DoubleLinks ==
  ASSUME NEW N, NEW t \in Trees(N), VACANT \notin N, NEW w,
         w.ggf \in N \cup {VACANT}, w.ggfr \in Side,
         w.gf \in N, w.gfr \in Side, w.f \in N, w.fr = 1 - w.gfr, w.at \in N,
         w.f # w.gf, w.at # w.f, w.at # w.gf,
         Child(t, w.at, w.gfr) \in N \cup {VACANT}, Child(t, w.at, w.fr) \in N \cup {VACANT}
  PROVE  /\ Double(t, w) \in Trees(N)
         /\ Double(t, w).root = IF w.ggf = VACANT THEN w.at ELSE t.root
         /\ \A z \in N, i \in Side :
              Child(Double(t, w), z, i) =
                IF z = w.at THEN IF i = w.gfr THEN w.f ELSE w.gf
                ELSE IF z = w.f /\ i = w.fr THEN Child(t, w.at, w.gfr)
                ELSE IF z = w.gf /\ i = w.gfr THEN Child(t, w.at, w.fr)
                ELSE IF z = w.ggf /\ i = w.ggfr THEN w.at
                ELSE Child(t, z, i)
<1> DEFINE m0 == Child(t, w.at, w.gfr)
           m1 == Child(t, w.at, w.fr)
           t1 == Hang(t, w, w.at)
           t2 == [t1 EXCEPT !.node[w.f].branch[w.fr] = m0]
           t3 == [t2 EXCEPT !.node[w.gf].branch[w.gfr] = m1]
           t4 == [t3 EXCEPT !.node[w.at].branch[w.gfr] = w.f]
           t5 == [t4 EXCEPT !.node[w.at].branch[w.fr] = w.gf]
           t6 == [t5 EXCEPT !.node[w.at].colour = "black"]
           t7 == [t6 EXCEPT !.node[w.gf].colour = "red"]
<1>0. w.fr \in Side /\ Side = {w.gfr, w.fr} /\ w.fr # w.gfr
  BY SMTT(20) DEF Side
<1>1. Double(t, w) = t7  BY DEF Double
<1>2. /\ t1 \in Trees(N) /\ t1.root = IF w.ggf = VACANT THEN w.at ELSE t.root
      /\ \A z \in N, i \in Side :
           Child(t1, z, i) = IF z = w.ggf /\ i = w.ggfr THEN w.at ELSE Child(t, z, i)
  BY HangLinks
<1> HIDE DEF t1
<1>3. t2 \in Trees(N) /\ t2.root = t1.root /\ Relinked(t2, t1, N, w.f, w.fr, m0)
  <2> HIDE DEF m0
  <2>1. m0 \in N \cup {VACANT}  BY DEF m0
  <2> QED  BY <2>1, <1>0, <1>2, SetBranch
<1> HIDE DEF t2
<1>4. t3 \in Trees(N) /\ t3.root = t2.root /\ Relinked(t3, t2, N, w.gf, w.gfr, m1)
  <2> HIDE DEF m1
  <2>1. m1 \in N \cup {VACANT}  BY DEF m1
  <2> QED  BY <2>1, <1>3, SetBranch
<1> HIDE DEF t3
<1>5. t4 \in Trees(N) /\ t4.root = t3.root /\ Relinked(t4, t3, N, w.at, w.gfr, w.f)
  <2>1. w.f \in N \cup {VACANT}  OBVIOUS
  <2> QED  BY <2>1, <1>4, SetBranch
<1> HIDE DEF t4
<1>6. t5 \in Trees(N) /\ t5.root = t4.root /\ Relinked(t5, t4, N, w.at, w.fr, w.gf)
  <2>1. w.gf \in N \cup {VACANT}  OBVIOUS
  <2> QED  BY <2>1, <1>0, <1>5, SetBranch
<1> HIDE DEF t5
<1>7. t6 \in Trees(N) /\ t6.root = t5.root /\ SameLinks(t6, t5, N)
  BY <1>6, SetColour
<1> HIDE DEF t6
<1>8. t7 \in Trees(N) /\ t7.root = t6.root /\ SameLinks(t7, t6, N)
  BY <1>7, SetColour
<1> HIDE DEF t7
<1>9. t7.root = IF w.ggf = VACANT THEN w.at ELSE t.root
  BY <1>2, <1>3, <1>4, <1>5, <1>6, <1>7, <1>8
<1>10. ASSUME NEW z \in N, NEW i \in Side
       PROVE  Child(t7, z, i) =
                IF z = w.at THEN IF i = w.gfr THEN w.f ELSE w.gf
                ELSE IF z = w.f /\ i = w.fr THEN m0
                ELSE IF z = w.gf /\ i = w.gfr THEN m1
                ELSE IF z = w.ggf /\ i = w.ggfr THEN w.at
                ELSE Child(t, z, i)
  <2>1. Child(t7, z, i) = Child(t5, z, i)  BY <1>7, <1>8 DEF SameLinks
  <2>2. Child(t5, z, i) = IF z = w.at /\ i = w.fr THEN w.gf ELSE Child(t4, z, i)
    BY <1>6 DEF Relinked
  <2>3. Child(t4, z, i) = IF z = w.at /\ i = w.gfr THEN w.f ELSE Child(t3, z, i)
    BY <1>5 DEF Relinked
  <2>4. Child(t3, z, i) = IF z = w.gf /\ i = w.gfr THEN m1 ELSE Child(t2, z, i)
    BY <1>4 DEF Relinked
  <2>5. Child(t2, z, i) = IF z = w.f /\ i = w.fr THEN m0 ELSE Child(t1, z, i)
    BY <1>3 DEF Relinked
  <2> HIDE DEF m0, m1
  <2>6. CASE z = w.at
    <3>1. i = w.gfr \/ i = w.fr  BY <1>0
    <3> QED  BY <3>1, <2>1, <2>2, <2>3, <2>6, <1>0
  <2>7. CASE z # w.at
    <3>1. Child(t7, z, i) = Child(t3, z, i)  BY <2>1, <2>2, <2>3, <2>7
    <3> QED  BY <3>1, <2>4, <2>5, <2>7, <1>2
  <2> QED  BY <2>6, <2>7
<1> QED  BY <1>1, <1>8, <1>9, <1>10, SMTT(20)

---------------------------------------------------------------------------
(* The rotations.                                                          *)

(* What hangs above g is the only link to it.                              *)
LEMMA OnlyAbove ==
  ASSUME NEW t, NEW N, NEW K, NEW S, IsTree(t, N, K, S), NEW g \in N, NEW p, NEW ps,
         Above(t, N, p, ps, g)
  PROVE  /\ p \notin S[g]
         /\ p = VACANT => g = t.root
         /\ p # VACANT => p \in N /\ g # t.root
         /\ \A z \in N, i \in Side : (Child(t, z, i) = g) = (z = p /\ i = ps)
<1>1. VACANT \notin N /\ S[g] \subseteq N
  BY TreeFacts DEF IsTree, IsData
<1>2. CASE p = VACANT
  <2>1. \A z \in N, i \in Side : Child(t, z, i) # g
    <3> SUFFICES ASSUME NEW z \in N, NEW i \in Side, Child(t, z, i) = g PROVE FALSE
      OBVIOUS
    <3>1. Child(t, z, i) # t.root  BY OneParent
    <3> QED  BY <3>1, <1>2 DEF Above
  <2> QED  BY <1>1, <1>2, <2>1 DEF Above
<1>3. CASE p # VACANT
  <2>1. p \in N /\ ps \in Side /\ Child(t, p, ps) = g  BY <1>3 DEF Above
  <2>2. p \notin S[g]  BY <2>1, TreeFacts
  <2>3. g # t.root  BY <2>1, OneParent
  <2>4. \A z \in N, i \in Side : Child(t, z, i) = g => z = p /\ i = ps
    BY <2>1, OneParent
  <2> QED  BY <1>3, <2>1, <2>2, <2>3, <2>4
<1> QED  BY <1>2, <1>3

(* A single rotation leaves a tree, in which "at" spans what it did.       *)
LEMMA SingleTurns ==
  ASSUME NEW t, NEW N, NEW K, NEW S, IsTree(t, N, K, S), NEW w, Linked(t, N, w),
         w.f # VACANT, w.gf # VACANT, w.fr = w.gfr
  PROVE  \E R :
           /\ IsTree(Single(t, w), N, K, R)
           /\ \A x \in N \cup {VACANT} : x # w.f /\ x # w.gf => R[x] = S[x]
           /\ w.at # w.f /\ w.at # w.gf
           /\ \A i \in Side : Child(t, w.at, i) # w.f /\ Child(t, w.at, i) # w.gf
           /\ \A i \in Side : Child(Single(t, w), w.at, i) = Child(t, w.at, i)
           /\ Above(Single(t, w), N, w.ggf, w.ggfr, w.f)
           /\ Child(Single(t, w), w.f, w.fr) = w.at
<1> DEFINE g == w.gf
           f == w.f
           s == w.gfr
           p == w.ggf
           ps == w.ggfr
           a == w.at
           k == Child(t, g, 1 - s)
           m == Child(t, f, 1 - s)
           u == Single(t, w)
           R == [x \in N \cup {VACANT} |->
                   IF x = f THEN S[g]
                   ELSE IF x = g THEN {g} \cup S[m] \cup S[k] ELSE S[x]]
<1>1. /\ g \in N /\ f \in N /\ a \in N /\ s \in Side
      /\ Child(t, g, s) = f /\ Child(t, f, s) = a
      /\ Above(t, N, p, ps, g) /\ ps \in Side
  BY DEF Linked, Seated, Above
<1>2. VACANT \notin N /\ t \in Trees(N) /\ IsData(N, K)
      /\ S \in [N \cup {VACANT} -> SUBSET N] /\ S[VACANT] = {} /\ S[t.root] = N
      /\ t.root \in N \cup {VACANT}
  BY DEF IsTree, IsData, Spans, Trees
<1>3. /\ f # g /\ g \notin S[f] /\ f \in S[f] /\ g \in S[g]
      /\ S[g] = {g} \cup S[f] \cup S[k] /\ k \in N \cup {VACANT} /\ k # f /\ k # g
      /\ 1 - s \in Side /\ 1 - (1 - s) = s /\ Lies(s, K[f], K[g]) /\ Lies(1 - s, K[g], K[f])
      /\ \A y \in S[f] : Lies(s, K[y], K[g]) /\ y \in N
      /\ \A y \in S[k] : Lies(1 - s, K[y], K[g]) /\ y \in N
  <2> HIDE DEF g, s
  <2> QED  BY <1>1, Family
<1>4. /\ a # f /\ f \notin S[a] /\ a \in S[a]
      /\ S[f] = {f} \cup S[a] \cup S[m] /\ m \in N \cup {VACANT} /\ m # a /\ m # f
      /\ \A y \in S[a] : Lies(s, K[y], K[f]) /\ y \in N
      /\ \A y \in S[m] : Lies(1 - s, K[y], K[f]) /\ y \in N
  <2> HIDE DEF f, s
  <2> QED  BY <1>1, Family
<1>5. /\ p \notin S[g]
      /\ p = VACANT => g = t.root
      /\ p # VACANT => p \in N /\ g # t.root
      /\ \A z \in N, i \in Side : (Child(t, z, i) = g) = (z = p /\ i = ps)
  <2>1. /\ p \notin S[g]
        /\ p = VACANT => g = t.root
        /\ p # VACANT => p \in N /\ g # t.root
        /\ \A z \in N, i \in Side : (Child(t, z, i) = g) = (z = p /\ i = ps)
    <3> HIDE DEF g, p, ps
    <3> QED  BY <1>1, OnlyAbove
  <2> QED  BY <2>1
<1>6. /\ f # t.root
      /\ \A z \in N, i \in Side : (Child(t, z, i) = f) = (z = g /\ i = s)
  <2>1. Above(t, N, g, s, f) /\ g # VACANT  BY <1>1, <1>2 DEF Above
  <2> HIDE DEF g, f, s
  <2> QED  BY <1>1, <2>1, OnlyAbove
<1>7. \A z \in N, i \in Side : (Child(t, z, i) = a) = (z = f /\ i = s)
  <2>1. Above(t, N, f, s, a)  BY <1>1, <1>2 DEF Above
  <2> HIDE DEF f, s, a
  <2> QED  BY <1>1, <2>1, OnlyAbove
<1>8. p \in N \cup {VACANT}  BY <1>5
<1>9. /\ u \in Trees(N) /\ u.root = IF p = VACANT THEN f ELSE t.root
      /\ \A z \in N, i \in Side :
           Child(u, z, i) = IF z = f /\ i = 1 - s THEN g
                            ELSE IF z = g /\ i = s THEN m
                            ELSE IF z = p /\ i = ps THEN f
                            ELSE Child(t, z, i)
  BY <1>1, <1>2, <1>3, <1>4, <1>8, SingleLinks
<1>10. m # g /\ a # g /\ p # f /\ p # g
  <2>1. m \in N => m \in S[m]  BY TreeFacts
  <2>2. m # g  BY <2>1, <1>1, <1>2, <1>3, <1>4
  <2> QED  BY <2>2, <1>1, <1>3, <1>4, <1>5
<1> HIDE DEF g, f, s, p, ps, a, k, m, u
<1>11. /\ R \in [N \cup {VACANT} -> SUBSET N] /\ R[VACANT] = {}
       /\ \A x \in N \cup {VACANT} : x # f /\ x # g => R[x] = S[x]
       /\ R[f] = S[g] /\ R[g] = {g} \cup S[m] \cup S[k]
       /\ R[m] = S[m] /\ R[k] = S[k] /\ R[a] = S[a]
  <2>1. S[g] \in SUBSET N /\ ({g} \cup S[m] \cup S[k]) \in SUBSET N
    BY <1>1, <1>2, <1>3, <1>4
  <2> QED  BY <2>1, <1>1, <1>2, <1>3, <1>4, <1>10
<1> HIDE DEF R
<1>12. R[u.root] = N
  <2>1. CASE p = VACANT  BY <2>1, <1>2, <1>5, <1>9, <1>11
  <2>2. CASE p # VACANT
    <3>1. u.root = t.root /\ t.root # g /\ t.root # f
      BY <2>2, <1>5, <1>6, <1>9
    <3> QED  BY <3>1, <1>2, <1>11
  <2> QED  BY <2>1, <2>2
<1>13. ASSUME NEW z \in N \ {f, g}
       PROVE  R[z] = S[z] /\ \A i \in Side : R[Child(u, z, i)] = S[Child(t, z, i)]
  <2>1. R[z] = S[z]  BY <1>11
  <2>2. ASSUME NEW i \in Side PROVE R[Child(u, z, i)] = S[Child(t, z, i)]
    <3>1. Child(u, z, i) = IF z = p /\ i = ps THEN f ELSE Child(t, z, i)
      BY <1>9
    <3>2. CASE z = p /\ i = ps
      <4>1. Child(t, z, i) = g  BY <3>2, <1>5
      <4>2. Child(u, z, i) = f  BY <3>1, <3>2
      <4> QED  BY <4>1, <4>2, <1>11
    <3>3. CASE ~ (z = p /\ i = ps)
      <4>1. Child(t, z, i) # g /\ Child(t, z, i) # f  BY <3>3, <1>5, <1>6
      <4>2. Child(t, z, i) \in N \cup {VACANT}  BY TreeFacts
      <4> QED  BY <3>1, <3>3, <4>1, <4>2, <1>11
    <3> QED  BY <3>2, <3>3
  <2> QED  BY <2>1, <2>2
<1>14. /\ R[f] = {f} \cup R[Child(u, f, s)] \cup R[Child(u, f, 1 - s)]
       /\ \A y \in R[Child(u, f, s)] : Lies(s, K[y], K[f])
       /\ \A y \in R[Child(u, f, 1 - s)] : Lies(1 - s, K[y], K[f])
  <2>1. Child(u, f, s) = a /\ Child(u, f, 1 - s) = g
    <3>1. s # 1 - s  BY <1>1 DEF Side
    <3> QED  BY <3>1, <1>1, <1>3, <1>9, <1>10
  <2>2. R[f] = {f} \cup R[a] \cup R[g]  BY <1>3, <1>4, <1>11
  <2>3. ASSUME NEW y \in R[g] PROVE Lies(1 - s, K[y], K[f])
    <3>1. CASE y = g  BY <3>1, <1>3
    <3>2. CASE y \in S[m]  BY <3>2, <1>4
    <3>3. CASE y \in S[k]
      <4>1. Lies(1 - s, K[y], K[g]) /\ y \in N  BY <3>3, <1>3
      <4>2. K[y] \in SortCodes /\ K[g] \in SortCodes /\ K[f] \in SortCodes
        BY <4>1, <1>1, <1>2 DEF IsData
      <4> QED  BY <4>1, <4>2, <1>3, LiesOrder
    <3> QED  BY <3>1, <3>2, <3>3, <1>11
  <2> QED  BY <2>1, <2>2, <2>3, <1>4, <1>11
<1>15. /\ R[g] = {g} \cup R[Child(u, g, s)] \cup R[Child(u, g, 1 - s)]
       /\ \A y \in R[Child(u, g, s)] : Lies(s, K[y], K[g])
       /\ \A y \in R[Child(u, g, 1 - s)] : Lies(1 - s, K[y], K[g])
  <2>1. Child(u, g, s) = m /\ Child(u, g, 1 - s) = k
    <3>1. s # 1 - s /\ k = Child(t, g, 1 - s)  BY <1>1 DEF Side, k
    <3> QED  BY <3>1, <1>1, <1>3, <1>9, <1>10
  <2>2. R[g] = {g} \cup R[m] \cup R[k]  BY <1>11
  <2>3. \A y \in S[m] : y \in S[f]  BY <1>4
  <2> QED  BY <2>1, <2>2, <2>3, <1>3, <1>11
<1>16. IsTree(u, N, K, R)
  <2> DEFINE M == {f, g}
  <2>1. M \in SUBSET N  BY <1>1
  <2>2. Untouched(t, u, N, M, S, R)  BY <1>13 DEF Untouched
  <2>3. Fits(u, K, M, R)
    <3> SUFFICES ASSUME NEW z \in M
                 PROVE  \E i \in Side :
                   /\ R[z] = {z} \cup R[Child(u, z, i)] \cup R[Child(u, z, 1 - i)]
                   /\ \A y \in R[Child(u, z, i)] : Lies(i, K[y], K[z])
                   /\ \A y \in R[Child(u, z, 1 - i)] : Lies(1 - i, K[y], K[z])
      BY DEF Fits
    <3>1. CASE z = f  BY <3>1, <1>1, <1>14
    <3>2. CASE z = g  BY <3>2, <1>1, <1>15
    <3> QED  BY <3>1, <3>2
  <2> HIDE DEF M
  <2>4. /\ u \in Trees(N) /\ R \in [N \cup {VACANT} -> SUBSET N]
        /\ R[VACANT] = {} /\ R[u.root] = N
    BY <1>9, <1>11, <1>12
  <2> QED  BY <2>1, <2>2, <2>3, <2>4, StillTree
<1>17. /\ \A i \in Side : Child(t, a, i) # f /\ Child(t, a, i) # g
       /\ \A i \in Side : Child(u, a, i) = Child(t, a, i)
       /\ Above(u, N, p, ps, f)
       /\ Child(u, f, s) = a
  <2>1. a # p  BY <1>3, <1>4, <1>5
  <2>2. \A i \in Side : Child(t, a, i) # f /\ Child(t, a, i) # g
    BY <2>1, <1>1, <1>5, <1>6, <1>10
  <2>3. \A i \in Side : Child(u, a, i) = Child(t, a, i)
    BY <2>1, <1>1, <1>4, <1>9, <1>10
  <2>4. Above(u, N, p, ps, f)
    BY <1>1, <1>5, <1>8, <1>9, <1>10 DEF Above
  <2>5. Child(u, f, s) = a
    <3>1. s # 1 - s  BY <1>1 DEF Side
    <3> QED  BY <3>1, <1>1, <1>3, <1>9, <1>10
  <2> QED  BY <2>2, <2>3, <2>4, <2>5
<1>18. a # f /\ a # g  BY <1>4, <1>10
<1> QED  BY <1>11, <1>16, <1>17, <1>18 DEF g, f, s, p, ps, a, u

(* A double rotation leaves a tree with "f" and "gf" below "at", where the *)
(* branches of "at" hang from them.                                        *)
LEMMA DoubleTurns ==
  ASSUME NEW t, NEW N, NEW K, NEW S, IsTree(t, N, K, S), NEW w, Linked(t, N, w),
         w.f # VACANT, w.gf # VACANT, w.fr # w.gfr
  PROVE  \E R :
           /\ IsTree(Double(t, w), N, K, R)
           /\ \A x \in N \cup {VACANT} : x # w.f /\ x # w.gf /\ x # w.at => R[x] = S[x]
           /\ \A i \in Side :
                Child(t, w.at, i) # w.f /\ Child(t, w.at, i) # w.gf /\ Child(t, w.at, i) # w.at
           /\ w.fr = 1 - w.gfr
           /\ Child(Double(t, w), w.at, w.gfr) = w.f
           /\ Child(Double(t, w), w.at, w.fr) = w.gf
           /\ Child(Double(t, w), w.f, w.fr) = Child(t, w.at, w.gfr)
           /\ Child(Double(t, w), w.gf, w.gfr) = Child(t, w.at, w.fr)
           /\ Above(Double(t, w), N, w.ggf, w.ggfr, w.at)
<1> DEFINE g == w.gf
           f == w.f
           s == w.gfr
           p == w.ggf
           ps == w.ggfr
           a == w.at
           k == Child(t, g, 1 - s)
           l == Child(t, f, s)
           m0 == Child(t, a, s)
           m1 == Child(t, a, 1 - s)
           u == Double(t, w)
           R == [x \in N \cup {VACANT} |->
                   IF x = a THEN S[g]
                   ELSE IF x = f THEN {f} \cup S[l] \cup S[m0]
                   ELSE IF x = g THEN {g} \cup S[m1] \cup S[k] ELSE S[x]]
<1>1. /\ g \in N /\ f \in N /\ a \in N /\ s \in Side /\ 1 - s \in Side /\ w.fr = 1 - s
      /\ Child(t, g, s) = f /\ Child(t, f, 1 - s) = a
      /\ Above(t, N, p, ps, g) /\ ps \in Side /\ 1 - (1 - s) = s /\ s # 1 - s
      /\ Side = {s, 1 - s}
  <2>1. /\ g \in N /\ f \in N /\ a \in N /\ s \in Side /\ w.fr \in Side
        /\ Child(t, g, s) = f /\ Child(t, f, w.fr) = a
        /\ Above(t, N, p, ps, g) /\ ps \in Side
    BY DEF Linked, Seated, Above
  <2>2. w.fr = 1 - s /\ 1 - s \in Side /\ 1 - (1 - s) = s /\ s # 1 - s /\ Side = {s, 1 - s}
    BY <2>1 DEF Side
  <2> QED  BY <2>1, <2>2
<1>2. VACANT \notin N /\ t \in Trees(N) /\ IsData(N, K)
      /\ S \in [N \cup {VACANT} -> SUBSET N] /\ S[VACANT] = {} /\ S[t.root] = N
      /\ t.root \in N \cup {VACANT}
  BY DEF IsTree, IsData, Spans, Trees
<1>3. /\ f # g /\ g \notin S[f] /\ f \in S[f] /\ g \in S[g]
      /\ S[g] = {g} \cup S[f] \cup S[k] /\ k \in N \cup {VACANT} /\ k # f /\ k # g
      /\ k \notin S[f]
      /\ Lies(s, K[f], K[g]) /\ Lies(1 - s, K[g], K[f])
      /\ \A y \in S[f] : Lies(s, K[y], K[g]) /\ y \in N
      /\ \A y \in S[k] : Lies(1 - s, K[y], K[g]) /\ y \in N
  <2> HIDE DEF g, s
  <2> QED  BY <1>1, Family
<1>4. /\ a # f /\ f \notin S[a] /\ a \in S[a]
      /\ S[f] = {f} \cup S[a] \cup S[l] /\ l \in N \cup {VACANT} /\ l # a /\ l # f
      /\ Lies(1 - s, K[a], K[f]) /\ Lies(s, K[f], K[a])
      /\ \A y \in S[a] : Lies(1 - s, K[y], K[f]) /\ y \in N
      /\ \A y \in S[l] : Lies(s, K[y], K[f]) /\ y \in N
  <2> DEFINE i == 1 - s
  <2>1. i \in Side /\ Child(t, f, i) = a /\ Child(t, f, 1 - i) = l /\ 1 - i = s
    BY <1>1
  <2> HIDE DEF f, s, i, l
  <2>2. /\ a # f /\ f \notin S[a] /\ a \in S[a]
        /\ S[f] = {f} \cup S[a] \cup S[l] /\ l \in N \cup {VACANT} /\ l # a /\ l # f
        /\ Lies(i, K[a], K[f]) /\ Lies(1 - i, K[f], K[a])
        /\ \A y \in S[a] : Lies(i, K[y], K[f]) /\ y \in N
        /\ \A y \in S[l] : Lies(1 - i, K[y], K[f]) /\ y \in N
    BY <1>1, <2>1, Family
  <2> QED  BY <2>1, <2>2 DEF i
<1>5. /\ S[a] = {a} \cup S[m0] \cup S[m1]
      /\ m0 \in N \cup {VACANT} /\ m1 \in N \cup {VACANT}
      /\ a \notin S[m0] /\ a \notin S[m1]
      /\ \A y \in S[m0] : Lies(s, K[y], K[a]) /\ y \in N
      /\ \A y \in S[m1] : Lies(1 - s, K[y], K[a]) /\ y \in N
  <2> HIDE DEF a, s
  <2>1. S[a] = {a} \cup S[m0] \cup S[m1]  BY <1>1, SpanBySide
  <2>2. /\ m0 \in N \cup {VACANT} /\ a \notin S[m0]
        /\ \A y \in S[m0] : Lies(s, K[y], K[a]) /\ y \in N
    BY <1>1, TreeFacts
  <2>3. /\ m1 \in N \cup {VACANT} /\ a \notin S[m1]
        /\ \A y \in S[m1] : Lies(1 - s, K[y], K[a]) /\ y \in N
    BY <1>1, TreeFacts
  <2> QED  BY <2>1, <2>2, <2>3
<1>6. /\ p \notin S[g]
      /\ p = VACANT => g = t.root
      /\ p # VACANT => p \in N /\ g # t.root
      /\ \A z \in N, i \in Side : (Child(t, z, i) = g) = (z = p /\ i = ps)
  <2>1. /\ p \notin S[g]
        /\ p = VACANT => g = t.root
        /\ p # VACANT => p \in N /\ g # t.root
        /\ \A z \in N, i \in Side : (Child(t, z, i) = g) = (z = p /\ i = ps)
    <3> HIDE DEF g, p, ps
    <3> QED  BY <1>1, OnlyAbove
  <2> QED  BY <2>1
<1>7. /\ f # t.root
      /\ \A z \in N, i \in Side : (Child(t, z, i) = f) = (z = g /\ i = s)
  <2>1. Above(t, N, g, s, f) /\ g # VACANT  BY <1>1, <1>2 DEF Above
  <2> HIDE DEF g, f, s
  <2> QED  BY <1>1, <2>1, OnlyAbove
<1>8. /\ a # t.root
      /\ \A z \in N, i \in Side : (Child(t, z, i) = a) = (z = f /\ i = 1 - s)
  <2> DEFINE j == 1 - s
  <2>1. Above(t, N, f, j, a) /\ f # VACANT  BY <1>1, <1>2 DEF Above
  <2> HIDE DEF f, j, a
  <2>2. /\ a # t.root
        /\ \A z \in N, i \in Side : (Child(t, z, i) = a) = (z = f /\ i = j)
    BY <1>1, <2>1, OnlyAbove
  <2> QED  BY <2>2 DEF j
<1>9. /\ a # g /\ p # f /\ p # g /\ p # a
      /\ m0 # f /\ m0 # g /\ m0 # a /\ m1 # f /\ m1 # g /\ m1 # a
      /\ l # g /\ k # a
  <2>1. /\ m0 \in N => m0 \in S[m0]
        /\ m1 \in N => m1 \in S[m1]
        /\ l \in N => l \in S[l]
    BY TreeFacts
  <2>2. a \in S[f] /\ f \in S[g]  BY <1>3, <1>4
  <2>3. a # g /\ p # f /\ p # g /\ p # a  BY <2>2, <1>3, <1>4, <1>6
  <2>4. m0 \in S[a] \/ m0 = VACANT  BY <2>1, <1>5
  <2>5. m1 \in S[a] \/ m1 = VACANT  BY <2>1, <1>5
  <2>6. l \in S[f] \/ l = VACANT  BY <2>1, <1>4
  <2>7. S[a] \subseteq S[f]  BY <1>4
  <2>8. m0 # f /\ m0 # g /\ m1 # f /\ m1 # g
    <3> HIDE DEF a, f, g, m0, m1
    <3> QED  BY <2>4, <2>5, <2>7, <1>1, <1>2, <1>3, <1>4
  <2>9. m0 # a /\ m1 # a
    <3> HIDE DEF a, f, g, m0, m1
    <3> QED  BY <2>1, <1>1, <1>2, <1>5
  <2>10. l # g /\ k # a
    <3> HIDE DEF a, f, g, l, k
    <3> QED  BY <2>2, <2>6, <1>1, <1>2, <1>3
  <2> QED  BY <2>3, <2>8, <2>9, <2>10
<1>10. p \in N \cup {VACANT}
  <2> HIDE DEF p
  <2> QED  BY <1>6, SMTT(20)
<1>11. /\ u \in Trees(N) /\ u.root = IF p = VACANT THEN a ELSE t.root
       /\ \A z \in N, i \in Side :
            Child(u, z, i) = IF z = a THEN IF i = s THEN f ELSE g
                             ELSE IF z = f /\ i = 1 - s THEN m0
                             ELSE IF z = g /\ i = s THEN m1
                             ELSE IF z = p /\ i = ps THEN a
                             ELSE Child(t, z, i)
  BY <1>1, <1>2, <1>3, <1>4, <1>5, <1>9, <1>10, DoubleLinks
<1> HIDE DEF g, f, s, p, ps, a, k, l, m0, m1, u
<1>12. /\ R \in [N \cup {VACANT} -> SUBSET N] /\ R[VACANT] = {}
       /\ \A x \in N \cup {VACANT} : x # f /\ x # g /\ x # a => R[x] = S[x]
       /\ R[a] = S[g] /\ R[f] = {f} \cup S[l] \cup S[m0] /\ R[g] = {g} \cup S[m1] \cup S[k]
       /\ R[m0] = S[m0] /\ R[m1] = S[m1] /\ R[k] = S[k] /\ R[l] = S[l]
  <2>1. S[g] \in SUBSET N /\ ({g} \cup S[m1] \cup S[k]) \in SUBSET N
        /\ ({f} \cup S[l] \cup S[m0]) \in SUBSET N
    BY <1>1, <1>2, <1>3, <1>4, <1>5
  <2>2. R \in [N \cup {VACANT} -> SUBSET N]  BY <2>1, <1>2
  <2>3. \A x \in N \cup {VACANT} : x # f /\ x # g /\ x # a => R[x] = S[x]  OBVIOUS
  <2>4. R[VACANT] = {}  BY <1>1, <1>2
  <2>5. R[a] = S[g] /\ R[f] = {f} \cup S[l] \cup S[m0] /\ R[g] = {g} \cup S[m1] \cup S[k]
    BY <1>1, <1>3, <1>4, <1>9
  <2> HIDE DEF R
  <2>6. R[m0] = S[m0] /\ R[m1] = S[m1] /\ R[k] = S[k] /\ R[l] = S[l]
    BY <2>3, <1>3, <1>4, <1>5, <1>9
  <2> QED  BY <2>2, <2>3, <2>4, <2>5, <2>6
<1> HIDE DEF R
<1>13. R[u.root] = N
  <2>1. CASE p = VACANT  BY <2>1, <1>2, <1>6, <1>11, <1>12
  <2>2. CASE p # VACANT
    <3>1. u.root = t.root /\ t.root # g /\ t.root # f /\ t.root # a
      BY <2>2, <1>6, <1>7, <1>8, <1>11
    <3> QED  BY <3>1, <1>2, <1>12
  <2> QED  BY <2>1, <2>2
<1>14. ASSUME NEW z \in N \ {f, g, a}
       PROVE  R[z] = S[z] /\ \A i \in Side : R[Child(u, z, i)] = S[Child(t, z, i)]
  <2>1. R[z] = S[z]  BY <1>12
  <2>2. ASSUME NEW i \in Side PROVE R[Child(u, z, i)] = S[Child(t, z, i)]
    <3>1. Child(u, z, i) = IF z = p /\ i = ps THEN a ELSE Child(t, z, i)
      BY <1>11
    <3>2. CASE z = p /\ i = ps
      <4>1. Child(t, z, i) = g  BY <3>2, <1>6
      <4>2. Child(u, z, i) = a  BY <3>1, <3>2
      <4> QED  BY <4>1, <4>2, <1>12
    <3>3. CASE ~ (z = p /\ i = ps)
      <4>1. Child(t, z, i) # g /\ Child(t, z, i) # f /\ Child(t, z, i) # a
        BY <3>3, <1>6, <1>7, <1>8
      <4>2. Child(t, z, i) \in N \cup {VACANT}  BY TreeFacts
      <4> QED  BY <3>1, <3>3, <4>1, <4>2, <1>12
    <3> QED  BY <3>2, <3>3
  <2> QED  BY <2>1, <2>2
<1>15. /\ K[a] \in SortCodes /\ K[f] \in SortCodes /\ K[g] \in SortCodes
       /\ \A y \in N : K[y] \in SortCodes
  BY <1>1, <1>2 DEF IsData
<1>16. /\ Child(u, a, s) = f /\ Child(u, a, 1 - s) = g
       /\ Child(u, f, s) = l /\ Child(u, f, 1 - s) = m0
       /\ Child(u, g, s) = m1 /\ Child(u, g, 1 - s) = k
  <2>1. l = Child(t, f, s) /\ k = Child(t, g, 1 - s)  BY DEF l, k
  <2>2. Child(u, a, s) = f /\ Child(u, a, 1 - s) = g  BY <1>1, <1>11
  <2>3. Child(u, f, s) = l /\ Child(u, f, 1 - s) = m0
    BY <2>1, <1>1, <1>3, <1>4, <1>9, <1>11
  <2>4. Child(u, g, s) = m1 /\ Child(u, g, 1 - s) = k
    BY <2>1, <1>1, <1>3, <1>4, <1>9, <1>11
  <2> QED  BY <2>2, <2>3, <2>4
<1>17. /\ R[a] = {a} \cup R[Child(u, a, s)] \cup R[Child(u, a, 1 - s)]
       /\ \A y \in R[Child(u, a, s)] : Lies(s, K[y], K[a])
       /\ \A y \in R[Child(u, a, 1 - s)] : Lies(1 - s, K[y], K[a])
  <2>1. R[a] = {a} \cup R[f] \cup R[g]  BY <1>3, <1>4, <1>5, <1>12
  <2>2. ASSUME NEW y \in R[f] PROVE Lies(s, K[y], K[a])
    <3>1. CASE y = f  BY <3>1, <1>4
    <3>2. CASE y \in S[m0]  BY <3>2, <1>5
    <3>3. CASE y \in S[l]
      <4>1. Lies(s, K[y], K[f]) /\ y \in N  BY <3>3, <1>4
      <4> QED  BY <4>1, <1>1, <1>4, <1>15, LiesOrder
    <3> QED  BY <3>1, <3>2, <3>3, <1>12
  <2>3. ASSUME NEW y \in R[g] PROVE Lies(1 - s, K[y], K[a])
    <3>1. Lies(1 - s, K[g], K[a])
      <4>1. Lies(s, K[a], K[g])  BY <1>3, <1>4
      <4> QED  BY <4>1, <1>1, <1>15, LiesOrder
    <3>2. CASE y = g  BY <3>1, <3>2
    <3>3. CASE y \in S[m1]  BY <3>3, <1>5
    <3>4. CASE y \in S[k]
      <4>1. Lies(1 - s, K[y], K[g]) /\ y \in N  BY <3>4, <1>3
      <4> QED  BY <4>1, <3>1, <1>1, <1>15, LiesOrder
    <3> QED  BY <3>2, <3>3, <3>4, <1>12
  <2> QED  BY <2>1, <2>2, <2>3, <1>16
<1>18. /\ R[f] = {f} \cup R[Child(u, f, s)] \cup R[Child(u, f, 1 - s)]
       /\ \A y \in R[Child(u, f, s)] : Lies(s, K[y], K[f])
       /\ \A y \in R[Child(u, f, 1 - s)] : Lies(1 - s, K[y], K[f])
  <2>1. \A y \in S[m0] : y \in S[a]  BY <1>5
  <2> QED  BY <2>1, <1>4, <1>12, <1>16
<1>19. /\ R[g] = {g} \cup R[Child(u, g, s)] \cup R[Child(u, g, 1 - s)]
       /\ \A y \in R[Child(u, g, s)] : Lies(s, K[y], K[g])
       /\ \A y \in R[Child(u, g, 1 - s)] : Lies(1 - s, K[y], K[g])
  <2>1. \A y \in S[m1] : y \in S[f]  BY <1>4, <1>5
  <2> QED  BY <2>1, <1>3, <1>12, <1>16
<1>20. IsTree(u, N, K, R)
  <2> DEFINE M == {f, g, a}
  <2>1. M \in SUBSET N  BY <1>1
  <2>2. Untouched(t, u, N, M, S, R)  BY <1>14 DEF Untouched
  <2>3. Fits(u, K, M, R)
    <3> SUFFICES ASSUME NEW z \in M
                 PROVE  \E i \in Side :
                   /\ R[z] = {z} \cup R[Child(u, z, i)] \cup R[Child(u, z, 1 - i)]
                   /\ \A y \in R[Child(u, z, i)] : Lies(i, K[y], K[z])
                   /\ \A y \in R[Child(u, z, 1 - i)] : Lies(1 - i, K[y], K[z])
      BY DEF Fits
    <3>1. CASE z = f  BY <3>1, <1>1, <1>18
    <3>2. CASE z = g  BY <3>2, <1>1, <1>19
    <3>3. CASE z = a  BY <3>3, <1>1, <1>17
    <3> QED  BY <3>1, <3>2, <3>3
  <2> HIDE DEF M
  <2>4. /\ u \in Trees(N) /\ R \in [N \cup {VACANT} -> SUBSET N]
        /\ R[VACANT] = {} /\ R[u.root] = N
    BY <1>11, <1>12, <1>13
  <2> QED  BY <2>1, <2>2, <2>3, <2>4, StillTree
<1>21. Above(u, N, p, ps, a)
  BY <1>1, <1>6, <1>9, <1>10, <1>11 DEF Above
<1>22. \A i \in Side : Child(t, a, i) # f /\ Child(t, a, i) # g /\ Child(t, a, i) # a
  BY <1>1, <1>9 DEF m0, m1
<1>23. Child(u, f, w.fr) = Child(t, a, s) /\ Child(u, g, s) = Child(t, a, w.fr)
  BY <1>1, <1>16 DEF m0, m1
<1>24. Child(u, a, s) = f /\ Child(u, a, w.fr) = g /\ w.fr = 1 - s
  BY <1>1, <1>16
<1> QED  BY <1>12, <1>20, <1>21, <1>22, <1>23, <1>24 DEF g, f, s, p, ps, a, u

---------------------------------------------------------------------------
(* The walk of dictionary_add.                                             *)

\* The locals of dictionary_add in its loop.
Walks(N) ==
  [word : SortCodes, flags : FlagSets,
   ggf : N \cup {VACANT}, gf : N \cup {VACANT}, f : N \cup {VACANT}, at : N,
   ggfr : Side, gfr : Side, fr : Side, r : Side]

(* Colours are no part of the order of a tree, nor of the path to a place. *)
LEMMA Recoloured ==
  ASSUME NEW t, NEW N, NEW K, NEW S, IsTree(t, N, K, S),
         NEW u \in Trees(N), u.root = t.root, SameLinks(u, t, N)
  PROVE  /\ IsTree(u, N, K, S)
         /\ \A w : Linked(t, N, w) => Linked(u, N, w)
<1>1. 0 \in Side /\ 1 \in Side
  BY DEF Side
<1>2. \A z \in N, i \in Side : Child(u, z, i) = Child(t, z, i)
  BY DEF SameLinks
<1>3. Spans(u, N, S)
  BY <1>1, <1>2 DEF IsTree, Spans
<1>4. Sorted(u, N, K, S)
  BY <1>2 DEF IsTree, Sorted
<1>5. IsTree(u, N, K, S)
  BY <1>3, <1>4 DEF IsTree
<1>6. ASSUME NEW w, Linked(t, N, w)
      PROVE  Linked(u, N, w)
  BY <1>2, <1>6 DEF Linked, Seated, Above
<1> QED
  BY <1>5, <1>6

(* Redden gives a node another colour.                                     *)
LEMMA Reddened ==
  ASSUME NEW N, NEW t \in Trees(N), NEW x \in N
  PROVE  Redden(t, x) \in Trees(N) /\ Redden(t, x).root = t.root /\ SameLinks(Redden(t, x), t, N)
  BY SetColour DEF Redden

(* Split gives a node and the two below it another colour.                 *)
LEMMA SplitApart ==
  ASSUME NEW N, NEW t \in Trees(N), VACANT \notin N, NEW x \in N, BothRed(t, x)
  PROVE  Split(t, x) \in Trees(N) /\ Split(t, x).root = t.root /\ SameLinks(Split(t, x), t, N)
<1> DEFINE l == Child(t, x, 0)
           k == Child(t, x, 1)
           t1 == [t EXCEPT !.node[l].colour = "black"]
           t2 == [t1 EXCEPT !.node[k].colour = "black"]
<1>1. l \in N /\ k \in N
  <2>1. l \in N \cup {VACANT} /\ k \in N \cup {VACANT}
    BY DEF Trees, NodeOn, Child, Side
  <2> QED
    BY <2>1 DEF BothRed, Red
<1>2. t1 \in Trees(N) /\ t1.root = t.root /\ SameLinks(t1, t, N)
  BY <1>1, SetColour
<1>3. t2 \in Trees(N) /\ t2.root = t1.root /\ SameLinks(t2, t1, N)
  <2> HIDE DEF t1, l, k
  <2> QED
    BY <1>1, <1>2, SetColour
<1>4. [t EXCEPT !.node[l].colour = "black", !.node[k].colour = "black"] = t2
  OBVIOUS
<1>5. Split(t, x) = Redden(t2, x)
  BY <1>4 DEF Split
<1>6. /\ Redden(t2, x) \in Trees(N) /\ Redden(t2, x).root = t2.root
      /\ SameLinks(Redden(t2, x), t2, N)
  <2> HIDE DEF t2
  <2> QED
    BY <1>3, Reddened
<1> QED
  <2> HIDE DEF t1, t2, l, k
  <2> QED
    BY <1>2, <1>3, <1>5, <1>6 DEF SameLinks

\* The tree u with spans R and the walk v are what a rotation makes of t and w.
Turned(t, u, N, S, R, w, v) ==
  LET below == Child(t, w.at, w.r) IN
  /\ v \in Walks(N) /\ v.word = w.word /\ v.flags = w.flags
  /\ Seated(u, N, v)
  /\ Child(u, v.at, v.r) = below
  /\ R[below] = S[below]
  /\ \/ v.at = w.at /\ v.r = w.r
     \/ v.at = Child(u, w.at, w.r) /\ v.r = 1 - w.r

(* A rotation keeps the order, and the walk goes on to the same entry.     *)
LEMMA Turns ==
  ASSUME NEW t, NEW N, NEW K, NEW S, IsTree(t, N, K, S),
         NEW w \in Walks(N), Linked(t, N, w)
  PROVE  \E R : /\ IsTree(Rotated(t, w), N, K, R)
                /\ Turned(t, Rotated(t, w), N, S, R, w, Reseated(t, w))
<1> DEFINE below == Child(t, w.at, w.r)
<1>1. /\ w.at \in N /\ w.r \in Side /\ Seated(t, N, w) /\ w.ggfr \in Side /\ w.fr \in Side
      /\ w.gfr \in Side /\ w.ggf \in N \cup {VACANT} /\ w.f \in N \cup {VACANT}
      /\ w.gf \in N \cup {VACANT}
  BY DEF Linked, Seated, Walks
<1>2. VACANT \notin N /\ below \in N \cup {VACANT}
  BY <1>1, TreeFacts DEF IsTree, IsData
<1>3. 1 - w.r \in Side /\ 1 - (1 - w.r) = w.r
  BY <1>1 DEF Side
<1>4. CASE ~ MustTurn(t, w)
  <2>1. Rotated(t, w) = t /\ Reseated(t, w) = w
    BY <1>4 DEF Rotated, Reseated
  <2>2. Turned(t, t, N, S, S, w, w)
    BY <1>1 DEF Turned
  <2> QED
    BY <2>1, <2>2
<1>5. CASE MustTurn(t, w) /\ w.fr = w.gfr
  <2> DEFINE u == Single(t, w)
             v == [w EXCEPT !.gf = w.ggf, !.gfr = w.ggfr]
  <2>1. Rotated(t, w) = u /\ Reseated(t, w) = v
    BY <1>5 DEF Rotated, Reseated
  <2>2. w.f # VACANT /\ w.gf # VACANT
    BY <1>5 DEF MustTurn
  <2>3. PICK R :
           /\ IsTree(u, N, K, R)
           /\ \A x \in N \cup {VACANT} : x # w.f /\ x # w.gf => R[x] = S[x]
           /\ w.at # w.f /\ w.at # w.gf
           /\ \A i \in Side : Child(t, w.at, i) # w.f /\ Child(t, w.at, i) # w.gf
           /\ \A i \in Side : Child(u, w.at, i) = Child(t, w.at, i)
           /\ Above(u, N, w.ggf, w.ggfr, w.f)
           /\ Child(u, w.f, w.fr) = w.at
    BY <1>5, <2>2, SingleTurns
  <2> HIDE DEF u
  <2>4. /\ v \in Walks(N) /\ v.at = w.at /\ v.r = w.r /\ v.word = w.word /\ v.flags = w.flags
        /\ v.f = w.f /\ v.fr = w.fr /\ v.gf = w.ggf /\ v.gfr = w.ggfr
    BY <1>1 DEF Walks
  <2> HIDE DEF v
  <2>5. Above(u, N, v.f, v.fr, v.at)
    BY <1>1, <2>2, <2>3, <2>4 DEF Above
  <2>6. Seated(u, N, v)
    BY <1>1, <2>2, <2>3, <2>4, <2>5 DEF Seated
  <2>7. Child(u, v.at, v.r) = below /\ R[below] = S[below]
    BY <1>1, <1>2, <2>3, <2>4
  <2>8. Turned(t, u, N, S, R, w, v)
    BY <2>4, <2>6, <2>7 DEF Turned
  <2> QED
    BY <2>1, <2>3, <2>8
<1>6. CASE MustTurn(t, w) /\ w.fr # w.gfr
  <2> DEFINE u == Double(t, w)
             a == IF 1 - w.r = w.fr THEN w.f ELSE w.gf
             v == [w EXCEPT !.r = 1 - w.r, !.at = a, !.f = w.at, !.fr = w.r,
                            !.gf = w.ggf, !.gfr = w.ggfr]
  <2>1. Rotated(t, w) = u /\ Reseated(t, w) = v
    BY <1>6 DEF Rotated, Reseated
  <2>2. w.f # VACANT /\ w.gf # VACANT
    BY <1>6 DEF MustTurn
  <2>3. PICK R :
           /\ IsTree(u, N, K, R)
           /\ \A x \in N \cup {VACANT} : x # w.f /\ x # w.gf /\ x # w.at => R[x] = S[x]
           /\ \A i \in Side :
                Child(t, w.at, i) # w.f /\ Child(t, w.at, i) # w.gf /\ Child(t, w.at, i) # w.at
           /\ w.fr = 1 - w.gfr
           /\ Child(u, w.at, w.gfr) = w.f
           /\ Child(u, w.at, w.fr) = w.gf
           /\ Child(u, w.f, w.fr) = Child(t, w.at, w.gfr)
           /\ Child(u, w.gf, w.gfr) = Child(t, w.at, w.fr)
           /\ Above(u, N, w.ggf, w.ggfr, w.at)
    BY <1>6, <2>2, DoubleTurns
  <2> HIDE DEF u
  <2>4. a \in N
    BY <1>1, <2>2
  <2>5. \/ w.r = w.gfr /\ a = w.f /\ 1 - w.r = w.fr
        \/ w.r = w.fr /\ a = w.gf /\ 1 - w.r = w.gfr
    BY <1>1, <2>3 DEF Side
  <2> HIDE DEF a
  <2>6. a = Child(u, w.at, w.r) /\ Child(u, a, 1 - w.r) = below
    BY <2>3, <2>5
  <2>7. /\ v \in Walks(N) /\ v.at = a /\ v.r = 1 - w.r /\ v.word = w.word /\ v.flags = w.flags
        /\ v.f = w.at /\ v.fr = w.r /\ v.gf = w.ggf /\ v.gfr = w.ggfr
    BY <1>1, <1>3, <2>4 DEF Walks
  <2> HIDE DEF v
  <2>8. Above(u, N, v.f, v.fr, v.at)
    BY <1>1, <1>2, <2>6, <2>7 DEF Above
  <2>9. Seated(u, N, v)
    BY <1>1, <1>2, <1>3, <2>3, <2>4, <2>7, <2>8 DEF Seated
  <2>10. R[below] = S[below]
    BY <1>1, <1>2, <2>3
  <2>11. Turned(t, u, N, S, R, w, v)
    BY <2>6, <2>7, <2>9, <2>10 DEF Turned
  <2> QED
    BY <2>1, <2>3, <2>11
<1> QED
  BY <1>4, <1>5, <1>6
---------------------------------------------------------------------------
(* The place of a word.                                                    *)

\* Outside of A no entry has the word, and none lies between it and A.
Close(word, N, K, A) ==
  \A y \in N \ A :
    K[y] # word /\ \A z \in A : Before(word, K[y]) = Before(K[z], K[y])

\* No entry lies between the word and the entry a, which has it on side r.
Adjacent(word, N, K, a, r) ==
  /\ Lies(r, word, K[a])
  /\ \A y \in N : y # a => K[y] # word /\ Before(word, K[y]) = Before(K[a], K[y])

(* Two words on one side of a third, in terms of the order.                *)
LEMMA SameSide ==
  ASSUME NEW s \in Side, NEW c \in SortCodes, NEW d \in SortCodes, NEW e \in SortCodes
  PROVE  /\ Lies(s, c, e) /\ Lies(s, d, e) => Before(c, e) = Before(d, e)
         /\ c # e /\ Before(c, e) = Before(d, e) /\ Lies(s, d, e) => Lies(s, c, e)
<1>1. /\ Before(c, e) => ~ Before(e, c)
      /\ Before(d, e) => ~ Before(e, d)
      /\ c # e => Before(c, e) \/ Before(e, c)
  BY StrictOrder
<1>2. Before(c, e) \in BOOLEAN /\ Before(d, e) \in BOOLEAN
  BY DEF Before
<1>3. CASE s = 0
  BY <1>1, <1>2, <1>3 DEF Lies
<1>4. CASE s # 0
  BY <1>1, <1>2, <1>4 DEF Lies
<1> QED
  BY <1>3, <1>4

(* The turn that compares the word with an entry and goes on below it      *)
(* passes no entry the word belongs to the other side of.                  *)
LEMMA Down ==
  ASSUME NEW t, NEW N, NEW K, NEW S, IsTree(t, N, K, S), NEW word \in SortCodes,
         NEW at \in N, NEW r \in Side, Lies(r, word, K[at]),
         Close(word, N, K, S[at]), Child(t, at, r) \in N
  PROVE  Close(word, N, K, S[Child(t, at, r)])
<1> DEFINE c == Child(t, at, r)
<1> SUFFICES ASSUME NEW y \in N \ S[c], NEW z \in S[c]
             PROVE  Before(word, K[y]) = Before(K[z], K[y])
    <2>1. \A y \in N \ S[c] : K[y] # word
      <3> SUFFICES ASSUME NEW y \in N \ S[c] PROVE K[y] # word
        OBVIOUS
      <3>1. CASE y \notin S[at]
        BY <3>1 DEF Close
      <3>2. CASE y = at
        BY <3>2, LiesOrder, TreeFacts
      <3>3. CASE y \in S[at] /\ y # at
        <4>1. y \in S[Child(t, at, 1 - r)] /\ 1 - r \in Side
          BY <3>3, TreeFacts, LiesOrder
        <4>2. Lies(1 - r, K[y], K[at]) /\ K[y] \in SortCodes /\ K[at] \in SortCodes
          BY <4>1, TreeFacts
        <4>3. ~ Lies(1 - r, word, K[at])
          BY <4>2, LiesOrder
        <4> QED
          BY <4>2, <4>3
      <3> QED
        BY <3>1, <3>2, <3>3
    <2> QED
      BY <2>1 DEF Close
<1>1. S[c] \subseteq S[at] /\ z \in N /\ Lies(r, K[z], K[at])
  BY TreeFacts
<1>2. K[at] \in SortCodes /\ K[z] \in SortCodes /\ K[y] \in SortCodes
  BY <1>1, TreeFacts
<1>3. CASE y \notin S[at]
  BY <1>1, <1>3 DEF Close
<1>4. CASE y = at
  BY <1>1, <1>2, <1>4, SameSide
<1>5. CASE y \in S[at] /\ y # at
  <2>1. y \in S[Child(t, at, 1 - r)] /\ 1 - r \in Side
    BY <1>5, TreeFacts, LiesOrder
  <2>2. Lies(1 - r, K[y], K[at])
    BY <2>1, TreeFacts
  <2>3. Lies(r, K[at], K[y])
    BY <1>2, <2>2, LiesOrder
  <2>4. Lies(r, word, K[y])
    BY <1>2, <2>3, LiesOrder
  <2>5. Lies(r, K[z], K[y])
    BY <1>1, <1>2, <2>3, LiesOrder
  <2> QED
    BY <1>2, <2>4, <2>5, SameSide
<1> QED
  BY <1>3, <1>4, <1>5

(* Where the walk ends at a vacant branch, the word is adjacent.           *)
LEMMA Brink ==
  ASSUME NEW t, NEW N, NEW K, NEW S, IsTree(t, N, K, S), NEW word \in SortCodes,
         NEW at \in N, NEW r \in Side, Lies(r, word, K[at]),
         Close(word, N, K, S[at]), Child(t, at, r) = VACANT
  PROVE  Adjacent(word, N, K, at, r)
<1> SUFFICES ASSUME NEW y \in N, y # at
             PROVE  K[y] # word /\ Before(word, K[y]) = Before(K[at], K[y])
  BY DEF Adjacent
<1>1. at \in S[at] /\ K[at] \in SortCodes /\ K[y] \in SortCodes /\ S[VACANT] = {}
  BY TreeFacts
<1>2. CASE y \notin S[at]
  BY <1>1, <1>2 DEF Close
<1>3. CASE y \in S[at]
  <2>1. y \in S[Child(t, at, 1 - r)] /\ 1 - r \in Side
    BY <1>1, <1>3, TreeFacts, LiesOrder
  <2>2. Lies(1 - r, K[y], K[at])
    BY <2>1, TreeFacts
  <2>3. Lies(r, K[at], K[y])
    BY <1>1, <2>2, LiesOrder
  <2>4. Lies(r, word, K[y])
    BY <1>1, <2>3, LiesOrder
  <2>5. word # K[y]
    BY <1>1, <2>4, LiesOrder
  <2> QED
    BY <1>1, <2>3, <2>4, <2>5, SameSide
<1> QED
  BY <1>2, <1>3

(* The double rotation of the last turn: the vacant place goes to the      *)
(* other side of the entry that is now below.                              *)
LEMMA Shifted ==
  ASSUME NEW t, NEW N, NEW K, NEW S, IsTree(t, N, K, S), NEW word \in SortCodes,
         NEW at \in N, NEW r \in Side, Adjacent(word, N, K, at, r),
         Child(t, at, r) \in N, Child(t, Child(t, at, r), 1 - r) = VACANT
  PROVE  Adjacent(word, N, K, Child(t, at, r), 1 - r)
<1> DEFINE a == Child(t, at, r)
<1>1. /\ a \in N /\ Lies(r, K[a], K[at]) /\ K[a] \in SortCodes /\ K[at] \in SortCodes
      /\ a # at /\ a \in S[a] /\ S[a] \subseteq S[at] /\ at \in S[at] /\ S[VACANT] = {}
  BY TreeFacts
<1>2. 1 - r \in Side /\ 1 - (1 - r) = r
  BY LiesOrder
<1>3. Lies(1 - r, K[at], K[a])
  BY <1>1, LiesOrder
<1>4. Lies(r, word, K[at])
  BY DEF Adjacent
<1>5. Child(t, a, 1 - r) = VACANT
  OBVIOUS
<1> HIDE DEF a
<1>6. Lies(1 - r, word, K[a])
  <2>1. K[a] # word /\ Before(word, K[a]) = Before(K[at], K[a])
    BY <1>1 DEF Adjacent
  <2> QED
    BY <1>1, <1>2, <1>3, <2>1, SameSide
<1>7. ASSUME NEW y \in N, y # a
      PROVE  K[y] # word /\ Before(word, K[y]) = Before(K[a], K[y])
  <2>1. K[y] \in SortCodes
    BY TreeFacts
  <2>2. CASE y = at
    <3>1. word # K[y]
      BY <1>4, <2>1, <2>2, LiesOrder
    <3> QED
      BY <1>1, <1>4, <2>2, <3>1, SameSide
  <2>3. CASE y # at
    <3>1. K[y] # word /\ Before(word, K[y]) = Before(K[at], K[y])
      BY <2>3 DEF Adjacent
    <3>2. \E s \in Side : Lies(s, K[at], K[y]) /\ Lies(s, K[a], K[y])
      <4>1. CASE y \in S[a]
        <5>1. y \in S[Child(t, a, r)]
          BY <1>1, <1>2, <1>5, <1>7, <4>1, TreeFacts
        <5>2. Lies(r, K[y], K[a])
          BY <1>1, <5>1, TreeFacts
        <5>3. Lies(r, K[y], K[at])
          BY <1>1, <2>1, <5>2, LiesOrder
        <5>4. Lies(1 - r, K[a], K[y]) /\ Lies(1 - r, K[at], K[y])
          BY <1>1, <2>1, <5>2, <5>3, LiesOrder
        <5> QED
          BY <1>2, <5>4
      <4>2. CASE y \in S[at] /\ y \notin S[a]
        <5>1. y \in S[Child(t, at, 1 - r)]
          BY <1>2, <2>3, <4>2, TreeFacts DEF a
        <5>2. Lies(1 - r, K[y], K[at])
          BY <1>2, <5>1, TreeFacts
        <5>3. Lies(r, K[at], K[y])
          BY <1>1, <2>1, <5>2, LiesOrder
        <5>4. Lies(r, K[a], K[y])
          BY <1>1, <2>1, <5>3, LiesOrder
        <5> QED
          BY <5>3, <5>4
      <4>3. CASE y \notin S[at]
        <5>1. PICK s \in Side : \A v \in S[at] : v \in N /\ Lies(s, K[v], K[y])
          BY <4>3, OnOneSide
        <5> QED
          BY <1>1, <5>1
      <4> QED
        BY <4>1, <4>2, <4>3
    <3>3. PICK s \in Side : Lies(s, K[at], K[y]) /\ Lies(s, K[a], K[y])
      BY <3>2
    <3>4. Before(K[at], K[y]) = Before(K[a], K[y])
      BY <1>1, <2>1, <3>3, SameSide
    <3> QED
      BY <3>1, <3>4
  <2> QED
    BY <2>2, <2>3
<1>8. Adjacent(word, N, K, a, 1 - r)
  BY <1>6, <1>7 DEF Adjacent
<1> QED
  BY <1>8 DEF a
---------------------------------------------------------------------------
(* A new entry.                                                            *)

\* u is t with the entry n on side r of a.
Grafted(t, u, N, a, r, n) ==
  /\ u \in Trees(N \cup {n}) /\ u.root = t.root
  /\ \A z \in N, i \in Side :
       Child(u, z, i) = IF z = a /\ i = r THEN n ELSE Child(t, z, i)
  /\ \A i \in Side : Child(u, n, i) = VACANT

(* CreateEntry at a branch makes a tree of one entry more.                 *)
LEMMA NewLeaf ==
  ASSUME NEW N, NEW t \in Trees(N), dict_entries \notin N, NEW a \in N, NEW r \in Side
  PROVE  Grafted(t, NewNode([t EXCEPT !.node[a].branch[r] = dict_entries]), N, a, r, dict_entries)
<1> DEFINE n == dict_entries
           leaf == [branch |-> [side \in 0 .. 1 |-> VACANT], colour |-> "black"]
           b == [t.node[a].branch EXCEPT ![r] = n]
           c == [t.node[a] EXCEPT !.branch = b]
           d == [t.node EXCEPT ![a] = c]
           e == [x \in N \cup {n} |-> IF x = n THEN leaf ELSE d[x]]
           u == [t EXCEPT !.node = e]
<1>1. t.node \in [N -> NodeOn(N)] /\ t.root \in N \cup {VACANT} /\ t.node[a] \in NodeOn(N)
  BY DEF Trees
<1>2. b \in [Side -> N \cup {n} \cup {VACANT}]
      /\ \A i \in Side : b[i] = IF i = r THEN n ELSE t.node[a].branch[i]
  BY <1>1 DEF NodeOn
<1>3. c \in NodeOn(N \cup {n}) /\ c.branch = b
  <2> HIDE DEF b
  <2> QED
    BY <1>1, <1>2 DEF NodeOn
<1>4. leaf \in NodeOn(N \cup {n}) /\ \A i \in Side : leaf.branch[i] = VACANT
  BY DEF NodeOn, Side
<1>5. /\ DOMAIN d = N
      /\ \A x \in N : d[x] \in NodeOn(N \cup {n}) /\ d[x] = IF x = a THEN c ELSE t.node[x]
  <2> HIDE DEF c
  <2>1. \A x \in N : t.node[x] \in NodeOn(N \cup {n})
    BY <1>1 DEF NodeOn
  <2> QED
    BY <1>1, <1>3, <2>1
<1>6. /\ e \in [N \cup {n} -> NodeOn(N \cup {n})] /\ e[n] = leaf
      /\ \A x \in N : e[x] = d[x]
  <2> HIDE DEF d, leaf
  <2> QED
    BY <1>4, <1>5
<1>7. u \in Trees(N \cup {n}) /\ u.node = e /\ u.root = t.root
  <2> HIDE DEF e
  <2>1. u = [root |-> t.root, node |-> e]
    BY DEF Trees
  <2> QED
    BY <1>1, <1>6, <2>1 DEF Trees
<1>8. \A z \in N, i \in Side :
        u.node[z].branch[i] = IF z = a /\ i = r THEN n ELSE t.node[z].branch[i]
  <2> HIDE DEF u, e, d, c, b
  <2> QED
    BY <1>2, <1>3, <1>5, <1>6, <1>7
<1>9. NewNode([t EXCEPT !.node[a].branch[r] = n]) = u
  <2>1. [t EXCEPT !.node[a].branch[r] = n] = [t EXCEPT !.node = d]
    BY <1>1 DEF Trees
  <2>2. [t EXCEPT !.node = d].node = d
    BY DEF Trees
  <2>3. NewNode([t EXCEPT !.node = d]) = [[t EXCEPT !.node = d] EXCEPT !.node = e]
    <3> HIDE DEF d
    <3> QED
      BY <1>5, <2>2 DEF NewNode
  <2>4. [[t EXCEPT !.node = d] EXCEPT !.node = e] = u
    <3> HIDE DEF d, e
    <3> QED
      BY DEF Trees
  <2> QED
    BY <2>1, <2>3, <2>4
<1> QED
  <2> HIDE DEF u, e, leaf, d
  <2> QED
    BY <1>4, <1>6, <1>7, <1>8, <1>9 DEF Grafted, Child

(* A new entry at a vacant branch beside which its word belongs keeps the  *)
(* order of the tree.                                                      *)
LEMMA Grafts ==
  ASSUME NEW t, NEW N, NEW K, NEW S, IsTree(t, N, K, S), NEW a \in N, NEW r \in Side,
         NEW n, n \notin N, n # VACANT, NEW word \in SortCodes,
         Adjacent(word, N, K, a, r), Child(t, a, r) = VACANT,
         NEW u, Grafted(t, u, N, a, r, n),
         NEW L \in [N \cup {n} -> SortCodes], L[n] = word, \A x \in N : L[x] = K[x]
  PROVE  \E R : IsTree(u, N \cup {n}, L, R)
<1> DEFINE M == N \cup {n}
           grown(x) == IF a \in S[x] THEN S[x] \cup {n} ELSE S[x]
           R == [x \in M \cup {VACANT} |-> IF x = n THEN {n} ELSE grown(x)]
<1>1. /\ u \in Trees(M) /\ u.root = t.root
      /\ \A z \in N, i \in Side :
           Child(u, z, i) = IF z = a /\ i = r THEN n ELSE Child(t, z, i)
      /\ \A i \in Side : Child(u, n, i) = VACANT
  BY DEF Grafted
<1>2. S[VACANT] = {} /\ S[t.root] = N /\ t.root \in N \cup {VACANT} /\ VACANT \notin N
  BY TreeFacts DEF IsTree, IsData
<1>3. \A x \in N : S[x] \subseteq N
  BY TreeFacts
<1>4. IsData(M, L)
  <2>1. IsFiniteSet(M)
    BY FS_AddElement DEF IsTree, IsData
  <2> QED
    BY <1>2, <2>1 DEF IsData
<1>5. /\ R \in [M \cup {VACANT} -> SUBSET M] /\ R[n] = {n} /\ R[VACANT] = {}
      /\ \A x \in N \cup {VACANT} : R[x] = grown(x)
  BY <1>2, <1>3
<1> HIDE DEF R
<1>6. \A z \in N, i \in Side :
        R[Child(u, z, i)] = IF z = a /\ i = r THEN {n} ELSE grown(Child(t, z, i))
  <2>1. \A z \in N, i \in Side : Child(t, z, i) \in N \cup {VACANT}
    BY TreeFacts
  <2> QED
    BY <1>1, <1>5, <2>1
<1>7. R[u.root] = M
  BY <1>1, <1>2, <1>5
<1>8. ASSUME NEW x \in N
      PROVE  R[x] = {x} \cup R[Child(u, x, 0)] \cup R[Child(u, x, 1)]
  <2>1. 0 \in Side /\ 1 \in Side /\ 1 - 0 = 1 /\ 1 - 1 = 0
    BY DEF Side
  <2>2. /\ S[x] = {x} \cup S[Child(t, x, 0)] \cup S[Child(t, x, 1)]
        /\ S[Child(t, x, 0)] \cap S[Child(t, x, 1)] = {}
        /\ x \notin S[Child(t, x, 0)] /\ x \notin S[Child(t, x, 1)]
    <3>1. S[x] = {x} \cup S[Child(t, x, 0)] \cup S[Child(t, x, 1)]
      BY DEF IsTree, Spans
    <3>2. S[Child(t, x, 0)] \cap S[Child(t, x, 1 - 0)] = {}
      BY <2>1, TreeFacts
    <3>3. x \notin S[Child(t, x, 0)] /\ x \notin S[Child(t, x, 1)]
      BY <2>1, TreeFacts
    <3> QED
      BY <2>1, <3>1, <3>2, <3>3
  <2>3. R[x] = grown(x)
    BY <1>5
  <2>4. CASE x = a
    <3>1. r = 0 \/ r = 1
      BY DEF Side
    <3>2. R[x] = S[x] \cup {n}
      BY <2>2, <2>3, <2>4
    <3>3. CASE r = 0
      <4>1. R[Child(u, x, 0)] = {n} /\ R[Child(u, x, 1)] = S[Child(t, x, 1)]
        <5>1. R[Child(u, x, 0)] = {n} /\ R[Child(u, x, 1)] = grown(Child(t, x, 1))
          <6> HIDE DEF grown
          <6> QED
            BY <1>6, <2>1, <2>4, <3>3
        <5> QED
          BY <2>2, <2>4, <5>1
      <4> QED
        BY <1>2, <2>2, <2>4, <3>2, <3>3, <4>1
    <3>4. CASE r = 1
      <4>1. R[Child(u, x, 1)] = {n} /\ R[Child(u, x, 0)] = S[Child(t, x, 0)]
        <5>1. R[Child(u, x, 1)] = {n} /\ R[Child(u, x, 0)] = grown(Child(t, x, 0))
          <6> HIDE DEF grown
          <6> QED
            BY <1>6, <2>1, <2>4, <3>4
        <5> QED
          BY <2>2, <2>4, <5>1
      <4> QED
        BY <1>2, <2>2, <2>4, <3>2, <3>4, <4>1
    <3> QED
      BY <3>1, <3>3, <3>4
  <2>5. CASE x # a
    <3>1. R[Child(u, x, 0)] = grown(Child(t, x, 0)) /\ R[Child(u, x, 1)] = grown(Child(t, x, 1))
      BY <1>6, <2>1, <2>5
    <3> QED
      BY <2>2, <2>3, <2>5, <3>1
  <2> QED
    BY <2>4, <2>5
<1>9. R[n] = {n} \cup R[Child(u, n, 0)] \cup R[Child(u, n, 1)]
  BY <1>1, <1>5 DEF Side
<1>10. Spans(u, M, R)
  BY <1>5, <1>7, <1>8, <1>9 DEF Spans
<1>11. ASSUME NEW x \in M, NEW s \in Side, NEW y \in R[Child(u, x, s)]
       PROVE  Lies(s, L[y], L[x])
  <2>1. CASE x = n
    BY <1>1, <1>5, <1>11, <2>1
  <2>2. CASE x \in N /\ x = a /\ s = r
    <3>1. y = n
      BY <1>6, <1>11, <2>2
    <3> QED
      BY <2>2, <3>1 DEF Adjacent
  <2>3. CASE x \in N /\ ~ (x = a /\ s = r)
    <3> DEFINE c == Child(t, x, s)
    <3>1. y \in grown(c)
      BY <1>6, <1>11, <2>3
    <3>2. \A z \in S[c] : Lies(s, K[z], K[x]) /\ z \in N
      BY <2>3, TreeFacts
    <3>3. CASE y \in S[c]
      BY <2>3, <3>2, <3>3
    <3>4. CASE y \notin S[c]
      <4>1. y = n /\ a \in S[c]
        BY <3>1, <3>4
      <4>2. a # x /\ Lies(s, K[a], K[x]) /\ K[a] \in SortCodes /\ K[x] \in SortCodes
        BY <2>3, <3>2, <4>1, TreeFacts
      <4>3. K[x] # word /\ Before(word, K[x]) = Before(K[a], K[x])
        BY <2>3, <4>2 DEF Adjacent
      <4>4. Lies(s, word, K[x])
        BY <4>2, <4>3, SameSide
      <4> QED
        BY <2>3, <4>1, <4>4
    <3> QED
      BY <3>3, <3>4
  <2> QED
    BY <2>1, <2>2, <2>3
<1>12. Sorted(u, M, L, R)
  BY <1>11 DEF Sorted
<1>13. IsTree(u, M, L, R)
  BY <1>1, <1>4, <1>10, <1>12 DEF IsTree
<1> QED
  BY <1>13

(* The first entry makes a tree of its own.                                *)
LEMMA FirstLeaf ==
  ASSUME NEW t \in Trees({}), dict_entries = 0, NEW L \in [{0} -> SortCodes]
  PROVE  \E R : IsTree(NewNode([t EXCEPT !.root = 0]), {0}, L, R)
<1> DEFINE leaf == [branch |-> [side \in 0 .. 1 |-> VACANT], colour |-> "black"]
           u == [root |-> 0, node |-> [x \in {0} |-> leaf]]
           R == [x \in {0} \cup {VACANT} |-> IF x = 0 THEN {0} ELSE {}]
<1>1. 0 # VACANT
  BY DEF VACANT
<1>2. NewNode([t EXCEPT !.root = 0]) = u
  <2>1. DOMAIN t.node = {} /\ t = [root |-> t.root, node |-> t.node]
    BY DEF Trees
  <2>2. [t EXCEPT !.root = 0].node = t.node
    BY <2>1
  <2>3. NewNode([t EXCEPT !.root = 0]) =
          [[t EXCEPT !.root = 0] EXCEPT !.node = [x \in {0} |-> leaf]]
    BY <2>1, <2>2 DEF NewNode
  <2> QED
    BY <2>1, <2>3
<1>3. leaf \in NodeOn({0}) /\ \A i \in Side : leaf.branch[i] = VACANT
  BY DEF NodeOn, Side
<1>4. u \in Trees({0}) /\ \A i \in Side : Child(u, 0, i) = VACANT
  <2> HIDE DEF leaf
  <2> QED
    BY <1>3 DEF Trees, Child
<1>5. R \in [{0} \cup {VACANT} -> SUBSET {0}] /\ R[0] = {0} /\ R[VACANT] = {}
  BY <1>1
<1>6. u.root = 0
  OBVIOUS
<1> HIDE DEF u, R
<1>7. IsData({0}, L)
  BY <1>1, FS_Singleton DEF IsData
<1>8. Spans(u, {0}, R)
  BY <1>4, <1>5, <1>6 DEF Spans, Side
<1>9. Sorted(u, {0}, L, R)
  BY <1>4, <1>5 DEF Sorted
<1>10. IsTree(u, {0}, L, R)
  BY <1>4, <1>7, <1>8, <1>9 DEF IsTree
<1> QED
  BY <1>2, <1>10
---------------------------------------------------------------------------
(* The turns of the loop.                                                  *)

\* The walk w has come close to its word in the tree t with spans S.
Arrived(t, N, K, S, w) ==
  w \in Walks(N) /\ Linked(t, N, w) /\ Close(w.word, N, K, S[w.at])

\* ... and the side of the entry is chosen that its word belongs to.
Aimed(t, N, K, S, w) == Arrived(t, N, K, S, w) /\ Lies(w.r, w.word, K[w.at])

\* The comparison at the head of the loop.
Aim(w, K) == [w EXCEPT !.r = IF Before(w.word, K[w.at]) THEN 0 ELSE 1]

\* The assignments at its foot.
Below(t, v) ==
  [v EXCEPT !.ggf = v.gf, !.gf = v.f, !.f = v.at, !.at = Child(t, v.at, v.r),
            !.ggfr = v.gfr, !.gfr = v.fr, !.fr = v.r]

(* The comparison chooses the side the word belongs to.                    *)
LEMMA Aims ==
  ASSUME NEW t, NEW N, NEW K, NEW S, IsTree(t, N, K, S), NEW w, Arrived(t, N, K, S, w),
         w.word # K[w.at]
  PROVE  Aimed(t, N, K, S, Aim(w, K)) /\ Aim(w, K).word = w.word
<1> DEFINE r == IF Before(w.word, K[w.at]) THEN 0 ELSE 1
           v == [w EXCEPT !.r = r]
<1>1. w \in Walks(N) /\ Linked(t, N, w) /\ Close(w.word, N, K, S[w.at])
  BY DEF Arrived
<1>2. r \in Side
  BY DEF Side
<1>3. Lies(r, w.word, K[w.at])
  <2>1. w.word \in SortCodes /\ w.at \in N
    BY <1>1 DEF Walks
  <2>2. K[w.at] \in SortCodes
    BY <2>1, TreeFacts
  <2> QED
    BY <2>1, <2>2, StrictOrder DEF Lies
<1> HIDE DEF r
<1>4. /\ v \in Walks(N) /\ v.r = r /\ v.at = w.at /\ v.word = w.word /\ v.flags = w.flags
      /\ v.f = w.f /\ v.gf = w.gf /\ v.ggf = w.ggf
      /\ v.fr = w.fr /\ v.gfr = w.gfr /\ v.ggfr = w.ggfr
  BY <1>1, <1>2 DEF Walks
<1> HIDE DEF v
<1>5. Linked(t, N, v)
  BY <1>1, <1>2, <1>4 DEF Linked, Seated
<1>6. Aimed(t, N, K, S, v)
  BY <1>1, <1>3, <1>4, <1>5 DEF Aimed, Arrived
<1> QED
  BY <1>4, <1>6 DEF v, r, Aim

(* A turn that goes on: the walk arrives at the entry below.               *)
LEMMA GoesOn ==
  ASSUME NEW t, NEW N, NEW K, NEW S, IsTree(t, N, K, S), NEW w, Aimed(t, N, K, S, w),
         NEW u, NEW R, IsTree(u, N, K, R), NEW v, Turned(t, u, N, S, R, w, v),
         Child(u, v.at, v.r) # VACANT
  PROVE  Arrived(u, N, K, R, Below(u, v)) /\ Below(u, v).word = w.word
<1> DEFINE c == Child(u, v.at, v.r)
           x == [v EXCEPT !.ggf = v.gf, !.gf = v.f, !.f = v.at, !.at = c,
                          !.ggfr = v.gfr, !.gfr = v.fr, !.fr = v.r]
<1>1. /\ w \in Walks(N) /\ Linked(t, N, w) /\ Close(w.word, N, K, S[w.at])
      /\ Lies(w.r, w.word, K[w.at])
  BY DEF Aimed, Arrived
<1>2. w.at \in N /\ w.r \in Side /\ w.word \in SortCodes
  BY <1>1 DEF Walks
<1>3. v \in Walks(N) /\ v.word = w.word /\ Seated(u, N, v)
  BY DEF Turned
<1>4. c = Child(t, w.at, w.r) /\ R[c] = S[c]
  BY DEF Turned
<1>5. c \in N
  BY <1>2, <1>4, TreeFacts
<1>6. Close(w.word, N, K, S[c])
  BY <1>1, <1>2, <1>4, <1>5, Down
<1> HIDE DEF c
<1>7. /\ x \in Walks(N) /\ x.word = v.word /\ x.at = c /\ x.f = v.at /\ x.fr = v.r /\ x.r = v.r
      /\ x.gf = v.f /\ x.gfr = v.fr /\ x.ggf = v.gf /\ x.ggfr = v.gfr
  BY <1>3, <1>5 DEF Walks
<1> HIDE DEF x
<1>8. v.at \in N /\ v.r \in Side /\ VACANT \notin N
  BY <1>3 DEF Walks, IsTree, IsData
<1>9. Linked(u, N, x)
  <2>1. Above(u, N, x.f, x.fr, x.at)
    BY <1>7, <1>8 DEF Above, c
  <2>2. Above(u, N, x.gf, x.gfr, x.f) /\ x.gfr \in Side
    BY <1>3, <1>7 DEF Seated, Above
  <2>3. x.ggfr \in Side /\ (x.gf = VACANT => x.ggf = VACANT)
    BY <1>3, <1>7 DEF Seated
  <2>4. x.gf # VACANT => Above(u, N, x.ggf, x.ggfr, x.gf)
    BY <1>3, <1>7 DEF Seated
  <2>5. Seated(u, N, x)
    BY <1>5, <1>7, <1>8, <2>1, <2>2 DEF Seated
  <2> QED
    BY <2>3, <2>4, <2>5 DEF Linked
<1>10. Arrived(u, N, K, R, x) /\ x.word = w.word
  BY <1>3, <1>4, <1>6, <1>7, <1>9 DEF Arrived
<1> QED
  BY <1>10 DEF x, c, Below

(* The last turn: the branch it leaves vacant is the place of the word.    *)
LEMMA Lands ==
  ASSUME NEW t, NEW N, NEW K, NEW S, IsTree(t, N, K, S), NEW w, Aimed(t, N, K, S, w),
         NEW u, NEW R, IsTree(u, N, K, R), NEW v, Turned(t, u, N, S, R, w, v),
         Child(t, w.at, w.r) = VACANT
  PROVE  /\ v.at \in N /\ v.r \in Side /\ Child(u, v.at, v.r) = VACANT
         /\ Adjacent(w.word, N, K, v.at, v.r)
<1>1. /\ w \in Walks(N) /\ Linked(t, N, w) /\ Close(w.word, N, K, S[w.at])
      /\ Lies(w.r, w.word, K[w.at])
  BY DEF Aimed, Arrived
<1>2. w.at \in N /\ w.r \in Side /\ w.word \in SortCodes
  BY <1>1 DEF Walks
<1>3. v \in Walks(N) /\ v.at \in N /\ v.r \in Side /\ Child(u, v.at, v.r) = VACANT
  BY DEF Turned, Walks
<1>4. Adjacent(w.word, N, K, w.at, w.r)
  BY <1>1, <1>2, Brink
<1>5. CASE v.at = w.at /\ v.r = w.r
  BY <1>3, <1>4, <1>5
<1>6. CASE v.at = Child(u, w.at, w.r) /\ v.r = 1 - w.r
  BY <1>2, <1>3, <1>4, <1>6, Shifted
<1> QED
  BY <1>5, <1>6 DEF Turned
---------------------------------------------------------------------------
(* The invariant: the entries are numbered from 0, their tree is in order, *)
(* and a walk has come close to its word.                                  *)

Walking(S) ==
  walk # Outside =>
    /\ Arrived(dtree, Entries, codes, S, walk)
    /\ walk.word \in Words
    /\ order = << >>

DictionaryInv ==
  /\ \E k \in Nat : Entries = 0 .. k - 1
  /\ flags \in [Entries -> SUBSET Flags]
  /\ \E S : IsTree(dtree, Entries, codes, S) /\ Walking(S)

(* dictionary_prepare and the flags of a text give what they should.       *)
LEMMA Prepares ==
  /\ Words \subseteq SortCodes
  /\ FlagSets \subseteq SUBSET Flags
  /\ \A text \in Texts, flag1 \in Arguments :
       Prepared(text) \in Words /\ FlagsOf(text, flag1) \in FlagSets
<1>1. ASSUME NEW text \in Texts
      PROVE  Prepared(text) \in SortCodes
  <2>1. text.letters \in Seq(Nat) /\ Resolution \in Nat
    BY BoundsAssumption
  <2>2. \A i \in 1 .. Resolution : i <= Len(text.letters) => text.letters[i] \in Nat
    BY <2>1
  <2> QED
    BY <2>1, <2>2 DEF Prepared, SortCodes
<1>2. ASSUME NEW text \in Texts, NEW flag1 \in Arguments
      PROVE  FlagsOf(text, flag1) \in SUBSET Flags
  <2>1. text.pos \subseteq Flags /\ flag1 \subseteq Flags
    BY BoundsAssumption
  <2>2. {"sing"} \subseteq Flags /\ {"trunc"} \subseteq Flags
    BY DEF Flags
  <2> HIDE DEF Flags
  <2>3. (flag1 \ text.neg) \cup (text.pos \cup (IF Truncated(text) THEN {"trunc"} ELSE {})) \subseteq Flags
    BY <2>1, <2>2
  <2> QED
    BY <2>2, <2>3 DEF FlagsOf
<1> QED
  BY <1>1, <1>2 DEF Words, FlagSets

(* The number of entries is the number of the next one.                    *)
LEMMA Numbers ==
  ASSUME \E k \in Nat : Entries = 0 .. k - 1
  PROVE  /\ dict_entries \in Nat /\ Entries = 0 .. dict_entries - 1
         /\ dict_entries \notin Entries /\ dict_entries # VACANT
         /\ Entries \cup {dict_entries} = 0 .. dict_entries
         /\ Entries = {} => dict_entries = 0
<1>1. PICK k \in Nat : Entries = 0 .. k - 1
  OBVIOUS
<1> DEFINE last == k - 1
<1>2. last \in Int
  BY <1>1
<1>3. dict_entries = IF 0 > last THEN 0 ELSE last - 0 + 1
  <2> HIDE DEF last
  <2>1. 0 \in Int
    OBVIOUS
  <2>2. Cardinality(0 .. last) = IF 0 > last THEN 0 ELSE last - 0 + 1
    BY <1>2, <2>1, FS_Interval
  <2> QED
    BY <1>1, <2>2 DEF dict_entries, last
<1>4. dict_entries = k
  BY <1>1, <1>3
<1> QED
  BY <1>1, <1>4 DEF VACANT

(* Both modules count alike.                                               *)
LEMMA Counts ==
  ASSUME NEW A
  PROVE  Table!Cardinality(A) = Cardinality(A)
  BY DEF Table!Cardinality, Cardinality

(* CreateEntry gives a word that had no entry the next number.             *)
LEMMA Records ==
  ASSUME DictionaryInv, NEW word \in Words, NEW given \in FlagSets, CreateEntry(word, given),
         NEW R, order = << >>, \A n \in Entries : codes[n] # word,
         IsTree(dtree', Entries \cup {dict_entries},
                [n \in Entries \cup {dict_entries} |-> IF n = dict_entries THEN word ELSE codes[n]], R)
  PROVE  DictionaryInv' /\ Table!Mention(word, given)
<1> DEFINE n == dict_entries
           L == [m \in Entries \cup {n} |-> IF m = n THEN word ELSE codes[m]]
<1>1. /\ dict_entries \in Nat /\ Entries = 0 .. dict_entries - 1
      /\ dict_entries \notin Entries
      /\ Entries \cup {dict_entries} = 0 .. dict_entries
  BY Numbers DEF DictionaryInv
<1>2. /\ codes' = L /\ answer' = n /\ walk' = Outside /\ order' = order
      /\ flags' = [m \in Entries \cup {n} |-> IF m = n THEN given ELSE flags[m]]
  BY DEF CreateEntry
<1>3. Entries' = 0 .. n /\ Entries' = Entries \cup {n}
  BY <1>1, <1>2 DEF Entries
<1>4. (\E k \in Nat : Entries = 0 .. k - 1)'
  <2>1. n + 1 \in Nat /\ (n + 1) - 1 = n
    BY <1>1
  <2> QED
    BY <1>3, <2>1
<1>5. (flags \in [Entries -> SUBSET Flags])'
  BY <1>2, <1>3, Prepares DEF DictionaryInv
<1>6. IsTree(dtree', Entries', codes', R)
  BY <1>2, <1>3
<1>7. Walking(R)'
  BY <1>2 DEF Walking
<1>8. DictionaryInv'
  BY <1>4, <1>5, <1>6, <1>7 DEF DictionaryInv
<1>9. DOMAIN collected = Entries /\ Table!NewNumber = n
  BY Counts DEF collected, Table!NewNumber, dict_entries
<1>10. \A m \in DOMAIN collected : collected[m].word # word
  BY DEF collected
<1>11. collected' = [m \in 0 .. n |-> IF m = n THEN [word |-> word, flags |-> given]
                                      ELSE collected[m]]
  <2>1. collected' = [m \in Entries' |-> [word |-> codes'[m], flags |-> flags'[m]]]
    BY DEF collected
  <2>2. \A m \in Entries' :
          [word |-> codes'[m], flags |-> flags'[m]] =
            IF m = n THEN [word |-> word, flags |-> given] ELSE collected[m]
    <3>1. \A m \in Entries : collected[m] = [word |-> codes[m], flags |-> flags[m]]
      BY DEF collected
    <3>2. \A m \in Entries \cup {n} :
            /\ codes'[m] = IF m = n THEN word ELSE codes[m]
            /\ flags'[m] = IF m = n THEN given ELSE flags[m]
      BY <1>2
    <3> HIDE DEF n
    <3> QED
      BY <1>3, <3>1, <3>2
  <2> QED
    BY <1>3, <2>1, <2>2
<1>12. Table!Mention(word, given)
  <2> HIDE DEF L, n
  <2> QED
    BY <1>2, <1>9, <1>10, <1>11 DEF Table!Mention
<1> QED
  BY <1>8, <1>12
(* The first word of a program.                                            *)
LEMMA AddFirstStep ==
  ASSUME DictionaryInv, NEW text \in Texts, NEW flag1 \in Arguments, AddFirst(text, flag1)
  PROVE  DictionaryInv' /\ Table!Mention(Prepared(text), FlagsOf(text, flag1))
<1> DEFINE word == Prepared(text)
           given == FlagsOf(text, flag1)
           L == [n \in Entries \cup {dict_entries} |-> IF n = dict_entries THEN word ELSE codes[n]]
<1>1. PICK S : IsTree(dtree, Entries, codes, S)
  BY DEF DictionaryInv
<1>2. dtree.root = VACANT
  BY DEF AddFirst
<1>3. Entries = {} /\ dtree \in Trees({})
  BY <1>1, <1>2 DEF IsTree, Spans
<1>4. dict_entries = 0 /\ Entries \cup {dict_entries} = {0}
  BY <1>3, Numbers DEF DictionaryInv
<1>5. word \in Words /\ word \in SortCodes /\ given \in FlagSets
  BY Prepares
<1> HIDE DEF word, given
<1>6. L \in [{0} -> SortCodes]
  BY <1>4, <1>5
<1> HIDE DEF L
<1>7. PICK R : IsTree(NewNode([dtree EXCEPT !.root = 0]), {0}, L, R)
  BY <1>3, <1>4, <1>6, FirstLeaf
<1>8. IsTree(dtree', Entries \cup {dict_entries}, L, R)
  BY <1>4, <1>7 DEF AddFirst
<1>9. CreateEntry(word, given) /\ order = << >>
  BY DEF AddFirst, word, given
<1> QED
  BY <1>3, <1>5, <1>8, <1>9, Records DEF L, word, given

(* A walk begins at the root.                                              *)
LEMMA AddStep ==
  ASSUME DictionaryInv, NEW text \in Texts, NEW flag1 \in Arguments, Add(text, flag1)
  PROVE  DictionaryInv' /\ UNCHANGED <<collected, answer, order>>
<1> DEFINE word == Prepared(text)
           given == FlagsOf(text, flag1)
           w == From(word, given, dtree.root)
<1>1. PICK S : IsTree(dtree, Entries, codes, S)
  BY DEF DictionaryInv
<1>2. /\ dtree.root # VACANT /\ order = << >> /\ walk' = w
      /\ UNCHANGED <<dtree, codes, flags, answer, order>>
  BY DEF Add
<1>3. dtree.root \in Entries /\ S[dtree.root] = Entries
  BY <1>1, <1>2 DEF IsTree, Trees, Spans
<1>4. word \in Words /\ word \in SortCodes /\ given \in FlagSets
  BY Prepares
<1> HIDE DEF word, given
<1>5. /\ w \in Walks(Entries) /\ w.word = word /\ w.at = dtree.root /\ w.r = 0
      /\ w.f = VACANT /\ w.gf = VACANT /\ w.ggf = VACANT
      /\ w.fr = 0 /\ w.gfr = 0 /\ w.ggfr = 0
  BY <1>3, <1>4 DEF From, Walks, Side
<1> HIDE DEF w
<1>6. Linked(dtree, Entries, w)
  BY <1>3, <1>5 DEF Linked, Seated, Above, Side
<1>7. Close(word, Entries, codes, S[w.at])
  BY <1>3, <1>5 DEF Close
<1>8. Arrived(dtree, Entries, codes, S, w)
  BY <1>5, <1>6, <1>7 DEF Arrived
<1>9. Entries' = Entries
  BY <1>2 DEF Entries
<1>10. IsTree(dtree', Entries', codes', S) /\ Arrived(dtree', Entries', codes', S, walk')
  BY <1>1, <1>2, <1>8, <1>9
<1>11. Walking(S)'
  BY <1>2, <1>4, <1>5, <1>10 DEF Walking
<1>12. DictionaryInv'
  BY <1>2, <1>9, <1>10, <1>11 DEF DictionaryInv
<1> QED
  BY <1>2, <1>9, <1>12 DEF collected

(* A word that has an entry gives it its flags.                            *)
LEMMA MergeStep ==
  ASSUME DictionaryInv, Merge
  PROVE  /\ DictionaryInv'
         /\ walk.word \in Words /\ walk.flags \in FlagSets
         /\ Table!Mention(walk.word, walk.flags)
<1> DEFINE n == walk.at
           given == walk.flags
<1>1. PICK S : IsTree(dtree, Entries, codes, S) /\ Walking(S)
  BY DEF DictionaryInv
<1>2. /\ walk # Outside /\ walk.word = codes[n] /\ flags' = [flags EXCEPT ![n] = @ \cup given]
      /\ answer' = n /\ walk' = Outside /\ UNCHANGED <<dtree, codes, order>>
  BY DEF Merge
<1>3. /\ Arrived(dtree, Entries, codes, S, walk) /\ walk.word \in Words /\ order = << >>
  BY <1>1, <1>2 DEF Walking
<1>4. n \in Entries /\ given \in FlagSets
  BY <1>3 DEF Arrived, Walks
<1>5. Entries' = Entries
  BY <1>2 DEF Entries
<1> HIDE DEF n, given
<1>6. flags' \in [Entries -> SUBSET Flags]
  BY <1>2, <1>4, Prepares DEF DictionaryInv
<1>7. Walking(S)'
  BY <1>2 DEF Walking
<1>8. DictionaryInv'
  BY <1>1, <1>2, <1>5, <1>6, <1>7 DEF DictionaryInv
<1>9. DOMAIN collected = Entries /\ collected[n].word = walk.word
  BY <1>2, <1>4 DEF collected
<1>10. collected' = [collected EXCEPT ![n].flags = @ \cup given]
  <2>1. collected' = [m \in Entries |-> [word |-> codes[m], flags |-> flags'[m]]]
    BY <1>2, <1>5 DEF collected
  <2>2. \A m \in Entries : flags'[m] = IF m = n THEN flags[m] \cup given ELSE flags[m]
    BY <1>2 DEF DictionaryInv
  <2>3. [collected[n] EXCEPT !.flags = @ \cup given] = [word |-> codes[n], flags |-> flags[n] \cup given]
    <3>1. collected[n] = [word |-> codes[n], flags |-> flags[n]]
      BY <1>4 DEF collected
    <3>2. [[word |-> codes[n], flags |-> flags[n]] EXCEPT !.flags = @ \cup given]
            = [word |-> codes[n], flags |-> flags[n] \cup given]
      OBVIOUS
    <3> QED
      BY <3>1, <3>2, Zenon
  <2>4. [collected EXCEPT ![n].flags = @ \cup given] =
          [collected EXCEPT ![n] = [collected[n] EXCEPT !.flags = @ \cup given]]
    OBVIOUS
  <2>5. [collected EXCEPT ![n] = [word |-> codes[n], flags |-> flags[n] \cup given]] =
          [m \in Entries |-> [word |-> codes[m], flags |-> flags'[m]]]
    BY <1>4, <2>2 DEF collected
  <2> QED
    BY <2>1, <2>3, <2>4, <2>5
<1>11. Table!Mention(walk.word, given)
  <2>1. collected' = [collected EXCEPT ![n].flags = @ \cup given] /\ answer' = n
        /\ n \in DOMAIN collected /\ collected[n].word = walk.word
        /\ order = << >> /\ UNCHANGED order
    BY <1>2, <1>3, <1>4, <1>9, <1>10
  <2> QED
    BY <2>1, Zenon DEF Table!Mention
<1> QED
  BY <1>3, <1>4, <1>8, <1>11 DEF given
(* One link down, with what a node with two red links needs before.        *)
LEMMA DescendStep ==
  ASSUME DictionaryInv, Descend
  PROVE  DictionaryInv' /\ UNCHANGED <<collected, answer, order>>
<1> DEFINE N == Entries
           w == Aim(walk, codes)
           split == BothRed(dtree, w.at)
           red == Split(dtree, w.at)
           t == IF split THEN Rotated(red, w) ELSE dtree
           v == IF split THEN Reseated(red, w) ELSE w
           x == Below(t, v)
<1>1. PICK S : IsTree(dtree, N, codes, S) /\ Walking(S)
  BY DEF DictionaryInv
<1>2. /\ walk # Outside /\ walk.word # codes[walk.at]
      /\ Child(t, v.at, v.r) # VACANT /\ dtree' = t /\ walk' = x
      /\ UNCHANGED <<codes, flags, answer, order>>
  BY Zenon DEF Descend, Aim, Below
<1>3. Arrived(dtree, N, codes, S, walk) /\ walk.word \in Words /\ order = << >>
  BY <1>1, <1>2 DEF Walking
<1>4. Aimed(dtree, N, codes, S, w) /\ w.word = walk.word
  BY <1>1, <1>2, <1>3, Aims
<1> HIDE DEF w, N
<1>5. w \in Walks(N) /\ Linked(dtree, N, w) /\ Close(w.word, N, codes, S[w.at])
      /\ Lies(w.r, w.word, codes[w.at])
  BY <1>4 DEF Aimed, Arrived
<1>6. w.at \in N /\ VACANT \notin N /\ dtree \in Trees(N)
  BY <1>1, <1>5 DEF Walks, IsTree, IsData
<1>7. \E u, R : /\ IsTree(u, N, codes, S) /\ Aimed(u, N, codes, S, w)
                /\ IsTree(t, N, codes, R) /\ Turned(u, t, N, S, R, w, v)
  <2>1. CASE split
    <3>1. red \in Trees(N) /\ red.root = dtree.root /\ SameLinks(red, dtree, N)
      BY <1>6, <2>1, SplitApart
    <3> HIDE DEF red
    <3>2. IsTree(red, N, codes, S) /\ Linked(red, N, w)
      BY <1>1, <1>5, <3>1, Recoloured
    <3>3. Aimed(red, N, codes, S, w)
      BY <1>5, <3>2 DEF Aimed, Arrived
    <3>4. \E R : /\ IsTree(Rotated(red, w), N, codes, R)
                 /\ Turned(red, Rotated(red, w), N, S, R, w, Reseated(red, w))
      BY <1>5, <3>2, Turns
    <3>5. t = Rotated(red, w) /\ v = Reseated(red, w)
      BY <2>1
    <3> HIDE DEF t, v
    <3> QED
      BY <3>2, <3>3, <3>4, <3>5
  <2>2. CASE ~ split
    <3>1. t = dtree /\ v = w
      BY <2>2
    <3> HIDE DEF t, v
    <3>2. Turned(dtree, dtree, N, S, S, w, w)
      BY <1>5 DEF Turned, Linked
    <3> QED
      BY <1>1, <1>4, <3>1, <3>2
  <2> QED
    BY <2>1, <2>2
<1> HIDE DEF t, v
<1>8. PICK u, R : /\ IsTree(u, N, codes, S) /\ Aimed(u, N, codes, S, w)
                  /\ IsTree(t, N, codes, R) /\ Turned(u, t, N, S, R, w, v)
  BY <1>7
<1>9. Arrived(t, N, codes, R, x) /\ x.word = w.word
  <2>1. Child(t, v.at, v.r) # VACANT
    BY <1>2
  <2> QED
    BY <1>8, <2>1, GoesOn
<1> HIDE DEF x
<1>10. Entries' = N
  BY <1>2 DEF Entries, N
<1>11. IsTree(dtree', Entries', codes', R) /\ Arrived(dtree', Entries', codes', R, walk')
  BY <1>2, <1>8, <1>9, <1>10
<1>12. Walking(R)'
  BY <1>2, <1>3, <1>4, <1>9, <1>11 DEF Walking
<1>13. DictionaryInv'
  BY <1>2, <1>10, <1>11, <1>12 DEF DictionaryInv, N
<1> QED
  BY <1>2, <1>10, <1>13 DEF collected, N

(* The new word goes where the walk ends.                                  *)
LEMMA AttachStep ==
  ASSUME DictionaryInv, Attach
  PROVE  /\ DictionaryInv'
         /\ walk.word \in Words /\ walk.flags \in FlagSets
         /\ Table!Mention(walk.word, walk.flags)
<1> DEFINE N == Entries
           n == dict_entries
           w == Aim(walk, codes)
           red == Redden(dtree, w.at)
           t == Rotated(red, w)
           v == Reseated(red, w)
           u == NewNode([t EXCEPT !.node[v.at].branch[v.r] = n])
           L == [m \in N \cup {n} |-> IF m = n THEN walk.word ELSE codes[m]]
<1>1. PICK S : IsTree(dtree, N, codes, S) /\ Walking(S)
  BY DEF DictionaryInv
<1>2. /\ walk # Outside /\ walk.word # codes[walk.at]
      /\ Child(dtree, w.at, w.r) = VACANT /\ dtree' = u
      /\ CreateEntry(walk.word, walk.flags)
  BY Zenon DEF Attach, Aim
<1>3. Arrived(dtree, N, codes, S, walk) /\ walk.word \in Words /\ order = << >>
  BY <1>1, <1>2 DEF Walking
<1>4. walk.flags \in FlagSets /\ walk.word \in SortCodes
  BY <1>3 DEF Arrived, Walks
<1>5. Aimed(dtree, N, codes, S, w) /\ w.word = walk.word
  <2>1. walk.word # codes[walk.at]
    BY <1>2
  <2> QED
    BY <1>1, <1>3, <2>1, Aims
<1>6. n \notin N /\ n # VACANT
  BY Numbers DEF DictionaryInv
<1> HIDE DEF w, N
<1>7. w \in Walks(N) /\ Linked(dtree, N, w) /\ Close(w.word, N, codes, S[w.at])
      /\ Lies(w.r, w.word, codes[w.at])
  BY <1>5 DEF Aimed, Arrived
<1>8. w.at \in N /\ w.r \in Side /\ VACANT \notin N /\ dtree \in Trees(N)
  BY <1>1, <1>7 DEF Walks, IsTree, IsData
<1>9. red \in Trees(N) /\ red.root = dtree.root /\ SameLinks(red, dtree, N)
  BY <1>8, Reddened
<1> HIDE DEF red
<1>10. IsTree(red, N, codes, S) /\ Linked(red, N, w)
  BY <1>1, <1>7, <1>9, Recoloured
<1>11. Aimed(red, N, codes, S, w)
  BY <1>7, <1>10 DEF Aimed, Arrived
<1>12. PICK R : IsTree(t, N, codes, R) /\ Turned(red, t, N, S, R, w, v)
  BY <1>7, <1>10, Turns
<1> HIDE DEF t, v
<1>13. Child(red, w.at, w.r) = VACANT
  BY <1>2, <1>8, <1>9 DEF SameLinks
<1>14. /\ v.at \in N /\ v.r \in Side /\ Child(t, v.at, v.r) = VACANT
       /\ Adjacent(w.word, N, codes, v.at, v.r)
  BY <1>10, <1>11, <1>12, <1>13, Lands
<1>15. t \in Trees(N) /\ codes \in [N -> SortCodes]
  BY <1>12 DEF IsTree, IsData
<1>16. Grafted(t, u, N, v.at, v.r, n)
  BY <1>6, <1>14, <1>15, NewLeaf
<1> HIDE DEF u, n
<1>17. L \in [N \cup {n} -> SortCodes] /\ L[n] = w.word /\ \A m \in N : L[m] = codes[m]
  BY <1>4, <1>5, <1>6, <1>15
<1> HIDE DEF L
<1>18. \E Q : IsTree(u, N \cup {n}, L, Q)
  BY <1>4, <1>5, <1>6, <1>12, <1>14, <1>16, <1>17, Grafts, ZenonT(40)
<1>19. PICK Q : IsTree(dtree', N \cup {n}, L, Q)
  BY <1>2, <1>18
<1>20. \A m \in N : codes[m] # walk.word
  <2>1. codes[v.at] # w.word
    <3>1. Lies(v.r, w.word, codes[v.at]) /\ codes[v.at] \in SortCodes
      BY <1>14, <1>15 DEF Adjacent
    <3> QED
      BY <1>4, <1>5, <1>14, <3>1, LiesOrder
  <2> QED
    BY <1>5, <1>14, <2>1 DEF Adjacent
<1>21. DictionaryInv' /\ Table!Mention(walk.word, walk.flags)
  BY <1>2, <1>3, <1>4, <1>19, <1>20, Records DEF L, N, n
<1> QED
  BY <1>3, <1>4, <1>21, SMTT(20)

(* sort_dictionary gives every entry its rank.                             *)
LEMMA SortStep ==
  ASSUME DictionaryInv, sort_dictionary
  PROVE  DictionaryInv' /\ Table!PutInOrder
<1> DEFINE sorted == Traversal(dtree)
<1>1. PICK S : IsTree(dtree, Entries, codes, S)
  BY DEF DictionaryInv
<1>2. /\ walk = Outside /\ order = << >> /\ Entries # {}
      /\ order' = [n \in Entries |-> IF \E i \in DOMAIN sorted : sorted[i] = n
                                     THEN (CHOOSE i \in DOMAIN sorted : sorted[i] = n) - 1
                                     ELSE 0]
      /\ UNCHANGED <<dtree, codes, flags, walk, answer>>
  BY DEF sort_dictionary
<1>3. sorted = InOrder(Entries, codes)
  BY <1>1, Sorts
<1>4. /\ IsFiniteSet(Entries) /\ \A x \in Entries : codes[x] \in SortCodes
      /\ \A x \in Entries, y \in Entries : codes[x] = codes[y] => x = y
  BY <1>1, Distinct DEF IsTree, IsData
<1>5. /\ sorted \in Seq(Entries) /\ Len(sorted) = Cardinality(Entries)
      /\ \A i \in 1 .. Cardinality(Entries), y \in Entries :
           (sorted[i] = y) = (Rank(Entries, codes, y) = i - 1)
  BY <1>3, <1>4, Places
<1>6. /\ Cardinality(Entries) \in Nat
      /\ \A y \in Entries : Rank(Entries, codes, y) \in 0 .. Cardinality(Entries) - 1
  BY <1>4, Ranks
<1> HIDE DEF sorted
<1>7. DOMAIN sorted = 1 .. Cardinality(Entries)
  BY <1>5
<1>8. ASSUME NEW y \in Entries
      PROVE  order'[y] = Rank(Entries, codes, y)
  <2> DEFINE i == Rank(Entries, codes, y) + 1
             found == CHOOSE k \in DOMAIN sorted : sorted[k] = y
  <2>1. i \in DOMAIN sorted /\ i - 1 = Rank(Entries, codes, y)
    BY <1>6, <1>7
  <2>2. sorted[i] = y
    BY <1>5, <1>7, <2>1
  <2>3. found \in DOMAIN sorted /\ sorted[found] = y
    <3> HIDE DEF i
    <3> QED
      BY <2>1, <2>2
  <2> HIDE DEF found
  <2>4. Rank(Entries, codes, y) = found - 1
    BY <1>5, <1>7, <2>3
  <2>5. order'[y] = found - 1
    <3> HIDE DEF i
    <3> QED
      BY <1>2, <2>1, <2>2 DEF found
  <2> QED
    BY <2>4, <2>5
<1>9. order' = [y \in Entries |-> Rank(Entries, codes, y)]
  BY <1>2, <1>8
<1>10. Entries' = Entries
  BY <1>2 DEF Entries
<1>11. DictionaryInv'
  BY <1>1, <1>2, <1>10 DEF DictionaryInv, Walking
<1>12. DOMAIN collected = Entries /\ \A y \in Entries : collected[y].word = codes[y]
  BY DEF collected
<1>13. \A y \in Entries :
         Table!Cardinality({m \in DOMAIN collected : Before(collected[m].word, collected[y].word)})
           = Rank(Entries, codes, y)
  <2> TAKE y \in Entries
  <2>1. {m \in DOMAIN collected : Before(collected[m].word, collected[y].word)}
          = {m \in Entries : Before(codes[m], codes[y])}
    BY <1>12
  <2> QED
    BY <2>1, Counts DEF Rank
<1>14. UNCHANGED <<collected, answer>>
  BY <1>2, <1>10 DEF collected
<1>15. Table!PutInOrder
  <2>1. [y \in DOMAIN collected |->
           Table!Cardinality({m \in DOMAIN collected :
                                Before(collected[m].word, collected[y].word)})]
          = [y \in Entries |-> Rank(Entries, codes, y)]
    BY <1>12, <1>13
  <2> QED
    BY <1>2, <1>9, <1>14, <2>1 DEF Table!PutInOrder
<1> QED
  BY <1>11, <1>15
---------------------------------------------------------------------------
(* The theorems.                                                           *)

(* An empty dictionary is a tree, and an empty table.                      *)
LEMMA EmptyDictionary ==
  ASSUME DictionaryInit
  PROVE  DictionaryInv /\ Table!Init
<1> DEFINE S == [x \in {VACANT} |-> {}]
<1>1. /\ dtree = [root |-> VACANT, node |-> << >>] /\ codes = << >> /\ flags = << >>
      /\ walk = Outside /\ answer = VACANT /\ order = << >>
  BY DEF DictionaryInit
<1>2. Entries = {}
  BY <1>1 DEF Entries
<1>3. \E k \in Nat : Entries = 0 .. k - 1
  <2>1. 0 .. 0 - 1 = {}
    OBVIOUS
  <2> QED
    BY <1>2, <2>1
<1>4. flags \in [Entries -> SUBSET Flags]
  BY <1>1, <1>2
<1>5. IsData(Entries, codes)
  <2>1. codes \in [Entries -> SortCodes]
    BY <1>1, <1>2
  <2> QED
    BY <1>2, <2>1, FS_EmptySet DEF IsData
<1>6. dtree \in Trees(Entries)
  <2>1. dtree.node \in [Entries -> NodeOn(Entries)] /\ dtree.root \in Entries \cup {VACANT}
    BY <1>1, <1>2
  <2> QED
    BY <1>1, <2>1 DEF Trees
<1>7. IsTree(dtree, Entries, codes, S)
  BY <1>1, <1>2, <1>5, <1>6 DEF IsTree, Spans, Sorted
<1>8. DictionaryInv
  BY <1>1, <1>3, <1>4, <1>7 DEF DictionaryInv, Walking
<1>9. collected = << >>
  BY <1>2 DEF collected
<1>10. Table!Init
  BY <1>1, <1>9 DEF Table!Init, Table!None, VACANT
<1> QED
  BY <1>8, <1>10

(* Every step keeps the invariant, and is a step of the table or none.     *)
LEMMA EveryStep ==
  ASSUME DictionaryInv, [DictionaryNext]_dictionaryVars
  PROVE  DictionaryInv' /\ [Table!Next]_<<collected, answer, order>>
<1>1. ASSUME NEW text \in Texts, NEW flag1 \in Arguments, AddFirst(text, flag1)
      PROVE  DictionaryInv' /\ Table!Next
  BY <1>1, AddFirstStep, Prepares DEF Table!Next
<1>2. ASSUME NEW text \in Texts, NEW flag1 \in Arguments, Add(text, flag1)
      PROVE  DictionaryInv' /\ UNCHANGED <<collected, answer, order>>
  BY <1>2, AddStep
<1>3. ASSUME Merge
      PROVE  DictionaryInv' /\ Table!Next
  BY <1>3, MergeStep DEF Table!Next
<1>4. ASSUME Descend
      PROVE  DictionaryInv' /\ UNCHANGED <<collected, answer, order>>
  BY <1>4, DescendStep
<1>5. ASSUME Attach
      PROVE  DictionaryInv' /\ Table!Next
  BY <1>5, AttachStep DEF Table!Next
<1>6. ASSUME sort_dictionary
      PROVE  DictionaryInv' /\ Table!Next
  BY <1>6, SortStep DEF Table!Next
<1>7. ASSUME UNCHANGED dictionaryVars
      PROVE  DictionaryInv' /\ UNCHANGED <<collected, answer, order>>
  <2>1. UNCHANGED <<dtree, codes, flags, walk, answer, order>>
    BY <1>7 DEF dictionaryVars
  <2>2. UNCHANGED Entries
    BY <2>1 DEF Entries
  <2> QED
    BY <2>1, <2>2 DEF DictionaryInv, Walking, collected
<1> QED
  BY <1>1, <1>2, <1>3, <1>4, <1>5, <1>6, <1>7 DEF DictionaryNext

(* At every turn of the loop of dictionary_add, dictionary_find finds      *)
(* every word that was added, and no other.                                *)
THEOREM FindHolds == DictionarySpec => []FindAgrees
<1>1. DictionaryInit => DictionaryInv
  BY EmptyDictionary
<1>2. DictionaryInv /\ [DictionaryNext]_dictionaryVars => DictionaryInv'
  BY EveryStep
<1>3. DictionaryInv => FindAgrees
  <2> SUFFICES ASSUME DictionaryInv, NEW word \in Words
               PROVE  dictionary_find(dtree, word) = Holder(Entries, codes, word)
    BY DEF FindAgrees, Holder
  <2>1. PICK S : IsTree(dtree, Entries, codes, S)
    BY DEF DictionaryInv
  <2> QED
    BY <2>1, Prepares, Finds
<1> QED
  BY <1>1, <1>2, <1>3, PTL DEF DictionarySpec

(* The tree implements the table of words: one entry for each word, with a *)
(* number for good and all its flags, and the places in order at the end   *)
(* (text.c:2315).                                                          *)
THEOREM TableRefined == DictionarySpec => IsWordTable
<1>1. DictionaryInit => DictionaryInv /\ Table!Init
  BY EmptyDictionary
<1>2. DictionaryInv /\ [DictionaryNext]_dictionaryVars
        => DictionaryInv' /\ [Table!Next]_<<collected, answer, order>>
  BY EveryStep
<1> QED
  BY <1>1, <1>2, PTL DEF DictionarySpec, IsWordTable, Table!Spec
=============================================================================
