--------------------------- MODULE TokenQueueProofs ---------------------------
(***************************************************************************)
(* Proofs about TokenQueue, for every text, any number of names and        *)
(* contexts, and a circle of any size.                                     *)
(***************************************************************************)
EXTENDS TokenQueue, FiniteSetTheorems, SequenceTheorems, WellFoundedInduction, TLAPS

------------------------------------------------------------------------------
(* Recursion over an interval.                                              *)

(* A set of numbers that is not empty has a least one.                      *)
LEMMA LeastNumber ==
  ASSUME NEW T \in SUBSET Nat, T # {}
  PROVE  \E x \in T : \A y \in T : x <= y
<1>1. \E x \in T : \A y \in T : ~ (<<y, x>> \in OpToRel(<, Nat))
  BY NatLessThanWellFounded, WFMin
<1>2. PICK x \in T : \A y \in T : ~ (<<y, x>> \in OpToRel(<, Nat))
  BY <1>1
<1>3. ASSUME NEW y \in T PROVE x <= y
  <2>1. ~ (y < x)
    BY <1>2 DEF OpToRel
  <2> QED  BY <2>1
<1> QED  BY <1>3

(* What holds at 0 and passes from each number to the next holds up to N.   *)
LEMMA UpTo ==
  ASSUME NEW N \in Nat, NEW K, 0 \in K, \A n \in 1..N : n - 1 \in K => n \in K
  PROVE  \A n \in 0..N : n \in K
<1> SUFFICES ASSUME NEW m \in 0..N, m \notin K PROVE FALSE  OBVIOUS
<1> DEFINE Missing == {n \in 0..N : n \notin K}
<1>1. PICK x \in Missing : \A y \in Missing : x <= y
  <2>1. Missing \in SUBSET Nat /\ Missing # {}  OBVIOUS
  <2> QED  BY <2>1, LeastNumber
<1>2. x \in 1..N  BY <1>1
<1>3. x - 1 \in K
  <2>1. x - 1 \in 0..N /\ ~ (x <= x - 1)  BY <1>2
  <2> QED  BY <2>1, <1>1
<1> QED  BY <1>1, <1>2, <1>3

(* The steps F lead from each set of P to the next.                         *)
Leads(N, F, P) == \A n \in 1..N : \A s \in P[n - 1] : F[n][s] \in P[n]

Follows(N, F, P, f) == \A n \in 1..N : f[n - 1] \in P[n - 1] => f[n] = F[n][f[n - 1]]

Stepped(N, a, F, f) == [n \in 0..N |-> IF n = 0 THEN a ELSE F[n][f[n - 1]]]

(* A function that makes each of its values from the last one stays where   *)
(* the steps F lead.                                                        *)
LEMMA StepsStay ==
  ASSUME NEW N \in Nat, NEW F, NEW P, NEW f,
         f[0] \in P[0], Leads(N, F, P), Follows(N, F, P, f)
  PROVE  \A n \in 0..N : f[n] \in P[n]
<1> DEFINE K == {n \in 0..N : f[n] \in P[n]}
<1>1. 0 \in K  OBVIOUS
<1>2. \A n \in 1..N : n - 1 \in K => n \in K  BY DEF Leads, Follows
<1> HIDE DEF K
<1>3. \A n \in 0..N : n \in K  BY <1>1, <1>2, UpTo
<1> QED  BY <1>3 DEF K

(* There is such a function.                                                *)
LEMMA StepsExist ==
  ASSUME NEW N \in Nat, NEW a, NEW F
  PROVE  \E f : f = Stepped(N, a, F, f)
<1> DEFINE Solves(f, m) == f = Stepped(m, a, F, f)
           K == {m \in 0..N : \E f : Solves(f, m)}
<1>1. 0 \in K
  <2> DEFINE g == [n \in 0..0 |-> a]
  <2>1. \A n \in 0..0 : n = 0  OBVIOUS
  <2>2. Solves(g, 0)  BY <2>1 DEF Stepped
  <2> HIDE DEF g, Solves
  <2> QED  BY <2>2
<1>2. ASSUME NEW m \in 1..N, m - 1 \in K PROVE m \in K
  <2>1. PICK f : Solves(f, m - 1)  BY <1>2
  <2> DEFINE g == [n \in 0..m |-> IF n = m THEN F[m][f[m - 1]] ELSE f[n]]
  <2>2. ASSUME NEW n \in 0..m PROVE g[n] = IF n = 0 THEN a ELSE F[n][g[n - 1]]
    <3>1. CASE n = m
      <4>1. g[m - 1] = f[m - 1]  BY <1>2
      <4>2. n # 0  BY <3>1
      <4> QED  BY <3>1, <4>1, <4>2
    <3>2. CASE n # m
      <4>1. n \in 0..m - 1 /\ g[n] = f[n]  BY <3>2
      <4>2. f[n] = IF n = 0 THEN a ELSE F[n][f[n - 1]]  BY <4>1, <2>1 DEF Stepped
      <4>3. n # 0 => g[n - 1] = f[n - 1]  BY <3>2
      <4> HIDE DEF g
      <4> QED  BY <4>1, <4>2, <4>3
    <3> QED  BY <3>1, <3>2
  <2>3. g = [n \in 0..m |-> g[n]]  OBVIOUS
  <2> HIDE DEF g
  <2>4. Solves(g, m)  BY <2>2, <2>3 DEF Stepped
  <2> QED  BY <2>4
<1>3. N \in K
  <2>1. N \in 0..N  OBVIOUS
  <2> HIDE DEF K
  <2> QED  BY <1>1, <1>2, <2>1, UpTo
<1> QED  BY <1>3

------------------------------------------------------------------------------
(* The symbol table.                                                        *)

FlagNames == {"unknown", "unhashed", "discarded"}

Symbols == [name : Nat, next : Nat, type : {"constant"}, value : Nat,
            flags : SUBSET FlagNames, marker : {"none"}]

Tables == [head : [0..HashTabSize - 1 -> Nat], sym : Seq(Symbols)]

(* The symbols that are in use, and those of one list.                      *)
Live(T) == {k \in DOMAIN T.sym : "unhashed" \notin T.sym[k].flags}

Listed(T, h) == {k \in Live(T) : hash_code_from_string(T.sym[k].name) = h}

After(T, k) == {j \in Listed(T, hash_code_from_string(T.sym[k].name)) :
                  T.sym[j].name > T.sym[k].name}

(* x is the one of A with the first name, or 0 if A has none.               *)
IsFirst(T, A, x) ==
  \/ A = {} /\ x = 0
  \/ x \in A /\ \A j \in A : T.sym[x].name <= T.sym[j].name

Distinct(T) == \A j, k \in Live(T) : T.sym[j].name = T.sym[k].name => j = k

(* Each list holds the symbols in use that belong there, by name, and each  *)
(* name once; none of them is marked as discarded.                          *)
InLists(T) ==
  /\ T \in Tables
  /\ \A h \in 0..HashTabSize - 1 : IsFirst(T, Listed(T, h), T.head[h])
  /\ \A k \in Live(T) : IsFirst(T, After(T, k), T.sym[k].next)
  /\ Distinct(T)
  /\ \A k \in Live(T) : "discarded" \notin T.sym[k].flags

LEMMA HashType ==
  ASSUME NEW name \in Nat
  PROVE  hash_code_from_string(name) \in 0..HashTabSize - 1
  BY HashAssumption DEF hash_code_from_string

(* The walk of symbol_index through the list h.                             *)
Walks(T) == [this : {0} \cup DOMAIN T.sym, last : {0} \cup DOMAIN T.sym]

AtRest(T, name, w) == w.this = 0 \/ T.sym[w.this].name >= name

Passed(T, L, w) == {j \in L : w.last # 0 /\ T.sym[j].name <= T.sym[w.last].name}

(* What is true after n turns.                                              *)
OnWalk(T, name, L, w, n) ==
  /\ w \in Walks(T)
  /\ IsFirst(T, {j \in L : w.last = 0 \/ T.sym[j].name > T.sym[w.last].name}, w.this)
  /\ w.last = 0 \/ (w.last \in L /\ T.sym[w.last].name < name)
  /\ AtRest(T, name, w) \/ Cardinality(Passed(T, L, w)) >= n

LEMMA LiveFacts ==
  ASSUME NEW T \in Tables
  PROVE  /\ Len(T.sym) \in Nat /\ DOMAIN T.sym = 1..Len(T.sym)
         /\ \A k \in DOMAIN T.sym : T.sym[k] \in Symbols /\ T.sym[k].name \in Nat
         /\ Live(T) \subseteq DOMAIN T.sym
         /\ \A h : Listed(T, h) \subseteq Live(T)
         /\ 0 \notin DOMAIN T.sym
<1>1. T.sym \in Seq(Symbols)  BY DEF Tables
<1>2. Len(T.sym) \in Nat /\ DOMAIN T.sym = 1..Len(T.sym)  BY <1>1
<1>3. ASSUME NEW k \in DOMAIN T.sym PROVE T.sym[k] \in Symbols /\ T.sym[k].name \in Nat
  <2>1. T.sym[k] \in Symbols  BY <1>1, <1>2
  <2> QED  BY <2>1 DEF Symbols
<1>4. Live(T) \subseteq DOMAIN T.sym /\ \A h : Listed(T, h) \subseteq Live(T)
  BY DEF Live, Listed
<1>5. 0 \notin DOMAIN T.sym  BY <1>2
<1> QED  BY <1>2, <1>3, <1>4, <1>5

LEMMA PassedFinite ==
  ASSUME NEW T \in Tables, NEW h, NEW w
  PROVE  /\ IsFiniteSet(Passed(T, Listed(T, h), w))
         /\ Cardinality(Passed(T, Listed(T, h), w)) \in Nat
         /\ IsFiniteSet(DOMAIN T.sym) /\ Cardinality(DOMAIN T.sym) = Len(T.sym)
<1>1. IsFiniteSet(DOMAIN T.sym) /\ Cardinality(DOMAIN T.sym) = Len(T.sym)
  <2> DEFINE n == Len(T.sym)
  <2>1. n \in Nat /\ DOMAIN T.sym = 1..n  BY LiveFacts
  <2> HIDE DEF n
  <2>2. IsFiniteSet(1..n) /\ Cardinality(1..n) = IF 1 > n THEN 0 ELSE n - 1 + 1
    BY <2>1, FS_Interval
  <2>3. Cardinality(1..n) = n  BY <2>1, <2>2
  <2>4. Cardinality(DOMAIN T.sym) = n /\ IsFiniteSet(DOMAIN T.sym)  BY <2>1, <2>2, <2>3
  <2> QED  BY <2>4 DEF n
<1>2. Passed(T, Listed(T, h), w) \in SUBSET DOMAIN T.sym
  BY DEF Passed, Listed, Live
<1> QED  BY <1>1, <1>2, FS_Subset, FS_CardinalityType

(* A turn keeps to the list.                                                *)
LEMMA TurnWalks ==
  ASSUME NEW T, InLists(T), NEW name \in Nat, NEW h \in 0..HashTabSize - 1, NEW n \in Nat,
         NEW w, OnWalk(T, name, Listed(T, h), w, n)
  PROVE  OnWalk(T, name, Listed(T, h), Turn(T, name, w), n + 1)
<1> DEFINE L == Listed(T, h)
           new == Turn(T, name, w)
<1>0. T \in Tables  BY DEF InLists
<1>1. CASE AtRest(T, name, w)
  <2>1. new = w  BY <1>1 DEF AtRest, Turn
  <2> QED  BY <2>1, <1>1 DEF OnWalk
<1>2. CASE ~ AtRest(T, name, w)
  <2> DEFINE k == w.this
  <2>1. w \in Walks(T) /\ k # 0 /\ T.sym[k].name < name /\ k \in DOMAIN T.sym
    <3>1. w \in Walks(T)  BY DEF OnWalk
    <3>2. k \in {0} \cup DOMAIN T.sym /\ k # 0  BY <3>1, <1>2 DEF Walks, AtRest
    <3>3. T.sym[k].name \in Nat  BY <3>2, <1>0, LiveFacts
    <3> QED  BY <3>1, <3>2, <3>3, <1>2 DEF AtRest
  <2>2. /\ k \in L /\ (w.last = 0 \/ T.sym[k].name > T.sym[w.last].name)
        /\ \A j \in L : (w.last = 0 \/ T.sym[j].name > T.sym[w.last].name) =>
                          T.sym[k].name <= T.sym[j].name
    BY <2>1 DEF OnWalk, IsFirst
  <2>3. new = [this |-> T.sym[k].next, last |-> k]
    <3>1. ~ (w.this = 0 \/ T.sym[w.this].name >= name)  BY <1>2 DEF AtRest
    <3> QED  BY <3>1 DEF Turn
  <2>4. k \in Live(T) /\ h = hash_code_from_string(T.sym[k].name)
    BY <2>2 DEF Listed
  <2>5. IsFirst(T, After(T, k), new.this)
    <3>1. new.this = T.sym[k].next  BY <2>3
    <3> QED  BY <3>1, <2>4 DEF InLists
  <2>6. After(T, k) = {j \in L : new.last = 0 \/ T.sym[j].name > T.sym[new.last].name}
    <3>1. new.last = k /\ new.last # 0  BY <2>3, <2>1
    <3> QED  BY <3>1, <2>4 DEF After
  <2>7. new \in Walks(T)
    <3>1. After(T, k) \subseteq DOMAIN T.sym  BY DEF After, Listed, Live
    <3>2. new.this \in {0} \cup DOMAIN T.sym  BY <2>5, <3>1 DEF IsFirst
    <3>3. new = [this |-> new.this, last |-> k]  BY <2>3
    <3> HIDE DEF new
    <3> QED  BY <3>2, <3>3, <2>1 DEF Walks
  <2>8. Cardinality(Passed(T, L, new)) >= n + 1
    <3> DEFINE A == Passed(T, L, w)
               B == Passed(T, L, new)
    <3>1. k \notin A
      <4> SUFFICES ASSUME k \in A PROVE FALSE  OBVIOUS
      <4>1. w.last # 0 /\ T.sym[k].name <= T.sym[w.last].name  BY DEF Passed
      <4>2. w.last \in DOMAIN T.sym  BY <4>1, <2>1 DEF Walks
      <4>3. T.sym[k].name \in Nat /\ T.sym[w.last].name \in Nat
        BY <4>2, <2>1, <1>0, LiveFacts
      <4> QED  BY <4>1, <4>3, <2>2
    <3>2. A \cup {k} \subseteq B
      <4>1. new.last = k /\ k # 0 /\ k \in L  BY <2>1, <2>2, <2>3
      <4>2. k \in B
        <5>1. T.sym[k].name \in Nat  BY <2>1, <1>0, LiveFacts
        <5> QED  BY <4>1, <5>1 DEF Passed
      <4>3. ASSUME NEW j \in A PROVE j \in B
        <5>1. j \in L /\ w.last # 0 /\ T.sym[j].name <= T.sym[w.last].name
          BY <4>3 DEF Passed
        <5>2. w.last \in DOMAIN T.sym /\ j \in DOMAIN T.sym
          BY <5>1, <2>1, <1>0, LiveFacts DEF Walks
        <5>3. T.sym[k].name \in Nat /\ T.sym[j].name \in Nat /\ T.sym[w.last].name \in Nat
          BY <5>2, <2>1, <1>0, LiveFacts
        <5>4. T.sym[j].name <= T.sym[k].name  BY <5>1, <5>3, <2>2
        <5> QED  BY <4>1, <5>1, <5>4 DEF Passed
      <4> QED  BY <4>2, <4>3
    <3>3. IsFiniteSet(A) /\ IsFiniteSet(B) /\ Cardinality(A) \in Nat /\ Cardinality(B) \in Nat
      BY <1>0, PassedFinite
    <3>4. Cardinality(A) >= n
      BY <1>2 DEF OnWalk
    <3> HIDE DEF A, B
    <3>5. IsFiniteSet(A \cup {k}) /\ Cardinality(A \cup {k}) = Cardinality(A) + 1
      BY <3>1, <3>3, FS_AddElement
    <3>6. Cardinality(A \cup {k}) <= Cardinality(B)
      BY <3>2, <3>3, FS_Subset
    <3>7. Cardinality(B) >= n + 1  BY <3>3, <3>4, <3>5, <3>6
    <3> QED  BY <3>7 DEF B
  <2>9. new.last \in L /\ T.sym[new.last].name < name  BY <2>1, <2>2, <2>3
  <2> HIDE DEF new, L
  <2>10. IsFirst(T, {j \in L : new.last = 0 \/ T.sym[j].name > T.sym[new.last].name}, new.this)
    BY <2>5, <2>6
  <2>11. OnWalk(T, name, L, new, n + 1)  BY <2>7, <2>8, <2>9, <2>10 DEF OnWalk
  <2> QED  BY <2>11 DEF new, L
<1> QED  BY <1>1, <1>2

LEMMA WalkEnds ==
  ASSUME NEW T, InLists(T), NEW name \in Nat
  PROVE  LET L == Listed(T, hash_code_from_string(name)) IN
         OnWalk(T, name, L, Walk(T, name), Len(T.sym)) /\ AtRest(T, name, Walk(T, name))
<1> DEFINE h == hash_code_from_string(name)
           L == Listed(T, h)
           N == Len(T.sym)
           a == [this |-> T.head[h], last |-> 0]
           made(f) == [n \in 0..N |-> IF n = 0 THEN a ELSE Turn(T, name, f[n - 1])]
           after == CHOOSE f : f = made(f)
           P == [n \in 0..N |-> {w \in Walks(T) : OnWalk(T, name, L, w, n)}]
           F == [n \in 1..N |-> [w \in Walks(T) |-> Turn(T, name, w)]]
<1>1. Walk(T, name) = after[N]  BY DEF Walk
<1>2. T \in Tables /\ N \in Nat /\ h \in 0..HashTabSize - 1
  BY LiveFacts, HashType DEF InLists
<1>3. OnWalk(T, name, L, a, 0)
  <2>1. IsFirst(T, L, T.head[h])  BY <1>2 DEF InLists
  <2>2. T.head[h] \in {0} \cup DOMAIN T.sym
    <3>1. L \subseteq DOMAIN T.sym  BY DEF Listed, Live
    <3> QED  BY <2>1, <3>1 DEF IsFirst
  <2>3. L = {j \in L : a.last = 0 \/ T.sym[j].name > T.sym[a.last].name}  OBVIOUS
  <2>4. a \in Walks(T)  BY <2>2 DEF Walks
  <2>5. Cardinality(Passed(T, L, a)) >= 0  BY <1>2, PassedFinite
  <2>6. a.this = T.head[h] /\ a.last = 0  OBVIOUS
  <2> HIDE DEF a, L
  <2>7. IsFirst(T, {j \in L : a.last = 0 \/ T.sym[j].name > T.sym[a.last].name}, a.this)
    BY <2>1, <2>3, <2>6
  <2> QED  BY <2>4, <2>5, <2>6, <2>7 DEF OnWalk
<1>4. ASSUME NEW n \in 1..N, NEW w \in P[n - 1]
      PROVE  F[n][w] = Turn(T, name, w) /\ F[n][w] \in P[n]
  <2>1. n - 1 \in 0..N /\ n \in 0..N /\ n - 1 \in Nat /\ (n - 1) + 1 = n  BY <1>2
  <2>2. w \in Walks(T) /\ OnWalk(T, name, L, w, n - 1)  BY <2>1
  <2>3. F[n][w] = Turn(T, name, w)  BY <2>2
  <2> HIDE DEF F, L, h
  <2>4. OnWalk(T, name, L, Turn(T, name, w), n)
    <3>1. OnWalk(T, name, L, Turn(T, name, w), (n - 1) + 1)
      BY <2>1, <2>2, <1>2, TurnWalks DEF L
    <3> QED  BY <3>1, <2>1
  <2>5. Turn(T, name, w) \in Walks(T)  BY <2>4 DEF OnWalk
  <2> QED  BY <2>1, <2>3, <2>4, <2>5
<1>5. a \in P[0]
  <2>1. 0 \in 0..N /\ a \in Walks(T)  BY <1>2, <1>3 DEF OnWalk
  <2> HIDE DEF a, L
  <2> QED  BY <2>1, <1>3
<1> HIDE DEF a, P, F, L, h, N
<1>6. \E f : f = made(f)
  <2>1. PICK f : f = Stepped(N, a, F, f)
    BY <1>2, StepsExist
  <2>2. f[0] = a /\ \A n \in 1..N : f[n] = F[n][f[n - 1]]
    <3>1. 0 \in 0..N /\ \A n \in 1..N : n \in 0..N /\ n # 0  BY <1>2
    <3> QED  BY <2>1, <3>1 DEF Stepped
  <2>3. \A n \in 0..N : f[n] \in P[n]
    <3>1. Leads(N, F, P) /\ Follows(N, F, P, f) /\ f[0] \in P[0]
      BY <2>2, <1>4, <1>5 DEF Leads, Follows
    <3> QED  BY ONLY <3>1, <1>2, StepsStay
  <2>4. ASSUME NEW n \in 0..N, n # 0 PROVE F[n][f[n - 1]] = Turn(T, name, f[n - 1])
    <3>1. n \in 1..N /\ n - 1 \in 0..N  BY <1>2, <2>4
    <3> QED  BY <3>1, <2>3, <1>4
  <2>5. \A n \in 0..N : (IF n = 0 THEN a ELSE F[n][f[n - 1]])
                          = (IF n = 0 THEN a ELSE Turn(T, name, f[n - 1]))
    BY <2>4
  <2>6. Stepped(N, a, F, f) = made(f)
    BY <2>5 DEF Stepped
  <2>7. f = made(f)  BY <2>1, <2>6
  <2> QED  BY <2>7
<1>7. after = made(after)
  <2> HIDE DEF made
  <2> QED  BY <1>6
<1>8. after[0] = a /\ \A n \in 1..N : after[n] = Turn(T, name, after[n - 1])
  <2>1. 0 \in 0..N /\ \A n \in 1..N : n \in 0..N /\ n # 0  BY <1>2
  <2>2. \A n \in 0..N : made(after)[n] = IF n = 0 THEN a ELSE Turn(T, name, after[n - 1])
    <3> HIDE DEF after
    <3> QED  OBVIOUS
  <2> HIDE DEF after, made
  <2> QED  BY <1>7, <2>1, <2>2
<1> HIDE DEF after
<1>9. after[N] \in P[N]
  <2>1. Leads(N, F, P)  BY <1>4 DEF Leads
  <2>2. Follows(N, F, P, after)  BY <1>4, <1>8 DEF Follows
  <2>3. after[0] \in P[0]  BY <1>5, <1>8
  <2>4. \A n \in 0..N : after[n] \in P[n]  BY ONLY <2>1, <2>2, <2>3, <1>2, StepsStay
  <2> QED  BY <2>4, <1>2
<1>10. OnWalk(T, name, L, Walk(T, name), N)
  BY <1>1, <1>2, <1>9 DEF P
<1>11. AtRest(T, name, Walk(T, name))
  <2> SUFFICES ASSUME ~ AtRest(T, name, Walk(T, name)) PROVE FALSE  OBVIOUS
  <2> DEFINE w == Walk(T, name)
             k == w.this
             A == Passed(T, L, w)
  <2>1. Cardinality(A) >= N  BY <1>10 DEF OnWalk
  <2>2. k # 0 /\ k \in DOMAIN T.sym  BY <1>10 DEF OnWalk, Walks, AtRest
  <2>3. k \notin A
    <3> SUFFICES ASSUME k \in A PROVE FALSE  OBVIOUS
    <3>1. w.last # 0 /\ T.sym[k].name <= T.sym[w.last].name  BY DEF Passed
    <3>2. w.last \in DOMAIN T.sym  BY <3>1, <1>10 DEF OnWalk, Walks
    <3>3. T.sym[k].name \in Nat /\ T.sym[w.last].name \in Nat
      BY <3>2, <2>2, <1>2, LiveFacts
    <3>4. T.sym[k].name > T.sym[w.last].name
      BY <1>10, <2>2, <3>1 DEF OnWalk, IsFirst
    <3> QED  BY <3>1, <3>3, <3>4
  <2>4. A \subseteq DOMAIN T.sym  BY DEF Passed, L, Listed, Live
  <2>5. IsFiniteSet(A) /\ Cardinality(A) \in Nat /\ IsFiniteSet(DOMAIN T.sym)
        /\ Cardinality(DOMAIN T.sym) = N
    BY <1>2, PassedFinite DEF L, N
  <2> HIDE DEF A, k
  <2>6. Cardinality(A \cup {k}) = Cardinality(A) + 1 /\ A \cup {k} \in SUBSET DOMAIN T.sym
    BY <2>2, <2>3, <2>4, <2>5, FS_AddElement
  <2>7. Cardinality(A \cup {k}) <= N  BY <2>5, <2>6, FS_Subset
  <2> QED  BY <2>1, <2>5, <2>6, <2>7, <1>2
<1> QED  BY <1>10, <1>11 DEF L, h, N

(* Where symbol_index finds a name, or would put it.                        *)
LEMMA PlaceIs ==
  ASSUME NEW T, InLists(T), NEW name \in Nat
  PROVE  LET L == Listed(T, hash_code_from_string(name))
             p == Place(T, name)
         IN /\ p.found = 0 => \A j \in Live(T) : T.sym[j].name # name
            /\ p.found # 0 => p.found \in L /\ T.sym[p.found].name = name
            /\ IsFirst(T, {j \in L : T.sym[j].name >= name}, p.next)
            /\ p.last = 0 => \A j \in L : T.sym[j].name >= name
            /\ p.last # 0 => /\ p.last \in L /\ T.sym[p.last].name < name
                             /\ \A j \in L : T.sym[j].name < name =>
                                               T.sym[j].name <= T.sym[p.last].name
<1> DEFINE L == Listed(T, hash_code_from_string(name))
           w == Walk(T, name)
<1>1. OnWalk(T, name, L, w, Len(T.sym)) /\ AtRest(T, name, w)  BY WalkEnds
<1>2. T \in Tables  BY DEF InLists
<1> HIDE DEF w
<1>3. \A j \in L : j \in DOMAIN T.sym /\ T.sym[j].name \in Nat /\ j # 0  BY <1>2, LiveFacts
<1> DEFINE Rest == {j \in L : w.last = 0 \/ T.sym[j].name > T.sym[w.last].name}
<1>4. /\ \/ Rest = {} /\ w.this = 0
         \/ w.this \in Rest /\ \A j \in Rest : T.sym[w.this].name <= T.sym[j].name
      /\ w.last = 0 \/ (w.last \in L /\ T.sym[w.last].name < name)
  BY <1>1 DEF OnWalk, IsFirst
<1>5. {j \in L : T.sym[j].name >= name} = Rest
  <2>1. ASSUME NEW j \in L, T.sym[j].name >= name PROVE j \in Rest
    BY <2>1, <1>3, <1>4
  <2>2. ASSUME NEW j \in Rest PROVE T.sym[j].name >= name
    <3>1. w.this \in Rest /\ T.sym[w.this].name <= T.sym[j].name  BY <1>4
    <3>2. T.sym[w.this].name >= name  BY <3>1, <1>1, <1>3 DEF AtRest
    <3> QED  BY <3>1, <3>2, <1>3
  <2> QED  BY <2>1, <2>2
<1>6. Place(T, name) = [found |-> IF w.this # 0 /\ T.sym[w.this].name = name THEN w.this ELSE 0,
                        last |-> w.last, next |-> w.this]
  BY DEF Place, w
<1>7. IsFirst(T, Rest, w.this)  BY <1>4 DEF IsFirst
<1>8. ASSUME NEW j \in L, T.sym[j].name < name
      PROVE  w.last # 0 /\ T.sym[j].name <= T.sym[w.last].name
  <2>1. j \notin Rest  BY <1>5, <1>8, <1>3
  <2>2. w.last # 0 /\ ~ (T.sym[j].name > T.sym[w.last].name)  BY <2>1
  <2> QED  BY <2>2, <1>3, <1>4
<1>9. ASSUME NEW j \in Live(T), T.sym[j].name = name
      PROVE  w.this # 0 /\ T.sym[w.this].name = name
  <2>1. j \in L  BY <1>9 DEF Listed
  <2>2. j \in Rest  BY <2>1, <1>9, <1>3, <1>5
  <2>3. w.this \in Rest /\ T.sym[w.this].name <= name  BY <2>2, <1>4, <1>9
  <2> QED  BY <2>3, <1>3, <1>5
<1>10. w.this # 0 => w.this \in L  BY <1>4
<1> HIDE DEF L, Rest
<1>11. /\ Place(T, name).found = IF w.this # 0 /\ T.sym[w.this].name = name THEN w.this ELSE 0
       /\ Place(T, name).last = w.last /\ Place(T, name).next = w.this
  BY <1>6
<1>12. Place(T, name).found = 0 => \A j \in Live(T) : T.sym[j].name # name
  BY <1>9, <1>11
<1>13. Place(T, name).found # 0 => Place(T, name).found \in L /\ T.sym[Place(T, name).found].name = name
  BY <1>10, <1>11
<1>14. IsFirst(T, {j \in L : T.sym[j].name >= name}, Place(T, name).next)
  BY <1>5, <1>7, <1>11
<1>15. w.last = 0 => \A j \in L : T.sym[j].name >= name
  BY <1>3, <1>8
<1>16. w.last # 0 => /\ w.last \in L /\ T.sym[w.last].name < name
                     /\ \A j \in L : T.sym[j].name < name => T.sym[j].name <= T.sym[w.last].name
  BY <1>4, <1>8
<1> QED  BY <1>11, <1>12, <1>13, <1>14, <1>15, <1>16 DEF L

(* N has the symbols of T and one more, in use, with the name.              *)
Grown(T, N, name) ==
  /\ InLists(N)
  /\ Len(N.sym) = Len(T.sym) + 1
  /\ Live(N) = Live(T) \cup {Len(T.sym) + 1}
  /\ N.sym[Len(T.sym) + 1].name = name
  /\ \A k \in DOMAIN T.sym : N.sym[k].name = T.sym[k].name

(* Insert puts a name that no symbol in use has where its list needs it.    *)
LEMMA InsertKeeps ==
  ASSUME NEW T, InLists(T), NEW name \in Nat, Place(T, name).found = 0
  PROVE  Grown(T, Insert(T, name, Place(T, name).last, Place(T, name).next), name)
<1> DEFINE last == Place(T, name).last
           next == Place(T, name).next
           N == Insert(T, name, last, next)
           h == hash_code_from_string(name)
           L == Listed(T, h)
           m == Len(T.sym) + 1
<1>1. /\ \A j \in Live(T) : T.sym[j].name # name
      /\ IsFirst(T, {j \in L : T.sym[j].name >= name}, next)
      /\ last = 0 => \A j \in L : T.sym[j].name >= name
      /\ last # 0 => /\ last \in L /\ T.sym[last].name < name
                     /\ \A j \in L : T.sym[j].name < name => T.sym[j].name <= T.sym[last].name
  BY PlaceIs
<1>2. /\ T \in Tables /\ h \in 0..HashTabSize - 1
      /\ \A g \in 0..HashTabSize - 1 : IsFirst(T, Listed(T, g), T.head[g])
      /\ \A k \in Live(T) : IsFirst(T, After(T, k), T.sym[k].next)
      /\ Distinct(T)
      /\ \A k \in Live(T) : "discarded" \notin T.sym[k].flags
  BY HashType DEF InLists
<1>3. /\ Len(T.sym) \in Nat /\ DOMAIN T.sym = 1..Len(T.sym)
      /\ \A k \in DOMAIN T.sym : T.sym[k] \in Symbols /\ T.sym[k].name \in Nat
      /\ Live(T) \subseteq DOMAIN T.sym
      /\ \A g : Listed(T, g) \subseteq Live(T)
      /\ m \notin DOMAIN T.sym /\ m \notin Live(T) /\ m # 0
  BY <1>2, LiveFacts
<1>4. next \in Nat /\ last \in {0} \cup DOMAIN T.sym
  <2>1. next = 0 \/ next \in L  BY <1>1 DEF IsFirst
  <2> HIDE DEF next, last
  <2> QED  BY <2>1, <1>1, <1>3
<1> HIDE DEF last, next
<1> DEFINE changed == IF last = 0 THEN T.sym ELSE [T.sym EXCEPT ![last].next = m]
<1>5. /\ N.sym = Append(changed, NewSymbol(name, next))
      /\ N.head = IF last = 0 THEN [T.head EXCEPT ![h] = m] ELSE T.head
  BY DEF Insert
<1>6. changed \in Seq(Symbols) /\ Len(changed) = Len(T.sym)
      /\ \A k \in DOMAIN T.sym :
           changed[k] = IF k = last THEN [T.sym[k] EXCEPT !.next = m] ELSE T.sym[k]
  <2>1. T.sym \in Seq(Symbols)  BY <1>2 DEF Tables
  <2>2. CASE last = 0
    <3>1. \A k \in DOMAIN T.sym : k # last  BY <2>2, <1>3
    <3> QED  BY <2>1, <2>2, <3>1
  <2>3. CASE last # 0
    <3>1. last \in DOMAIN T.sym /\ T.sym[last] \in Symbols  BY <2>3, <1>3, <1>4
    <3>2. [T.sym[last] EXCEPT !.next = m] \in Symbols
      <4>1. m \in Nat  BY <1>3
      <4> HIDE DEF m
      <4> QED  BY <3>1, <4>1 DEF Symbols
    <3> DEFINE e == [T.sym[last] EXCEPT !.next = m]
    <3>3. changed = [T.sym EXCEPT ![last] = e]  BY <2>3
    <3> HIDE DEF e, changed
    <3>4. changed \in Seq(Symbols) /\ Len(changed) = Len(T.sym)
          /\ \A k \in DOMAIN T.sym : changed[k] = IF k = last THEN e ELSE T.sym[k]
      BY <2>1, <3>1, <3>2, <3>3 DEF e
    <3> QED  BY <3>4 DEF e
  <2> QED  BY <2>2, <2>3
<1>7. NewSymbol(name, next) \in Symbols
  BY <1>4 DEF NewSymbol, Symbols, FlagNames
<1>8. /\ N.sym \in Seq(Symbols) /\ Len(N.sym) = m /\ DOMAIN N.sym = 1..m
      /\ N.sym[m] = NewSymbol(name, next)
      /\ \A k \in DOMAIN T.sym : N.sym[k] = changed[k]
  <2> HIDE DEF changed, N
  <2>1. Len(T.sym) \in Nat  BY <1>3
  <2>2. N.sym \in Seq(Symbols) /\ Len(N.sym) = Len(changed) + 1
    BY <1>5, <1>6, <1>7
  <2>3. Len(N.sym) = m /\ DOMAIN N.sym = 1..m  BY <2>1, <2>2, <1>6
  <2>4. N.sym[m] = NewSymbol(name, next)  BY <2>1, <1>5, <1>6, <1>7
  <2>5. \A k \in DOMAIN T.sym : N.sym[k] = changed[k]
    BY <2>1, <1>3, <1>5, <1>6, <1>7
  <2> QED  BY <2>2, <2>3, <2>4, <2>5
<1>9. \A k \in DOMAIN T.sym :
        /\ N.sym[k].name = T.sym[k].name /\ N.sym[k].flags = T.sym[k].flags
        /\ N.sym[k].next = IF k = last THEN m ELSE T.sym[k].next
  <2> SUFFICES ASSUME NEW k \in DOMAIN T.sym
               PROVE  /\ N.sym[k].name = T.sym[k].name /\ N.sym[k].flags = T.sym[k].flags
                      /\ N.sym[k].next = IF k = last THEN m ELSE T.sym[k].next
    OBVIOUS
  <2>1. N.sym[k] = IF k = last THEN [T.sym[k] EXCEPT !.next = m] ELSE T.sym[k]
    BY <1>6, <1>8
  <2>2. T.sym[k] \in Symbols  BY <1>3
  <2> QED  BY <2>1, <2>2 DEF Symbols
<1>10. N.sym[m].name = name /\ N.sym[m].flags = {"unknown"} /\ N.sym[m].next = next
  BY <1>8 DEF NewSymbol
<1>11. N \in Tables
  <2>1. T.head \in [0..HashTabSize - 1 -> Nat]  BY <1>2 DEF Tables
  <2>2. N.head \in [0..HashTabSize - 1 -> Nat]  BY <2>1, <1>2, <1>3, <1>5
  <2>3. N = [head |-> N.head, sym |-> N.sym]  BY DEF Insert
  <2> HIDE DEF N
  <2> QED  BY <2>2, <2>3, <1>8 DEF Tables
<1> HIDE DEF N, changed
<1>12. Live(N) = Live(T) \cup {m}
  <2>1. DOMAIN N.sym = DOMAIN T.sym \cup {m}  BY <1>3, <1>8
  <2>2. "unhashed" \notin N.sym[m].flags  BY <1>10
  <2> QED  BY <2>1, <2>2, <1>3, <1>9 DEF Live
<1>13. Listed(N, h) = L \cup {m} /\ \A g : g # h => Listed(N, g) = Listed(T, g)
  <2>1. \A k \in Live(T) : N.sym[k].name = T.sym[k].name  BY <1>3, <1>9
  <2>2. \A k \in Live(N) : k # m => N.sym[k].name = T.sym[k].name  BY <2>1, <1>12
  <2>3. hash_code_from_string(N.sym[m].name) = h  BY <1>10
  <2> QED  BY <2>1, <2>2, <2>3, <1>3, <1>12 DEF Listed
<1> HIDE DEF h
<1>14. \A g : \A j \in Listed(T, g) : j \in DOMAIN T.sym /\ N.sym[j].name = T.sym[j].name
                                      /\ T.sym[j].name \in Nat /\ T.sym[j].name # name
  BY <1>1, <1>3, <1>9
<1>15. ASSUME NEW g \in 0..HashTabSize - 1 PROVE IsFirst(N, Listed(N, g), N.head[g])
  <2>1. CASE g # h
    <3>1. N.head[g] = T.head[g]
      <4>1. T.head \in [0..HashTabSize - 1 -> Nat]  BY <1>2 DEF Tables
      <4> QED  BY <4>1, <2>1, <1>5, <1>2
    <3>2. Listed(N, g) = Listed(T, g) /\ IsFirst(T, Listed(T, g), T.head[g])
      BY <2>1, <1>2, <1>13
    <3> QED  BY <3>1, <3>2, <1>14 DEF IsFirst
  <2>2. CASE g = h /\ last = 0
    <3>1. N.head[g] = m
      <4>1. T.head \in [0..HashTabSize - 1 -> Nat]  BY <1>2 DEF Tables
      <4> QED  BY <4>1, <2>2, <1>5, <1>2
    <3>2. \A j \in L : name <= T.sym[j].name  BY <2>2, <1>1, <1>14
    <3> QED  BY <3>1, <3>2, <2>2, <1>10, <1>13, <1>14 DEF IsFirst
  <2>3. CASE g = h /\ last # 0
    <3>1. N.head[g] = T.head[h]  BY <2>3, <1>5
    <3>2. last \in L /\ T.sym[last].name < name  BY <2>3, <1>1
    <3> DEFINE x == T.head[h]
    <3>3. x \in L /\ \A j \in L : T.sym[x].name <= T.sym[j].name
      BY <3>2, <1>2 DEF IsFirst
    <3>4. T.sym[x].name <= name  BY <3>2, <3>3, <1>14
    <3>5. \A j \in L \cup {m} : N.sym[x].name <= N.sym[j].name
      <4> HIDE DEF x, L
      <4> QED  BY <3>3, <3>4, <1>10, <1>14 DEF L
    <3>6. x \in Listed(N, g)  BY <3>3, <2>3, <1>13
    <3> HIDE DEF x
    <3> QED  BY <3>1, <3>5, <3>6, <2>3, <1>13 DEF IsFirst, x
  <2> QED  BY <2>1, <2>2, <2>3
<1>16. ASSUME NEW k \in Live(N) PROVE IsFirst(N, After(N, k), N.sym[k].next)
  <2>1. CASE k = m
    <3>1. After(N, m) = {j \in L : T.sym[j].name >= name}
      <4>1. After(N, m) = {j \in L \cup {m} : N.sym[j].name > name}
        BY <1>10, <1>13 DEF After, h
      <4>2. ~ (N.sym[m].name > name)  BY <1>10
      <4>3. \A j \in L : (N.sym[j].name > name) = (T.sym[j].name >= name)
        BY <1>14
      <4> HIDE DEF L
      <4> QED  BY <4>1, <4>2, <4>3
    <3>2. IsFirst(N, {j \in L : T.sym[j].name >= name}, next)
      BY <1>1, <1>14 DEF IsFirst
    <3> QED  BY <3>1, <3>2, <2>1, <1>10
  <2>2. CASE k \in Live(T)
    <3> DEFINE g == hash_code_from_string(T.sym[k].name)
    <3>1. k \in DOMAIN T.sym /\ N.sym[k].name = T.sym[k].name /\ k \in Listed(T, g)
          /\ T.sym[k].name \in Nat /\ T.sym[k].name # name
      BY <2>2, <1>3, <1>9, <1>1 DEF Listed
    <3>2. IsFirst(T, After(T, k), T.sym[k].next)  BY <2>2, <1>2
    <3>3. After(T, k) = {j \in Listed(T, g) : T.sym[j].name > T.sym[k].name}  BY DEF After
    <3>4. After(N, k) = {j \in Listed(N, g) : N.sym[j].name > T.sym[k].name}
      BY <3>1 DEF After
    <3>5. N.sym[k].next = IF k = last THEN m ELSE T.sym[k].next  BY <3>1, <1>9
    <3> HIDE DEF g
    <3>6. CASE g # h
      <4>1. k # last
        <5>1. last # 0 => hash_code_from_string(T.sym[last].name) = h
          BY <1>1 DEF Listed
        <5>2. k # 0  BY <3>1, <1>3
        <5> QED  BY <5>1, <5>2, <3>6 DEF g
      <4>2. After(N, k) = After(T, k)  BY <3>3, <3>4, <3>6, <1>13, <1>14
      <4>3. \A j \in After(T, k) : N.sym[j].name = T.sym[j].name  BY <3>3, <1>14
      <4> QED  BY <4>1, <4>2, <4>3, <3>2, <3>5 DEF IsFirst
    <3>7. CASE g = h /\ T.sym[k].name > name
      <4>1. k # last
        <5>1. last # 0 => T.sym[last].name < name  BY <1>1
        <5>2. k # 0  BY <3>1, <1>3
        <5> QED  BY <5>1, <5>2, <3>1, <3>7
      <4>2. After(N, k) = After(T, k)
        <5>1. ~ (N.sym[m].name > T.sym[k].name)  BY <1>10, <3>1, <3>7
        <5>2. Listed(N, g) = Listed(T, g) \cup {m}  BY <3>7, <1>13
        <5> QED  BY <5>1, <5>2, <3>3, <3>4, <1>14
      <4>3. \A j \in After(T, k) : N.sym[j].name = T.sym[j].name  BY <3>3, <1>14
      <4> QED  BY <4>1, <4>2, <4>3, <3>2, <3>5 DEF IsFirst
    <3>8. CASE g = h /\ T.sym[k].name < name
      <4>1. Listed(N, g) = Listed(T, g) \cup {m} /\ Listed(T, g) = L  BY <3>8, <1>13
      <4>2. last # 0 /\ last \in L /\ T.sym[last].name < name
            /\ T.sym[k].name <= T.sym[last].name
        <5>1. k \in L /\ ~ (T.sym[k].name >= name)  BY <3>1, <3>8, <4>1
        <5>2. last # 0  BY <5>1, <1>1
        <5> QED  BY <5>1, <5>2, <3>8, <1>1
      <4>3. After(N, k) = After(T, k) \cup {m}
        <5>1. N.sym[m].name > T.sym[k].name  BY <1>10, <3>1, <3>8
        <5> QED  BY <5>1, <4>1, <3>3, <3>4, <1>14
      <4>4. \A j \in After(T, k) : N.sym[j].name = T.sym[j].name /\ T.sym[j].name \in Nat
                                   /\ j \in L
        BY <3>3, <4>1, <1>14
      <4>5. CASE k = last
        <5>1. ASSUME NEW j \in After(T, k) PROVE name <= T.sym[j].name
          <6>1. T.sym[j].name > T.sym[last].name  BY <5>1, <4>5, <3>3
          <6>2. ~ (T.sym[j].name < name)  BY <6>1, <4>2, <4>4, <4>5, <3>1, <1>1
          <6> QED  BY <6>2, <4>4
        <5>2. \A j \in After(N, k) : N.sym[m].name <= N.sym[j].name
          BY <5>1, <4>3, <4>4, <1>10
        <5>3. m \in After(N, k)  BY <4>3
        <5> QED  BY <5>2, <5>3, <4>5, <3>5 DEF IsFirst
      <4>6. CASE k # last
        <5>1. T.sym[k].name < T.sym[last].name
          <6>1. T.sym[last].name \in Nat /\ last \in Live(T)  BY <4>2, <1>14, <1>3
          <6>2. T.sym[k].name # T.sym[last].name  BY <6>1, <4>6, <2>2, <1>2 DEF Distinct
          <6> QED  BY <6>1, <6>2, <4>2, <3>1
        <5>2. last \in After(T, k)  BY <5>1, <4>1, <4>2, <3>1, <3>3, <1>14
        <5> DEFINE x == T.sym[k].next
        <5>3. x \in After(T, k) /\ \A j \in After(T, k) : T.sym[x].name <= T.sym[j].name
          BY <5>2, <3>2 DEF IsFirst
        <5>4. T.sym[x].name <= name
          <6>1. T.sym[x].name <= T.sym[last].name  BY <5>2, <5>3
          <6>2. T.sym[x].name \in Nat /\ T.sym[last].name \in Nat  BY <5>2, <5>3, <4>4
          <6> HIDE DEF x
          <6> QED  BY <6>1, <6>2, <4>2
        <5> HIDE DEF x
        <5>5. \A j \in After(N, k) : N.sym[x].name <= N.sym[j].name
          BY <5>3, <5>4, <4>3, <4>4, <1>10
        <5> QED  BY <5>3, <5>5, <4>3, <4>6, <3>5 DEF IsFirst, x
      <4> QED  BY <4>5, <4>6
    <3> QED  BY <3>1, <3>6, <3>7, <3>8
  <2> QED  BY <2>1, <2>2, <1>12
<1>17. Distinct(N)
  <2>1. \A k \in Live(T) : N.sym[k].name = T.sym[k].name /\ N.sym[k].name # name
    BY <1>1, <1>3, <1>9
  <2> QED  BY <2>1, <1>2, <1>10, <1>12 DEF Distinct
<1>18. \A k \in Live(N) : "discarded" \notin N.sym[k].flags
  <2>1. "discarded" \notin N.sym[m].flags  BY <1>10
  <2> QED  BY <2>1, <1>2, <1>3, <1>9, <1>12
<1>19. InLists(N)  BY <1>11, <1>15, <1>16, <1>17, <1>18 DEF InLists
<1>20. Grown(T, N, name)  BY <1>8, <1>9, <1>10, <1>12, <1>19 DEF Grown
<1> QED  BY <1>20 DEF N, last, next

(* symbol_index finds the one symbol in use with the name or makes it.      *)
LEMMA IndexIs ==
  ASSUME NEW T, InLists(T), NEW name \in Nat
  PROVE  LET r == symbol_index(T, name) IN
         /\ r.created \in BOOLEAN
         /\ r.created => /\ Grown(T, r.table, name) /\ r.index = Len(T.sym) + 1
                         /\ \A j \in Live(T) : T.sym[j].name # name
         /\ ~r.created => /\ r.table = T /\ r.index \in Live(T)
                          /\ T.sym[r.index].name = name
<1> DEFINE p == Place(T, name)
           r == symbol_index(T, name)
<1>1. CASE p.found = 0
  <2>1. \A j \in Live(T) : T.sym[j].name # name  BY <1>1, PlaceIs
  <2>2. Grown(T, Insert(T, name, p.last, p.next), name)  BY <1>1, InsertKeeps
  <2>3. r = [table |-> Insert(T, name, p.last, p.next), index |-> Len(T.sym) + 1,
             created |-> TRUE]
    BY <1>1 DEF symbol_index
  <2> HIDE DEF p, r
  <2>4. r.created = TRUE /\ r.index = Len(T.sym) + 1
        /\ r.table = Insert(T, name, p.last, p.next)
    BY <2>3
  <2>5. Grown(T, r.table, name)  BY <2>2, <2>4
  <2> QED  BY <2>1, <2>4, <2>5 DEF r
<1>2. CASE p.found # 0
  <2>1. p.found \in Live(T) /\ T.sym[p.found].name = name
    BY <1>2, PlaceIs DEF Listed
  <2>2. r = [table |-> T, index |-> p.found, created |-> FALSE]
    BY <1>2 DEF symbol_index
  <2> HIDE DEF p, r
  <2>3. r.created = FALSE /\ r.table = T /\ r.index = p.found  BY <2>2
  <2> QED  BY <2>1, <2>3 DEF r
<1> QED  BY <1>1, <1>2

(* The symbols that the table finds are those in use.                       *)
LEMMA HashedIsLive ==
  ASSUME NEW T, InLists(T)
  PROVE  Hashed(T) = Live(T)
<1>1. T \in Tables /\ Distinct(T)  BY DEF InLists
<1>2. ASSUME NEW k \in DOMAIN T.sym PROVE (get_symbol_index(T, T.sym[k].name) = k) = (k \in Live(T))
  <2> DEFINE p == Place(T, T.sym[k].name)
  <2>1. T.sym[k].name \in Nat /\ k # 0  BY <1>1, LiveFacts
  <2>2. p.found = 0 => k \notin Live(T)  BY <2>1, PlaceIs
  <2>3. p.found # 0 => p.found \in Live(T) /\ T.sym[p.found].name = T.sym[k].name
    BY <2>1, PlaceIs DEF Listed
  <2>4. get_symbol_index(T, T.sym[k].name) = p.found  BY DEF get_symbol_index
  <2> HIDE DEF p
  <2>5. k \in Live(T) => p.found = k  BY <2>2, <2>3, <1>1 DEF Distinct
  <2>6. p.found = k => k \in Live(T)  BY <2>1, <2>3
  <2> QED  BY <2>4, <2>5, <2>6
<1>3. Live(T) \subseteq DOMAIN T.sym  BY DEF Live
<1> QED  BY <1>2, <1>3 DEF Hashed

(* N has the symbols of T, and k is not in use any more.                    *)
Shrunk(T, N, k) ==
  /\ InLists(N)
  /\ DOMAIN N.sym = DOMAIN T.sym
  /\ Live(N) = Live(T) \ {k}
  /\ \A j \in DOMAIN T.sym : N.sym[j].name = T.sym[j].name

(* end_symbol_scope takes a symbol out of its list.                         *)
LEMMA ScopeEnds ==
  ASSUME NEW T, InLists(T), NEW k \in Live(T)
  PROVE  Shrunk(T, end_symbol_scope(T, k, TRUE), k)
<1> DEFINE N == end_symbol_scope(T, k, TRUE)
           h == hash_code_from_string(T.sym[k].name)
           L == Listed(T, h)
           mark == T.sym[k].flags \cup {"unhashed"} \cup {"discarded"}
           marked == [T.sym EXCEPT ![k].flags = mark]
           before == {j \in DOMAIN T.sym : T.sym[j].next = k /\ "unhashed" \notin T.sym[j].flags}
<1>1. /\ T \in Tables
      /\ \A g \in 0..HashTabSize - 1 : IsFirst(T, Listed(T, g), T.head[g])
      /\ \A j \in Live(T) : IsFirst(T, After(T, j), T.sym[j].next)
      /\ Distinct(T)
      /\ \A j \in Live(T) : "discarded" \notin T.sym[j].flags
  BY DEF InLists
<1>2. /\ Len(T.sym) \in Nat /\ DOMAIN T.sym = 1..Len(T.sym) /\ T.sym \in Seq(Symbols)
      /\ \A j \in DOMAIN T.sym : T.sym[j] \in Symbols /\ T.sym[j].name \in Nat /\ j # 0
      /\ Live(T) \subseteq DOMAIN T.sym
      /\ \A g : Listed(T, g) \subseteq Live(T)
  BY <1>1, LiveFacts DEF Tables
<1>3. h \in 0..HashTabSize - 1 /\ k \in L /\ k \in DOMAIN T.sym
  BY <1>2, HashType DEF Listed
<1>4. marked \in Seq(Symbols) /\ Len(marked) = Len(T.sym)
      /\ \A j \in DOMAIN T.sym :
           /\ marked[j].name = T.sym[j].name /\ marked[j].next = T.sym[j].next
           /\ marked[j].flags = IF j = k THEN mark ELSE T.sym[j].flags
  <2> DEFINE e == [T.sym[k] EXCEPT !.flags = mark]
  <2>1. e \in Symbols /\ e.name = T.sym[k].name /\ e.next = T.sym[k].next /\ e.flags = mark
    <3>1. mark \in SUBSET FlagNames  BY <1>2, <1>3 DEF Symbols, FlagNames
    <3> HIDE DEF mark
    <3> QED  BY <3>1, <1>2, <1>3 DEF Symbols
  <2>2. marked = [T.sym EXCEPT ![k] = e]  OBVIOUS
  <2> HIDE DEF marked, e
  <2>3. marked \in Seq(Symbols) /\ Len(marked) = Len(T.sym)  BY <1>2, <1>3, <2>1, <2>2
  <2>4. \A j \in DOMAIN T.sym : marked[j] = IF j = k THEN e ELSE T.sym[j]
    BY <1>2, <1>3, <2>2
  <2> QED  BY <2>1, <2>3, <2>4
<1> HIDE DEF marked
<1> DEFINE relinked == [j \in DOMAIN marked |->
                          IF j \in before THEN [marked[j] EXCEPT !.next = T.sym[k].next]
                          ELSE marked[j]]
<1>5. N = IF T.head[h] = k THEN [head |-> [T.head EXCEPT ![h] = T.sym[k].next], sym |-> marked]
          ELSE [T EXCEPT !.sym = relinked]
  BY DEF end_symbol_scope, marked
<1>6. relinked \in Seq(Symbols) /\ DOMAIN relinked = DOMAIN T.sym
      /\ \A j \in DOMAIN T.sym :
           /\ relinked[j].name = T.sym[j].name
           /\ relinked[j].next = IF j \in before THEN T.sym[k].next ELSE T.sym[j].next
           /\ relinked[j].flags = IF j = k THEN mark ELSE T.sym[j].flags
  <2>1. DOMAIN marked = DOMAIN T.sym /\ DOMAIN marked = 1..Len(T.sym)  BY <1>2, <1>4
  <2>2. T.sym[k].next \in Nat  BY <1>2, <1>3 DEF Symbols
  <2>3. ASSUME NEW j \in DOMAIN T.sym
        PROVE  /\ relinked[j] \in Symbols
               /\ relinked[j].name = T.sym[j].name
               /\ relinked[j].next = IF j \in before THEN T.sym[k].next ELSE T.sym[j].next
               /\ relinked[j].flags = IF j = k THEN mark ELSE T.sym[j].flags
    <3> DEFINE e == [marked[j] EXCEPT !.next = T.sym[k].next]
    <3>1. marked[j] \in Symbols  BY <2>1, <1>4
    <3>2. e \in Symbols /\ e.name = marked[j].name /\ e.flags = marked[j].flags
          /\ e.next = T.sym[k].next
      BY <2>2, <3>1 DEF Symbols
    <3>3. relinked[j] = IF j \in before THEN e ELSE marked[j]  BY <2>1
    <3> HIDE DEF e, relinked, before, mark
    <3> QED  BY <1>4, <3>1, <3>2, <3>3
  <2>4. DOMAIN relinked = 1..Len(T.sym)  BY <2>1
  <2>5. relinked = [j \in 1..Len(T.sym) |-> relinked[j]]  BY <2>1
  <2> HIDE DEF relinked, before, mark
  <2>6. relinked \in Seq(Symbols)
    <3>1. relinked \in [1..Len(T.sym) -> Symbols]  BY <2>3, <2>5, <1>2
    <3> QED  BY <3>1, <1>2, SeqDef
  <2> QED  BY <2>3, <2>4, <2>6, <1>2
<1> HIDE DEF relinked, N
<1>7. /\ N.sym \in Seq(Symbols) /\ DOMAIN N.sym = DOMAIN T.sym
      /\ N.head = IF T.head[h] = k THEN [T.head EXCEPT ![h] = T.sym[k].next] ELSE T.head
      /\ N = [head |-> N.head, sym |-> N.sym]
      /\ \A j \in DOMAIN T.sym :
           /\ N.sym[j].name = T.sym[j].name
           /\ N.sym[j].next = IF j \in before /\ T.head[h] # k THEN T.sym[k].next ELSE T.sym[j].next
           /\ N.sym[j].flags = IF j = k THEN mark ELSE T.sym[j].flags
  <2> HIDE DEF before, mark, h
  <2>1. CASE T.head[h] = k
    <3>1. DOMAIN marked = DOMAIN T.sym  BY <1>2, <1>4
    <3>2. N.sym = marked /\ N.head = [T.head EXCEPT ![h] = T.sym[k].next]
          /\ N = [head |-> N.head, sym |-> N.sym]
      BY <2>1, <1>5
    <3> QED  BY <2>1, <3>1, <3>2, <1>4
  <2>2. CASE T.head[h] # k
    <3>1. T = [head |-> T.head, sym |-> T.sym]  BY <1>1 DEF Tables
    <3>2. N = [head |-> T.head, sym |-> relinked]  BY <2>2, <3>1, <1>5
    <3>3. N.sym = relinked /\ N.head = T.head  BY <3>2
    <3> QED  BY <2>2, <3>2, <3>3, <1>6
  <2> QED  BY <2>1, <2>2
<1>8. Live(N) = Live(T) \ {k}
  <2>1. "unhashed" \in mark  OBVIOUS
  <2> HIDE DEF mark
  <2> QED  BY <2>1, <1>3, <1>7 DEF Live
<1> HIDE DEF mark
<1>9. Listed(N, h) = L \ {k} /\ \A g : g # h => Listed(N, g) = Listed(T, g)
  <2>1. \A j \in Live(T) : N.sym[j].name = T.sym[j].name  BY <1>2, <1>7
  <2> QED  BY <2>1, <1>8 DEF Listed
<1> HIDE DEF h
<1>10. \A g : \A j \in Listed(T, g) : /\ j \in DOMAIN T.sym /\ N.sym[j].name = T.sym[j].name
                                      /\ T.sym[j].name \in Nat /\ j \in Live(T)
                                      /\ g = hash_code_from_string(T.sym[j].name)
  BY <1>2, <1>7 DEF Listed
<1>11. \A j \in Live(T) : j \in before <=> T.sym[j].next = k
  BY <1>2 DEF Live
<1> HIDE DEF before
<1>12. N \in Tables
  <2>1. T.sym[k].next \in Nat /\ T.head \in [0..HashTabSize - 1 -> Nat]
    BY <1>1, <1>2, <1>3 DEF Symbols, Tables
  <2>2. N.head \in [0..HashTabSize - 1 -> Nat]  BY <2>1, <1>3, <1>7
  <2> QED  BY <2>2, <1>7 DEF Tables
<1>13. IsFirst(T, After(T, k), T.sym[k].next) /\ After(T, k) = {j \in L : T.sym[j].name > T.sym[k].name}
  BY <1>1 DEF After, h
<1>14. ASSUME NEW g \in 0..HashTabSize - 1 PROVE IsFirst(N, Listed(N, g), N.head[g])
  <2>0. T.head \in [0..HashTabSize - 1 -> Nat]  BY <1>1 DEF Tables
  <2>1. CASE g # h
    <3>1. N.head[g] = T.head[g]  BY <2>0, <2>1, <1>7, <1>3
    <3> QED  BY <3>1, <2>1, <1>1, <1>9, <1>10 DEF IsFirst
  <2>2. CASE g = h /\ T.head[h] = k
    <3>1. N.head[g] = T.sym[k].next  BY <2>0, <2>2, <1>7, <1>3
    <3>2. \A j \in L : T.sym[k].name <= T.sym[j].name  BY <2>2, <1>1, <1>3 DEF IsFirst
    <3>3. Listed(N, g) = After(T, k)
      <4>1. ASSUME NEW j \in L, j # k PROVE T.sym[j].name > T.sym[k].name
        <5>1. T.sym[j].name # T.sym[k].name  BY <4>1, <1>1, <1>10 DEF Distinct
        <5> QED  BY <5>1, <4>1, <3>2, <1>3, <1>10
      <4>2. ~ (T.sym[k].name > T.sym[k].name)  BY <1>3, <1>10
      <4> HIDE DEF L
      <4> QED  BY <4>1, <4>2, <2>2, <1>9, <1>13
    <3> QED  BY <3>1, <3>3, <1>10, <1>13 DEF IsFirst
  <2>3. CASE g = h /\ T.head[h] # k
    <3>1. N.head[g] = T.head[h]  BY <2>3, <1>7
    <3>2. IsFirst(T, L, T.head[h]) /\ L # {}  BY <1>1, <1>3
    <3> QED  BY <3>1, <3>2, <2>3, <1>9, <1>10 DEF IsFirst
  <2> QED  BY <2>1, <2>2, <2>3
<1>15. ASSUME NEW j \in Live(N) PROVE IsFirst(N, After(N, j), N.sym[j].next)
  <2> DEFINE g == hash_code_from_string(T.sym[j].name)
             x == T.sym[j].next
  <2>1. j \in Live(T) /\ j # k /\ j \in DOMAIN T.sym /\ N.sym[j].name = T.sym[j].name
        /\ T.sym[j].name \in Nat
    BY <1>2, <1>7, <1>8
  <2>2. IsFirst(T, After(T, j), x)  BY <2>1, <1>1
  <2>3. After(T, j) = {i \in Listed(T, g) : T.sym[i].name > T.sym[j].name}  BY DEF After
  <2>4. After(N, j) = {i \in Listed(N, g) : N.sym[i].name > T.sym[j].name}
    BY <2>1 DEF After
  <2>5. N.sym[j].next = IF x = k /\ T.head[h] # k THEN T.sym[k].next ELSE x
    BY <2>1, <1>7, <1>11
  <2>6. x = k => g = h /\ T.head[h] # k /\ T.sym[k].name > T.sym[j].name
    <3> SUFFICES ASSUME x = k PROVE g = h /\ T.head[h] # k /\ T.sym[k].name > T.sym[j].name
      OBVIOUS
    <3>1. k \in After(T, j)  BY <2>2, <1>2, <1>3 DEF IsFirst
    <3>2. g = h /\ T.sym[k].name > T.sym[j].name  BY <3>1, <2>3, <1>10 DEF h
    <3>3. T.head[h] # k
      <4> SUFFICES ASSUME T.head[h] = k PROVE FALSE  OBVIOUS
      <4>1. j \in L  BY <2>1, <3>2 DEF Listed
      <4>2. T.sym[k].name <= T.sym[j].name  BY <4>1, <1>1, <1>3 DEF IsFirst
      <4> QED  BY <4>2, <3>2, <2>1, <1>3, <1>10
    <3> QED  BY <3>2, <3>3
  <2>7. After(N, j) = After(T, j) \ {k}
    <3>1. Listed(N, g) = Listed(T, g) \ {k}
      <4>1. CASE g = h  BY <4>1, <1>9
      <4>2. CASE g # h
        <5>1. k \notin Listed(T, g)  BY <4>2, <1>10 DEF h
        <5> QED  BY <4>2, <5>1, <1>9
      <4> QED  BY <4>1, <4>2
    <3> HIDE DEF g
    <3> QED  BY <3>1, <2>3, <2>4, <1>10
  <2>8. \A i \in After(T, j) : N.sym[i].name = T.sym[i].name /\ T.sym[i].name \in Nat
    BY <2>3, <1>10
  <2>9. CASE x = k
    <3>1. N.sym[j].next = T.sym[k].next  BY <2>5, <2>6, <2>9
    <3>2. After(T, j) \ {k} = After(T, k)
      <4>1. k \in After(T, j) /\ \A i \in After(T, j) : T.sym[k].name <= T.sym[i].name
        BY <2>2, <2>9, <1>2, <1>3 DEF IsFirst
      <4>2. Listed(T, g) = L  BY <2>6, <2>9
      <4>3. ASSUME NEW i \in After(T, j), i # k PROVE i \in After(T, k)
        <5>1. i \in L  BY <4>2, <4>3, <2>3
        <5>2. T.sym[i].name # T.sym[k].name  BY <5>1, <4>3, <1>1, <1>10 DEF Distinct
        <5>3. T.sym[i].name > T.sym[k].name  BY <5>1, <5>2, <4>1, <4>3, <1>3, <1>10
        <5> QED  BY <5>1, <5>3, <1>13
      <4>4. ASSUME NEW i \in After(T, k) PROVE i \in After(T, j) /\ i # k
        <5>1. i \in L /\ T.sym[i].name > T.sym[k].name  BY <4>4, <1>13
        <5>2. T.sym[i].name > T.sym[j].name  BY <5>1, <2>1, <2>6, <2>9, <1>3, <1>10
        <5>3. i # k  BY <5>1, <1>10
        <5> QED  BY <5>1, <5>2, <5>3, <4>2, <2>3
      <4> HIDE DEF g, x
      <4> QED  BY <4>3, <4>4
    <3> HIDE DEF g, x
    <3>3. \A i \in After(T, k) : N.sym[i].name = T.sym[i].name  BY <1>10, <1>13
    <3> QED  BY <3>1, <3>2, <3>3, <2>7, <1>13 DEF IsFirst
  <2>10. CASE x # k
    <3>1. N.sym[j].next = x  BY <2>5, <2>10
    <3> HIDE DEF g, x
    <3>2. k \in After(T, j) => x \in After(T, j) \ {k}  BY <2>2, <2>10 DEF IsFirst
    <3> QED  BY <3>1, <3>2, <2>2, <2>7, <2>8, <2>10 DEF IsFirst
  <2> QED  BY <2>9, <2>10
<1>16. Distinct(N)
  <2>1. \A j \in Live(N) : j \in Live(T) /\ N.sym[j].name = T.sym[j].name
    BY <1>2, <1>7, <1>8
  <2> QED  BY <2>1, <1>1 DEF Distinct
<1>17. \A j \in Live(N) : "discarded" \notin N.sym[j].flags
  BY <1>1, <1>2, <1>7, <1>8
<1>18. InLists(N)  BY <1>12, <1>14, <1>15, <1>16, <1>17 DEF InLists
<1>19. Shrunk(T, N, k)  BY <1>7, <1>8, <1>18 DEF Shrunk
<1> QED  BY <1>19 DEF N

------------------------------------------------------------------------------
(* The invariant of the queue.                                              *)

TokenTypes == {"none", "symbol", "keyword", "unquoted", "separator", "eof"}

Tokens == [type : TokenTypes, value : Nat, newsymbol : BOOLEAN, text : Nat, lextext : Nat,
           context : Contexts \cup {NoContext}]

Reports == [word : Int, type : TokenTypes, value : Nat, context : Contexts, text : Nat]

(* The lexeme at a place of the source.                                     *)
WordAt(lexemes, p) == IF p <= Len(lexemes) THEN lexemes[p] ELSE EndOfText

(* What an identifier is in a context, and any lexeme.                      *)
TypeIn(word, context) ==
  IF word = EndOfText THEN "eof" ELSE IF word = 0 THEN "separator"
  ELSE IF context \in Quoting THEN "unquoted"
  ELSE IF word \in Keyword[context] THEN "keyword" ELSE "symbol"

(* The entry of the k-th youngest token, whose place is read - k + 1.       *)
Entry(k) == circle[Back(circle_position, k)]

(* The youngest tokens, those whose texts are kept and entries not reused.  *)
Window == {k \in 1..cur_lextexts : k <= CircleSize}

QueueTypes ==
  /\ source \in Seq(Nat) /\ read \in 0..Len(source) + 1
  /\ circle \in [0..CircleSize - 1 -> Tokens] /\ circle_position \in 0..CircleSize - 1
  /\ tokens_put_back \in 0..LookAhead
  /\ lextexts \in Seq(Nat) /\ buffers \in Seq(Int) /\ Len(buffers) = Len(lextexts)
  /\ cur_lextexts \in 0..Len(lextexts)
  /\ taken \in Seq(Reports) /\ held \in Seq([word : Int, text : Nat])

(* The slots hold different buffers.                                        *)
Permuted(slots, n) ==
  /\ \A s \in 1..n : slots[s] \in 1..n
  /\ \A r, s \in 1..n : slots[r] = slots[s] => r = s

Counts ==
  /\ Len(taken) + tokens_put_back = read
  /\ tokens_put_back <= cur_lextexts /\ cur_lextexts <= read
  /\ Len(held) = cur_lextexts

(* The slots of lextexts[] hold the texts of the youngest tokens in order.  *)
TextsHeld ==
  \A s \in 1..cur_lextexts :
    /\ held[s].text = lextexts[s] /\ held[s].word = WordAt(source, read - cur_lextexts + s)
    /\ buffers[lextexts[s]] = WordAt(source, read - cur_lextexts + s)

IsSymbol(t, word, value) == t.type = "symbol" /\ t.word = word /\ t.value = value

TakenRight ==
  \A p \in 1..Len(taken) :
    /\ taken[p].word = WordAt(source, p)
    /\ taken[p].type = TypeIn(taken[p].word, taken[p].context)
    /\ taken[p].type = "symbol" =>
         taken[p].value \in Live(table) /\ table.sym[taken[p].value].name = taken[p].word

TableRight ==
  /\ InLists(table)
  /\ \A k \in Live(table) : \E j \in 1..Len(taken) : IsSymbol(taken[j], table.sym[k].name, k)

(* The entry of a token that is taken, tokens[p]: it made its symbol and is *)
(* the first of its name, or an earlier one was taken.                      *)
HoldsTaken(tokens, e, p) ==
  /\ e.type = tokens[p].type /\ e.value = tokens[p].value /\ e.context = tokens[p].context
  /\ e.newsymbol => e.type = "symbol"
  /\ e.type = "symbol" =>
       IF e.newsymbol
       THEN \A j \in 1..p - 1 : tokens[j].type = "symbol" => tokens[j].word # tokens[p].word
       ELSE \E j \in 1..p - 1 : IsSymbol(tokens[j], tokens[p].word, e.value)

(* The entry of a token put back.  A symbol that may be taken as it is was  *)
(* made by a token that is too far back, below old, for being put back now. *)
AsRead(tokens, old, e, word) ==
  /\ e.type \in {"symbol", "keyword"} /\ e.context \in Contexts
  /\ e.type = TypeIn(word, e.context)
  /\ e.type = "symbol" => \E j \in 1..old : IsSymbol(tokens[j], word, e.value)

IsPutBack(tokens, old, e, word) ==
  /\ ~e.newsymbol
  /\ IF word <= 0 THEN e.type = TypeIn(word, e.context)
     ELSE (e.type = "symbol" /\ e.context = NoContext) \/ AsRead(tokens, old, e, word)

EntryRight(k) ==
  /\ Entry(k).lextext = cur_lextexts - k + 1
  /\ Entry(k).text = lextexts[cur_lextexts - k + 1]
  /\ k <= tokens_put_back => IsPutBack(taken, read - LookAhead, Entry(k), WordAt(source, read - k + 1))
  /\ k > tokens_put_back => HoldsTaken(taken, Entry(k), read - k + 1)

EntriesRight == \A k \in Window : EntryRight(k)

QueueInv ==
  /\ QueueTypes /\ Permuted(lextexts, Len(lextexts)) /\ Counts
  /\ TextsHeld /\ TakenRight /\ TableRight /\ EntriesRight

(* The places around the circle.                                            *)
LEMMA BackFacts ==
  ASSUME NEW c \in 0..CircleSize - 1
  PROVE  /\ \A n \in 1..CircleSize : Back(c, n) \in 0..CircleSize - 1
         /\ \A m, n \in 1..CircleSize : Back(c, m) = Back(c, n) => m = n
         /\ Back(c, 1) = c
  BY TokenAssumption DEF Back

LEMMA NextPosition ==
  ASSUME NEW c \in 0..CircleSize - 1
  PROVE  LET i == IF c = CircleSize - 1 THEN 0 ELSE c + 1 IN
         /\ i \in 0..CircleSize - 1
         /\ \A n \in 1..CircleSize : n < CircleSize => Back(i, n + 1) = Back(c, n)
  BY TokenAssumption DEF Back

(* What interpret_identifier does with a name: the entry n and the table N  *)
(* from e and T.                                                            *)
IsRead(e, n, word, context, T, N) ==
  /\ n \in Tokens /\ n.text = e.text /\ n.lextext = e.lextext /\ n.context = e.context
  /\ n.type = TypeIn(word, context)
  /\ n.type # "symbol" => ~n.newsymbol /\ N = T
  /\ n.type = "symbol" =>
       IF n.newsymbol
       THEN /\ Grown(T, N, word) /\ n.value = Len(T.sym) + 1
            /\ \A j \in Live(T) : T.sym[j].name # word
       ELSE N = T /\ n.value \in Live(T) /\ T.sym[n.value].name = word

LEMMA Interpreted ==
  ASSUME NEW T, InLists(T), NEW e \in Tokens, NEW word \in Nat, word > 0,
         NEW context \in Contexts
  PROVE  LET r == interpret_identifier(e, word, context, T) IN
         IsRead(e, r.entry, word, context, T, r.table)
<1> DEFINE r == interpret_identifier(e, word, context, T)
           plain == [e EXCEPT !.newsymbol = FALSE]
<1>0. word # EndOfText /\ word # 0  BY DEF EndOfText
<1>1. /\ plain \in Tokens /\ plain.text = e.text /\ plain.lextext = e.lextext
      /\ plain.context = e.context /\ ~plain.newsymbol
  BY DEF Tokens
<1>2. r = IF context \in Quoting
          THEN [entry |-> [plain EXCEPT !.type = "unquoted", !.value = 0], table |-> T]
          ELSE IF word \in Keyword[context]
          THEN [entry |-> [plain EXCEPT !.type = "keyword", !.value = word], table |-> T]
          ELSE LET s == symbol_index(T, word) IN
               [entry |-> [plain EXCEPT !.type = "symbol", !.value = s.index,
                                        !.newsymbol = s.created],
                table |-> s.table]
  BY DEF interpret_identifier
<1> HIDE DEF plain, r
<1>3. CASE context \in Quoting
  <2> DEFINE n == [plain EXCEPT !.type = "unquoted", !.value = 0]
  <2>1. /\ n \in Tokens /\ n.text = e.text /\ n.lextext = e.lextext
        /\ n.context = e.context /\ ~n.newsymbol /\ n.type = "unquoted"
    BY <1>1 DEF Tokens, TokenTypes
  <2>2. r.entry = n /\ r.table = T  BY <1>2, <1>3
  <2>3. TypeIn(word, context) = "unquoted"  BY <1>0, <1>3 DEF TypeIn
  <2> HIDE DEF n
  <2>4. IsRead(e, r.entry, word, context, T, r.table)  BY <2>1, <2>2, <2>3 DEF IsRead
  <2> QED  BY <2>4 DEF r
<1>4. CASE context \notin Quoting /\ word \in Keyword[context]
  <2> DEFINE n == [plain EXCEPT !.type = "keyword", !.value = word]
  <2>1. /\ n \in Tokens /\ n.text = e.text /\ n.lextext = e.lextext
        /\ n.context = e.context /\ ~n.newsymbol /\ n.type = "keyword"
    BY <1>1 DEF Tokens, TokenTypes
  <2>2. r.entry = n /\ r.table = T  BY <1>2, <1>4
  <2>3. TypeIn(word, context) = "keyword"  BY <1>0, <1>4 DEF TypeIn
  <2> HIDE DEF n
  <2>4. IsRead(e, r.entry, word, context, T, r.table)  BY <2>1, <2>2, <2>3 DEF IsRead
  <2> QED  BY <2>4 DEF r
<1>5. CASE context \notin Quoting /\ word \notin Keyword[context]
  <2> DEFINE s == symbol_index(T, word)
             n == [plain EXCEPT !.type = "symbol", !.value = s.index, !.newsymbol = s.created]
  <2>1. /\ s.created \in BOOLEAN
        /\ s.created => /\ Grown(T, s.table, word) /\ s.index = Len(T.sym) + 1
                        /\ \A j \in Live(T) : T.sym[j].name # word
        /\ ~s.created => /\ s.table = T /\ s.index \in Live(T)
                         /\ T.sym[s.index].name = word
    BY IndexIs
  <2>2. r.entry = n /\ r.table = s.table  BY <1>2, <1>5
  <2> HIDE DEF s
  <2>3. s.index \in Nat
    <3>1. T \in Tables  BY DEF InLists
    <3>2. Len(T.sym) \in Nat /\ \A j \in Live(T) : j \in Nat  BY <3>1, LiveFacts
    <3> QED  BY <2>1, <3>2
  <2>4. /\ n \in Tokens /\ n.text = e.text /\ n.lextext = e.lextext
        /\ n.context = e.context /\ n.newsymbol = s.created /\ n.type = "symbol"
        /\ n.value = s.index
    BY <1>1, <2>1, <2>3 DEF Tokens, TokenTypes
  <2>5. TypeIn(word, context) = "symbol"  BY <1>0, <1>5 DEF TypeIn
  <2> HIDE DEF n
  <2>6. IsRead(e, r.entry, word, context, T, r.table)
    BY <2>1, <2>2, <2>4, <2>5 DEF IsRead
  <2> QED  BY <2>6 DEF r
<1> QED  BY <1>3, <1>4, <1>5

(* The token that a parser takes.                                           *)
ReadRight(e, word, context, T, N) ==
  /\ e \in Tokens /\ e.context = context /\ context \in Contexts
  /\ e.type = TypeIn(word, context)
  /\ e.type # "symbol" => ~e.newsymbol /\ N = T
  /\ e.type = "symbol" =>
       IF e.newsymbol
       THEN /\ Grown(T, N, word) /\ e.value = Len(T.sym) + 1
            /\ \A j \in Live(T) : T.sym[j].name # word
       ELSE N = T /\ e.value \in Live(T) /\ T.sym[e.value].name = word

LEMMA Takes ==
  ASSUME QueueInv, NEW e, NEW context, NEW t, NEW p, p = Len(taken) + 1,
         ReadRight(e, WordAt(source, p), context, table, table'),
         source' = source, taken' = Append(taken, t), t \in Reports,
         t.word = WordAt(source, p), t.type = e.type, t.value = e.value, t.context = context
  PROVE  /\ TakenRight' /\ TableRight' /\ HoldsTaken(taken', e, p)
         /\ \A f : \A q \in 1..Len(taken) : HoldsTaken(taken, f, q) => HoldsTaken(taken', f, q)
<1> USE DEF ReadRight
<1>1. taken \in Seq(Reports) /\ Len(taken) \in Nat
  BY DEF QueueInv, QueueTypes
<1>2. /\ Len(taken') = p /\ taken'[p] = t
      /\ \A q \in 1..Len(taken) : taken'[q] = taken[q] /\ q \in 1..p
      /\ 1..p = 1..Len(taken) \cup {p} /\ p \in 1..p /\ p - 1 = Len(taken)
  BY <1>1
<1>3. \A q : WordAt(source, q)' = WordAt(source, q)  BY DEF WordAt
<1>4. InLists(table) /\ table \in Tables  BY DEF QueueInv, TableRight, InLists
<1>5. /\ Len(table.sym) \in Nat
      /\ \A k \in Live(table) : k \in DOMAIN table.sym /\ k \in 1..Len(table.sym)
  BY <1>4, LiveFacts
<1>7. e.type = "symbol" => IsSymbol(taken'[p], WordAt(source, p), e.value)
  BY <1>2 DEF IsSymbol
<1>8. /\ InLists(table')
      /\ \A k \in Live(table) : k \in Live(table') /\ table'.sym[k].name = table.sym[k].name
      /\ \A k \in Live(table') : \/ k \in Live(table)
                                 \/ /\ e.type = "symbol" /\ e.value = k
                                    /\ table'.sym[k].name = WordAt(source, p)
      /\ e.type = "symbol" => e.value \in Live(table') /\ table'.sym[e.value].name = WordAt(source, p)
  <2>1. CASE e.type = "symbol" /\ e.newsymbol
    <3>1. Grown(table, table', WordAt(source, p)) /\ e.value = Len(table.sym) + 1  BY <2>1
    <3> QED  BY <2>1, <3>1, <1>5 DEF Grown
  <2>2. CASE ~ (e.type = "symbol" /\ e.newsymbol)
    <3>1. table' = table  BY <2>2
    <3> QED  BY <2>2, <3>1, <1>4
  <2> QED  BY <2>1, <2>2
<1>9. TakenRight'
  <2>1. ASSUME NEW q \in 1..p
        PROVE  /\ taken'[q].word = WordAt(source, q)
               /\ taken'[q].type = TypeIn(taken'[q].word, taken'[q].context)
               /\ taken'[q].type = "symbol" => /\ taken'[q].value \in Live(table')
                                               /\ table'.sym[taken'[q].value].name = taken'[q].word
    <3>1. CASE q = p  BY <3>1, <1>2, <1>8
    <3>2. CASE q # p
      <4>1. q \in 1..Len(taken) /\ taken'[q] = taken[q]  BY <3>2, <1>2
      <4>2. TakenRight  BY DEF QueueInv
      <4> QED  BY <4>1, <4>2, <1>8 DEF TakenRight
    <3> QED  BY <3>1, <3>2
  <2> QED  BY <2>1, <1>2, <1>3 DEF TakenRight
<1>10. TableRight'
  <2>1. ASSUME NEW k \in Live(table')
        PROVE  \E j \in 1..p : IsSymbol(taken'[j], table'.sym[k].name, k)
    <3>1. CASE k \in Live(table)
      <4>1. PICK j \in 1..Len(taken) : IsSymbol(taken[j], table.sym[k].name, k)
        BY <3>1 DEF QueueInv, TableRight
      <4> QED  BY <4>1, <3>1, <1>2, <1>8
    <3>2. CASE k \notin Live(table)  BY <3>2, <1>2, <1>7, <1>8
    <3> QED  BY <3>1, <3>2
  <2> QED  BY <2>1, <1>2, <1>8 DEF TableRight
<1>11. HoldsTaken(taken', e, p)
  <2>1. CASE e.type = "symbol" /\ e.newsymbol
    <3>1. ASSUME NEW j \in 1..Len(taken), taken[j].type = "symbol"
          PROVE  taken[j].word # WordAt(source, p)
      <4>1. taken[j].value \in Live(table) /\ table.sym[taken[j].value].name = taken[j].word
        BY <3>1 DEF QueueInv, TakenRight
      <4> QED  BY <4>1, <2>1
    <3> QED  BY <2>1, <3>1, <1>2 DEF HoldsTaken
  <2>2. CASE e.type = "symbol" /\ ~e.newsymbol
    <3>1. PICK j \in 1..Len(taken) : IsSymbol(taken[j], WordAt(source, p), e.value)
      BY <2>2 DEF QueueInv, TableRight
    <3> QED  BY <2>2, <3>1, <1>2 DEF HoldsTaken
  <2>3. CASE e.type # "symbol"  BY <2>3, <1>2 DEF HoldsTaken
  <2> QED  BY <2>1, <2>2, <2>3
<1>12. ASSUME NEW f, NEW q \in 1..Len(taken), HoldsTaken(taken, f, q)
       PROVE  HoldsTaken(taken', f, q)
  <2>1. \A j \in 1..q - 1 : j \in 1..Len(taken)  BY <1>1
  <2> QED  BY <1>12, <2>1, <1>2 DEF HoldsTaken
<1> QED  BY <1>9, <1>10, <1>11, <1>12

LEMMA Numbers ==
  ASSUME QueueInv
  PROVE  /\ read \in Nat /\ tokens_put_back \in Nat /\ cur_lextexts \in Nat
         /\ Len(source) \in Nat /\ Len(lextexts) \in Nat /\ Len(taken) \in Nat
         /\ CircleSize \in Nat /\ LookAhead \in Nat
         /\ read <= Len(source) + 1 /\ Len(taken) = read - tokens_put_back
         /\ tokens_put_back <= cur_lextexts /\ cur_lextexts <= read
         /\ cur_lextexts <= Len(lextexts) /\ Len(held) = cur_lextexts
         /\ tokens_put_back <= LookAhead /\ LookAhead <= CircleSize
         /\ Len(buffers) = Len(lextexts)
  BY TokenAssumption DEF QueueInv, QueueTypes, Counts

(* A young token: its entry, its place and the buffer of its text.          *)
LEMMA YoungToken ==
  ASSUME QueueInv, NEW k \in Window
  PROVE  /\ k \in 1..cur_lextexts /\ k \in 1..CircleSize
         /\ Back(circle_position, k) \in 0..CircleSize - 1 /\ Entry(k) \in Tokens
         /\ read - k + 1 \in 1..read
         /\ Entry(k).text \in 1..Len(lextexts)
         /\ buffers[Entry(k).text] = WordAt(source, read - k + 1)
<1> USE DEF QueueInv
<1>1. k \in 1..cur_lextexts /\ k \in 1..CircleSize  BY Numbers DEF Window
<1>2. Back(circle_position, k) \in 0..CircleSize - 1  BY <1>1, BackFacts DEF QueueTypes
<1>3. Entry(k) \in Tokens  BY <1>2 DEF QueueTypes, Entry
<1>4. read - k + 1 \in 1..read  BY <1>1, Numbers
<1> DEFINE s == cur_lextexts - k + 1
<1>5. s \in 1..cur_lextexts /\ s \in 1..Len(lextexts)  BY <1>1, Numbers
<1>6. read - cur_lextexts + s = read - k + 1  BY <1>1, Numbers
<1>7. Entry(k).text = lextexts[s]  BY DEF EntriesRight, EntryRight
<1> HIDE DEF s
<1>8. buffers[lextexts[s]] = WordAt(source, read - k + 1)
  <2>1. buffers[lextexts[s]] = WordAt(source, read - cur_lextexts + s)  BY <1>5 DEF TextsHeld
  <2> QED  BY <2>1, <1>6
<1>9. lextexts[s] \in 1..Len(lextexts)  BY <1>5 DEF Permuted
<1> QED  BY <1>1, <1>2, <1>3, <1>4, <1>7, <1>8, <1>9

LEMMA StaysPutBack ==
  ASSUME NEW a, NEW b, NEW m \in Int, NEW n \in Int, m <= n, \A j \in 1..m : b[j] = a[j],
         NEW e, NEW word, IsPutBack(a, m, e, word)
  PROVE  IsPutBack(b, n, e, word)
<1>1. \A j \in 1..m : j \in 1..n /\ b[j] = a[j]  OBVIOUS
<1>2. AsRead(a, m, e, word) => AsRead(b, n, e, word)  BY <1>1 DEF AsRead
<1> QED  BY <1>2 DEF IsPutBack

LEMMA WordType ==
  ASSUME source \in Seq(Nat), NEW p \in Nat \ {0}
  PROVE  WordAt(source, p) \in Int /\ (WordAt(source, p) <= 0 => WordAt(source, p) \in {0, EndOfText})
         /\ (WordAt(source, p) > 0 => WordAt(source, p) \in Nat)
  BY DEF WordAt, EndOfText

LEMMA GetsPutBack ==
  ASSUME QueueInv, NEW context \in Contexts, GetPutBack(context)
  PROVE  QueueInv'
<1> DEFINE k == tokens_put_back
           p == read - k + 1
           i == Back(circle_position, k)
           e == circle[i]
           word == buffers[e.text]
           r == IF Rereads(e, context) THEN interpret_identifier(e, word, context, table)
                ELSE [entry |-> e, table |-> table]
           n == [r.entry EXCEPT !.context = context]
           t == Delivered(n, word)
<1>1. /\ k > 0 /\ circle' = [circle EXCEPT ![i] = n] /\ table' = r.table
      /\ tokens_put_back' = k - 1 /\ taken' = Append(taken, t)
      /\ source' = source /\ read' = read /\ circle_position' = circle_position
      /\ lextexts' = lextexts /\ cur_lextexts' = cur_lextexts /\ buffers' = buffers
      /\ held' = held
  BY DEF GetPutBack
<1>2. k \in Window /\ k \in Nat /\ k \in 1..CircleSize  BY <1>1, Numbers DEF Window
<1>3. e = Entry(k)  BY DEF Entry
<1>4. /\ i \in 0..CircleSize - 1 /\ e \in Tokens /\ p \in 1..read
      /\ e.text \in 1..Len(lextexts) /\ word = WordAt(source, p)
  BY <1>2, <1>3, YoungToken
<1>5. p = Len(taken) + 1 /\ p \in Nat \ {0}  BY <1>4, Numbers
<1>6. IsPutBack(taken, read - LookAhead, e, WordAt(source, p))
  BY <1>2, <1>3 DEF QueueInv, EntriesRight, EntryRight
<1>7. QueueTypes /\ TakenRight /\ TableRight /\ InLists(table) /\ EntriesRight /\ TextsHeld
      /\ Permuted(lextexts, Len(lextexts)) /\ Counts
  BY DEF QueueInv, TableRight
<1>8. /\ WordAt(source, p) \in Int /\ (WordAt(source, p) <= 0 => WordAt(source, p) \in {0, EndOfText})
      /\ (WordAt(source, p) > 0 => WordAt(source, p) \in Nat)
  BY <1>5, <1>7, WordType DEF QueueTypes
<1>9. "none" \notin Contexts  BY TokenAssumption DEF Contexts
<1> HIDE DEF k, p, i, e, word, n, t, r
<1>10. /\ r.entry \in Tokens /\ r.entry.text = e.text /\ r.entry.lextext = e.lextext
       /\ r.entry.type = TypeIn(WordAt(source, p), context)
       /\ r.entry.type # "symbol" => ~r.entry.newsymbol /\ r.table = table
       /\ r.entry.type = "symbol" =>
            IF r.entry.newsymbol
            THEN /\ Grown(table, r.table, WordAt(source, p)) /\ r.entry.value = Len(table.sym) + 1
                 /\ \A j \in Live(table) : table.sym[j].name # WordAt(source, p)
            ELSE /\ r.table = table /\ r.entry.value \in Live(table)
                 /\ table.sym[r.entry.value].name = WordAt(source, p)
  <2>1. CASE Rereads(e, context) /\ WordAt(source, p) > 0
    <3>1. r = interpret_identifier(e, WordAt(source, p), context, table)  BY <2>1, <1>4 DEF r
    <3>2. IsRead(e, r.entry, WordAt(source, p), context, table, r.table)
      BY <3>1, <2>1, <1>4, <1>7, <1>8, Interpreted
    <3> QED  BY <3>2 DEF IsRead
  <2>2. CASE Rereads(e, context) /\ ~ (WordAt(source, p) > 0)
    <3>1. e.type = TypeIn(WordAt(source, p), e.context) /\ WordAt(source, p) \in {0, EndOfText}
      BY <2>2, <1>6, <1>8 DEF IsPutBack
    <3>2. e.type \in {"symbol", "keyword"}  BY <2>2 DEF Rereads
    <3> QED  BY <3>1, <3>2 DEF TypeIn
  <2>3. CASE ~Rereads(e, context) /\ ~ (WordAt(source, p) > 0)
    <3>1. e.type = TypeIn(WordAt(source, p), e.context) /\ WordAt(source, p) \in {0, EndOfText} /\ ~e.newsymbol
      BY <2>3, <1>6, <1>8 DEF IsPutBack
    <3>2. e.type = TypeIn(WordAt(source, p), context) /\ e.type # "symbol"  BY <3>1 DEF TypeIn
    <3>3. r.entry = e /\ r.table = table  BY <2>3 DEF r
    <3> QED  BY <3>1, <3>2, <3>3, <1>4
  <2>4. CASE ~Rereads(e, context) /\ WordAt(source, p) > 0
    <3>1. r.entry = e /\ r.table = table  BY <2>4 DEF r
    <3>2. AsRead(taken, read - LookAhead, e, WordAt(source, p)) /\ ~e.newsymbol
      <4>1. ~ (e.type = "symbol" /\ e.context = NoContext)
        BY <2>4, <1>9 DEF Rereads, NoContext
      <4> QED  BY <4>1, <2>4, <1>6, <1>8 DEF IsPutBack
    <3>3. e.context = context  BY <2>4, <3>2 DEF Rereads, AsRead
    <3>4. e.type = TypeIn(WordAt(source, p), context)  BY <3>2, <3>3 DEF AsRead
    <3>5. ASSUME e.type = "symbol"
          PROVE  e.value \in Live(table) /\ table.sym[e.value].name = WordAt(source, p)
      <4>1. PICK j \in 1..read - LookAhead : IsSymbol(taken[j], WordAt(source, p), e.value)
        BY <3>2, <3>5 DEF AsRead
      <4>2. j \in 1..Len(taken)  BY Numbers
      <4> QED  BY <4>1, <4>2, <1>7 DEF TakenRight, IsSymbol
    <3> QED  BY <3>1, <3>2, <3>4, <3>5, <1>4
  <2> QED  BY <2>1, <2>2, <2>3, <2>4
<1>11. /\ n \in Tokens /\ n.text = e.text /\ n.lextext = e.lextext /\ n.context = context
       /\ n.type = r.entry.type /\ n.value = r.entry.value /\ n.newsymbol = r.entry.newsymbol
  BY <1>10 DEF n, Tokens
<1>12. ReadRight(n, WordAt(source, p), context, table, table')
  BY <1>1, <1>10, <1>11 DEF ReadRight
<1>13. /\ t \in Reports /\ t.word = WordAt(source, p) /\ t.type = n.type /\ t.value = n.value
       /\ t.context = context
  BY <1>4, <1>8, <1>11 DEF t, Delivered, Reports, Tokens
<1>14. /\ TakenRight' /\ TableRight' /\ HoldsTaken(taken', n, p)
       /\ \A f : \A q \in 1..Len(taken) : HoldsTaken(taken, f, q) => HoldsTaken(taken', f, q)
  BY <1>1, <1>5, <1>12, <1>13, Takes
<1>15. QueueTypes'
  <2>1. taken' \in Seq(Reports)  BY <1>1, <1>7, <1>13 DEF QueueTypes
  <2>2. circle' \in [0..CircleSize - 1 -> Tokens]  BY <1>1, <1>7, <1>11 DEF QueueTypes
  <2>3. tokens_put_back' \in 0..LookAhead  BY <1>1, <1>2, Numbers DEF k
  <2> QED  BY <2>1, <2>2, <2>3, <1>1, <1>7 DEF QueueTypes, Tokens, Reports, Contexts
<1>16. Counts'
  <2>1. Len(taken') = Len(taken) + 1  BY <1>1, <1>7 DEF QueueTypes
  <2> QED  BY <2>1, <1>1, <1>2, <1>7, Numbers DEF Counts, k
<1>17. TextsHeld' /\ Permuted(lextexts, Len(lextexts))'
  <2>1. \A q : WordAt(source, q)' = WordAt(source, q)  BY <1>1 DEF WordAt
  <2> QED  BY <2>1, <1>1, <1>7 DEF TextsHeld, Permuted
<1>18. ASSUME NEW m \in Window PROVE EntryRight(m)'
  <2>1. m \in 1..CircleSize /\ m \in 1..cur_lextexts /\ read - m + 1 \in 1..read
        /\ Back(circle_position, m) \in 0..CircleSize - 1 /\ EntryRight(m)
    BY <1>7, YoungToken DEF EntriesRight
  <2>2. Entry(m)' = IF m = k THEN n ELSE Entry(m)
    <3>1. m # k => Back(circle_position, m) # i
      BY <2>1, <1>2, <1>7, BackFacts DEF i, QueueTypes
    <3>2. m = k => Back(circle_position, m) = i  BY DEF i
    <3>3. Entry(m)' = circle'[Back(circle_position, m)]  BY <1>1 DEF Entry, Back
    <3>4. circle \in [0..CircleSize - 1 -> Tokens]  BY <1>7 DEF QueueTypes
    <3> QED  BY <3>1, <3>2, <3>3, <3>4, <2>1, <1>1 DEF Entry
  <2>3. Entry(m)'.lextext = cur_lextexts - m + 1 /\ Entry(m)'.text = lextexts[cur_lextexts - m + 1]
    BY <2>1, <2>2, <1>3, <1>11 DEF EntryRight
  <2>4. CASE m = k
    <3>1. HoldsTaken(taken', n, p) /\ Entry(m)' = n /\ p = read - m + 1
      BY <2>2, <2>4, <1>14 DEF p
    <3>2. ~ (m <= tokens_put_back')  BY <2>4, <1>1, <1>2 DEF k
    <3> QED  BY <2>3, <3>1, <3>2, <1>1 DEF EntryRight
  <2>5. CASE m < k
    <3>1. IsPutBack(taken, read - LookAhead, Entry(m), WordAt(source, read - m + 1))
      BY <2>1, <2>5, <1>2 DEF EntryRight, k
    <3>2. \A j \in 1..read - LookAhead : taken'[j] = taken[j]
      BY <1>1, <1>7, Numbers DEF QueueTypes
    <3>3. read - LookAhead \in Int /\ read - LookAhead <= read - LookAhead  BY Numbers
    <3>4. IsPutBack(taken', read - LookAhead, Entry(m), WordAt(source, read - m + 1))
      BY ONLY <3>1, <3>2, <3>3, StaysPutBack
    <3>5. ~ (m > tokens_put_back') /\ Entry(m)' = Entry(m)  BY <2>1, <2>2, <2>5, <1>1, <1>2
    <3>6. WordAt(source, read - m + 1)' = WordAt(source, read - m + 1)  BY <1>1 DEF WordAt
    <3> QED  BY <2>3, <3>4, <3>5, <3>6, <1>1 DEF EntryRight
  <2>6. CASE m > k
    <3>1. HoldsTaken(taken, Entry(m), read - m + 1)  BY <2>1, <2>6, <1>2 DEF EntryRight, k
    <3>2. read - m + 1 \in 1..Len(taken)  BY <2>1, <2>6, <1>2, Numbers DEF k
    <3>3. HoldsTaken(taken', Entry(m), read - m + 1)  BY <3>1, <3>2, <1>14
    <3>4. ~ (m <= tokens_put_back') /\ Entry(m)' = Entry(m)  BY <2>1, <2>2, <2>6, <1>1, <1>2
    <3> QED  BY <2>3, <3>3, <3>4, <1>1 DEF EntryRight
  <2> QED  BY <2>1, <2>4, <2>5, <2>6, <1>2
<1>19. EntriesRight'
  <2>1. Window' = Window  BY <1>1 DEF Window
  <2> QED  BY <2>1, <1>18 DEF EntriesRight
<1> QED  BY <1>14, <1>15, <1>16, <1>17, <1>19 DEF QueueInv

LEMMA GetsFresh ==
  ASSUME QueueInv, NEW context \in Contexts, GetFresh(context)
  PROVE  QueueInv'
<1> DEFINE p == read + 1
           i == IF circle_position = CircleSize - 1 THEN 0 ELSE circle_position + 1
           slot == cur_lextexts + 1
           fresh == slot > Len(lextexts)
           buffer == IF fresh THEN Len(lextexts) + 1 ELSE lextexts[slot]
           word == NextLexeme
           blank == [EmptyEntry EXCEPT !.text = buffer, !.lextext = slot, !.context = context]
           r == IF word > 0 THEN interpret_identifier(blank, word, context, table)
                ELSE [entry |-> [blank EXCEPT !.type = IF word = 0 THEN "separator" ELSE "eof"],
                      table |-> table]
           n == r.entry
           t == Delivered(n, word)
           h == [word |-> word, text |-> buffer]
<1>1. /\ tokens_put_back = 0 /\ read <= Len(source) /\ read' = p /\ circle_position' = i
      /\ cur_lextexts' = slot
      /\ lextexts' = IF fresh THEN Append(lextexts, buffer) ELSE lextexts
      /\ buffers' = IF fresh THEN Append(buffers, word) ELSE [buffers EXCEPT ![buffer] = word]
      /\ circle' = [circle EXCEPT ![i] = n] /\ table' = r.table
      /\ taken' = Append(taken, t) /\ held' = Append(held, h)
      /\ source' = source /\ tokens_put_back' = tokens_put_back
  BY DEF GetFresh
<1>2. /\ QueueTypes /\ TakenRight /\ TableRight /\ InLists(table) /\ EntriesRight /\ TextsHeld
      /\ Permuted(lextexts, Len(lextexts)) /\ Counts
  BY DEF QueueInv, TableRight
<1>3. p = Len(taken) + 1 /\ p \in Nat \ {0} /\ Len(taken) = read  BY <1>1, Numbers
<1>4. word = WordAt(source, p)  BY <1>1, Numbers DEF NextLexeme, WordAt
<1>5. /\ WordAt(source, p) \in Int
      /\ WordAt(source, p) <= 0 => WordAt(source, p) \in {0, EndOfText}
      /\ WordAt(source, p) > 0 => WordAt(source, p) \in Nat
  BY <1>2, <1>3, WordType DEF QueueTypes
<1>6. buffer \in Nat /\ slot \in Nat
  <2>1. slot \in Nat  BY Numbers
  <2>2. ASSUME ~fresh PROVE lextexts[slot] \in Nat
    <3>1. cur_lextexts \in Nat /\ Len(lextexts) \in Nat /\ lextexts \in Seq(Nat)
      BY <1>2, Numbers DEF QueueTypes
    <3>2. slot \in 1..Len(lextexts)  BY <2>2, <3>1
    <3> HIDE DEF slot
    <3> QED  BY <3>1, <3>2
  <2> QED  BY <2>1, <2>2, Numbers
<1>7. /\ blank \in Tokens /\ blank.text = buffer /\ blank.lextext = slot
      /\ blank.context = context /\ ~blank.newsymbol /\ blank.value = 0
  <2> HIDE DEF buffer, slot
  <2> QED  BY <1>6 DEF EmptyEntry, Tokens, TokenTypes, NoContext
<1> HIDE DEF p, i, slot, fresh, buffer, word, blank, n, t, h
<1>8. ReadRight(n, WordAt(source, p), context, table, table') /\ n.text = buffer /\ n.lextext = slot
  <2>1. CASE word > 0
    <3>1. n = r.entry /\ r = interpret_identifier(blank, WordAt(source, p), context, table)
      BY <2>1, <1>4 DEF n
    <3>2. IsRead(blank, r.entry, WordAt(source, p), context, table, r.table)
      BY <3>1, <2>1, <1>2, <1>4, <1>5, <1>7, Interpreted
    <3> QED  BY <3>1, <3>2, <1>1, <1>7 DEF IsRead, ReadRight
  <2>2. CASE ~ (word > 0)
    <3> DEFINE m == [blank EXCEPT !.type = IF word = 0 THEN "separator" ELSE "eof"]
    <3>1. /\ m \in Tokens /\ m.text = buffer /\ m.lextext = slot /\ m.context = context
          /\ ~m.newsymbol /\ m.type = IF word = 0 THEN "separator" ELSE "eof"
      BY <1>7 DEF Tokens, TokenTypes
    <3>2. n = m /\ r.table = table  BY <2>2 DEF n
    <3>3. m.type = TypeIn(word, context)
      <4>1. word \in {0, EndOfText}  BY <2>2, <1>4, <1>5
      <4> HIDE DEF m
      <4> QED  BY <3>1, <4>1 DEF TypeIn, EndOfText
    <3> HIDE DEF m, r
    <3>4. m.type # "symbol"  BY <3>1
    <3> QED  BY <3>1, <3>2, <3>3, <3>4, <1>1, <1>4 DEF ReadRight
  <2> QED  BY <2>1, <2>2
<1> HIDE DEF r
<1>9. n \in Tokens /\ n.context = context  BY <1>8 DEF ReadRight
<1>10. /\ t \in Reports /\ t.word = WordAt(source, p) /\ t.type = n.type /\ t.value = n.value
       /\ t.context = context
  BY <1>4, <1>5, <1>9 DEF t, Delivered, Reports, Tokens
<1>11. /\ TakenRight' /\ TableRight' /\ HoldsTaken(taken', n, p)
       /\ \A f : \A q \in 1..Len(taken) : HoldsTaken(taken, f, q) => HoldsTaken(taken', f, q)
  BY <1>1, <1>3, <1>8, <1>10, Takes
<1>12. /\ lextexts' \in Seq(Nat) /\ buffers' \in Seq(Int) /\ Len(buffers') = Len(lextexts')
       /\ slot \in 1..Len(lextexts') /\ lextexts'[slot] = buffer /\ buffers'[buffer] = word
       /\ \A s \in 1..cur_lextexts : /\ lextexts'[s] = lextexts[s]
                                     /\ buffers'[lextexts[s]] = buffers[lextexts[s]]
       /\ Permuted(lextexts', Len(lextexts'))
  <2>1. /\ lextexts \in Seq(Nat) /\ buffers \in Seq(Int) /\ Len(buffers) = Len(lextexts)
        /\ Len(lextexts) \in Nat /\ cur_lextexts \in 0..Len(lextexts)
        /\ \A s \in 1..Len(lextexts) : lextexts[s] \in 1..Len(lextexts)
        /\ \A a, s \in 1..Len(lextexts) : lextexts[a] = lextexts[s] => a = s
    BY <1>2 DEF QueueTypes, Permuted
  <2>2. word \in Int  BY <1>4, <1>5
  <2>3. CASE fresh
    <3>1. /\ lextexts' = Append(lextexts, buffer) /\ buffers' = Append(buffers, word)
          /\ buffer = Len(lextexts) + 1 /\ slot = Len(lextexts) + 1
      BY <2>1, <2>3, <1>1 DEF fresh, buffer, slot
    <3>2. /\ lextexts' \in Seq(Nat) /\ buffers' \in Seq(Int)
          /\ Len(lextexts') = Len(lextexts) + 1 /\ Len(buffers') = Len(lextexts) + 1
          /\ lextexts'[slot] = slot /\ buffers'[slot] = word
          /\ \A s \in 1..Len(lextexts) : lextexts'[s] = lextexts[s] /\ buffers'[s] = buffers[s]
      BY <2>1, <2>2, <3>1, <1>6
    <3>3. /\ 1..Len(lextexts') = 1..Len(lextexts) \cup {slot} /\ slot \notin 1..Len(lextexts)
          /\ slot \in 1..Len(lextexts')
      BY <2>1, <3>1, <3>2
    <3>4. Permuted(lextexts', Len(lextexts'))
      <4> DEFINE D == 1..Len(lextexts)
                 E == 1..Len(lextexts')
      <4>1. \A s \in D : lextexts'[s] = lextexts[s] /\ lextexts[s] \in D  BY <2>1, <3>2
      <4>2. \A a, s \in D : lextexts[a] = lextexts[s] => a = s  BY <2>1
      <4>3. E = D \cup {slot} /\ slot \notin D /\ lextexts'[slot] = slot  BY <3>2, <3>3
      <4> HIDE DEF D
      <4>4. (\A s \in E : lextexts'[s] \in E) /\ \A a, s \in E : lextexts'[a] = lextexts'[s] => a = s
        <5> HIDE DEF E
        <5> QED  BY <4>1, <4>2, <4>3
      <4> QED  BY <4>4 DEF Permuted
    <3>5. ASSUME NEW s \in 1..cur_lextexts
          PROVE  /\ lextexts'[s] = lextexts[s]
                 /\ buffers'[lextexts[s]] = buffers[lextexts[s]]
      <4>1. s \in 1..Len(lextexts)  BY <2>1
      <4> QED  BY <4>1, <2>1, <3>2
    <3>6. buffer = slot  BY <3>1
    <3> QED  BY <3>2, <3>3, <3>4, <3>5, <3>6
  <2>4. CASE ~fresh
    <3>1. /\ lextexts' = lextexts /\ buffers' = [buffers EXCEPT ![buffer] = word]
          /\ buffer = lextexts[slot] /\ slot = cur_lextexts + 1 /\ slot \in 1..Len(lextexts)
      BY <2>1, <2>4, <1>1 DEF fresh, buffer, slot
    <3>2. buffer \in 1..Len(buffers)  BY <2>1, <3>1
    <3>3. /\ buffers' \in Seq(Int) /\ Len(buffers') = Len(buffers) /\ buffers'[buffer] = word
          /\ \A b \in 1..Len(buffers) : b # buffer => buffers'[b] = buffers[b]
      BY <2>1, <2>2, <3>1, <3>2
    <3>4. ASSUME NEW s \in 1..cur_lextexts
          PROVE  lextexts[s] \in 1..Len(buffers) /\ lextexts[s] # buffer
      <4>1. s \in 1..Len(lextexts) /\ s # slot  BY <2>1, <3>1
      <4> QED  BY <4>1, <2>1, <3>1
    <3>5. Permuted(lextexts', Len(lextexts'))  BY <1>2, <3>1
    <3> QED  BY <2>1, <3>1, <3>3, <3>4, <3>5
  <2> QED  BY <2>3, <2>4
<1>13. i \in 0..CircleSize - 1 /\ \A m \in 1..CircleSize :
                                    m < CircleSize => Back(i, m + 1) = Back(circle_position, m)
  BY <1>2, NextPosition DEF i, QueueTypes
<1>14. QueueTypes'
  <2>1. taken' \in Seq(Reports)  BY <1>1, <1>2, <1>10 DEF QueueTypes
  <2>2. circle' \in [0..CircleSize - 1 -> Tokens]  BY <1>1, <1>2, <1>9 DEF QueueTypes
  <2>3. held' \in Seq([word : Int, text : Nat])
    <3>1. h \in [word : Int, text : Nat]  BY <1>4, <1>5, <1>6 DEF h
    <3> QED  BY <3>1, <1>1, <1>2 DEF QueueTypes
  <2>4. read' \in 0..Len(source) + 1  BY <1>1, Numbers DEF p
  <2>5. tokens_put_back' \in 0..LookAhead /\ cur_lextexts' \in 0..Len(lextexts')
    BY <1>1, <1>2, <1>12 DEF QueueTypes
  <2> QED  BY <2>1, <2>2, <2>3, <2>4, <2>5, <1>1, <1>2, <1>12, <1>13
           DEF QueueTypes, Tokens, Reports, Contexts
<1>15. Counts'
  <2>1. Len(taken') = Len(taken) + 1 /\ Len(held') = Len(held) + 1
    BY <1>1, <1>2 DEF QueueTypes
  <2> QED  BY <2>1, <1>1, <1>3, Numbers DEF Counts, p, slot
<1>16. TextsHeld' /\ Permuted(lextexts, Len(lextexts))'
  <2>1. ASSUME NEW s \in 1..slot
        PROVE  /\ held'[s].text = lextexts'[s] /\ held'[s].word = WordAt(source, p - slot + s)
               /\ buffers'[lextexts'[s]] = WordAt(source, p - slot + s)
    <3>0. held \in Seq([word : Int, text : Nat]) /\ Len(held) + 1 = slot
      BY <1>2, Numbers DEF QueueTypes, slot
    <3>1. CASE s = slot
      <4>1. held'[s] = h  BY <3>0, <3>1, <1>1, Numbers DEF slot
      <4>2. p - slot + s = p  BY <3>1, <1>3, <1>6
      <4> QED  BY <3>1, <4>1, <4>2, <1>4, <1>12 DEF h
    <3>2. CASE s # slot
      <4>1. s \in 1..cur_lextexts /\ s \in 1..Len(held)
        <5>1. cur_lextexts \in Nat /\ Len(held) = cur_lextexts /\ slot = cur_lextexts + 1
          BY Numbers DEF slot
        <5> QED  BY <5>1, <3>2
      <4>2. held'[s] = held[s]  BY <3>0, <4>1, <1>1
      <4>3. p - slot + s = read - cur_lextexts + s  BY <4>1, Numbers DEF p, slot
      <4> QED  BY <4>1, <4>2, <4>3, <1>2, <1>12 DEF TextsHeld
    <3> QED  BY <3>1, <3>2
  <2> QED  BY <2>1, <1>1, <1>12 DEF TextsHeld
<1>17. ASSUME NEW m \in Window' PROVE EntryRight(m)'
  <2>1. m \in 1..slot /\ m \in 1..CircleSize  BY <1>1, Numbers, <1>6 DEF Window
  <2>2. Entry(m)' = circle'[Back(i, m)]  BY <1>1 DEF Entry, Back
  <2>3. circle \in [0..CircleSize - 1 -> Tokens] /\ circle_position \in 0..CircleSize - 1
    BY <1>2 DEF QueueTypes
  <2>4. m > tokens_put_back' /\ ~ (m <= tokens_put_back')  BY <1>1, <2>1
  <2>5. CASE m = 1
    <3>1. Entry(m)' = n
      <4>1. Back(i, m) = i  BY <2>5, <1>13, BackFacts
      <4> QED  BY <2>2, <2>3, <4>1, <1>1, <1>13
    <3>2. slot - m + 1 = slot /\ p - m + 1 = p  BY <2>5, <1>3, <1>6
    <3> QED  BY <3>1, <3>2, <2>4, <1>1, <1>8, <1>11, <1>12 DEF EntryRight
  <2>6. CASE m # 1
    <3> DEFINE k == m - 1
    <3>1. k \in Window /\ k \in 1..CircleSize /\ k < CircleSize /\ m = k + 1 /\ k \in 1..cur_lextexts
      BY <2>1, <2>6, Numbers DEF Window, slot
    <3> HIDE DEF k
    <3>2. Entry(m)' = Entry(k)
      <4>1. Back(i, m) = Back(circle_position, k)  BY <3>1, <1>13
      <4>2. Back(i, m) # i /\ Back(i, m) \in 0..CircleSize - 1
        <5>1. 1 \in 1..CircleSize  BY <2>1, Numbers
        <5> QED  BY <5>1, <2>1, <2>6, <1>13, BackFacts
      <4> QED  BY <2>2, <2>3, <4>1, <4>2, <1>1, <1>13 DEF Entry
    <3>3. EntryRight(k)  BY <3>1, <1>2 DEF EntriesRight
    <3>4. slot - m + 1 = cur_lextexts - k + 1 /\ p - m + 1 = read - k + 1
      <4>1. slot = cur_lextexts + 1 /\ p = read + 1 /\ cur_lextexts \in Nat /\ read \in Nat
        BY Numbers DEF slot, p
      <4> QED  BY <3>1, <4>1
    <3>5. cur_lextexts - k + 1 \in 1..cur_lextexts  BY <3>1, Numbers
    <3>6. HoldsTaken(taken', Entry(k), read - k + 1)
      <4>1. HoldsTaken(taken, Entry(k), read - k + 1)  BY <3>1, <3>3, <1>1 DEF EntryRight
      <4>2. read - k + 1 \in 1..Len(taken)
        <5>1. read - k + 1 \in 1..read  BY <3>1, YoungToken
        <5> QED  BY <5>1, <1>3
      <4> QED  BY <4>1, <4>2, <1>11
    <3>7. Entry(k).lextext = cur_lextexts - k + 1
          /\ Entry(k).text = lextexts'[cur_lextexts - k + 1]
      BY <3>3, <3>5, <1>12 DEF EntryRight
    <3> QED  BY <3>2, <3>4, <3>6, <3>7, <2>4, <1>1 DEF EntryRight
  <2> QED  BY <2>5, <2>6
<1>18. EntriesRight'  BY <1>17 DEF EntriesRight
<1> QED  BY <1>11, <1>14, <1>15, <1>16, <1>18 DEF QueueInv

LEMMA StaysTaken ==
  ASSUME NEW a, NEW b, NEW n \in Int, \A j \in 1..n : b[j] = a[j],
         NEW e, NEW q \in 1..n, HoldsTaken(a, e, q)
  PROVE  HoldsTaken(b, e, q)
<1>1. \A j \in 1..q - 1 : j \in 1..n /\ b[j] = a[j]  OBVIOUS
<1>2. b[q] = a[q]  OBVIOUS
<1> QED  BY <1>1, <1>2 DEF HoldsTaken

LEMMA PutsBack ==
  ASSUME QueueInv, put_token_back
  PROVE  QueueInv'
<1> DEFINE k == tokens_put_back + 1
           q == Len(taken)
           i == Back(circle_position, k)
           e == circle[i]
           r == PutBackSymbol(e, table)
           n == r.entry
           last == taken[q]
           word == WordAt(source, q)
<1>1. /\ taken # <<>> /\ tokens_put_back < LookAhead /\ tokens_put_back < Len(held)
      /\ last.type # "unquoted"
      /\ last.type = "symbol" =>
           \A j \in 1..q : j > q + tokens_put_back - LookAhead /\ j < q => taken[j].word # last.word
  BY DEF put_token_back, MayPutBack
<1>2. /\ circle' = [circle EXCEPT ![i] = n] /\ table' = r.table /\ tokens_put_back' = k
      /\ taken' = SubSeq(taken, 1, q - 1) /\ source' = source /\ read' = read
      /\ circle_position' = circle_position /\ lextexts' = lextexts
      /\ cur_lextexts' = cur_lextexts /\ buffers' = buffers /\ held' = held
  BY DEF put_token_back
<1>3. /\ QueueTypes /\ TakenRight /\ TableRight /\ InLists(table) /\ EntriesRight /\ TextsHeld
      /\ Permuted(lextexts, Len(lextexts)) /\ Counts
  BY DEF QueueInv, TableRight
<1>4. k \in Window /\ k \in 1..CircleSize /\ k \in 1..LookAhead /\ k <= cur_lextexts
      /\ k \in Nat /\ k > tokens_put_back
  BY <1>1, Numbers DEF Window
<1>5. /\ e = Entry(k) /\ i \in 0..CircleSize - 1 /\ e \in Tokens
      /\ q \in 1..read /\ q = read - k + 1 /\ q \in Nat \ {0}
  <2>1. e = Entry(k)  BY DEF Entry
  <2>2. i \in 0..CircleSize - 1 /\ Entry(k) \in Tokens /\ read - k + 1 \in 1..read
    BY <1>4, YoungToken
  <2>3. q = read - k + 1  BY Numbers
  <2> HIDE DEF e, k, q, i
  <2>4. read \in Nat  BY Numbers
  <2> QED  BY <2>1, <2>2, <2>3, <2>4
<1>6. HoldsTaken(taken, e, q)
  <2>1. EntryRight(k)  BY <1>3, <1>4 DEF EntriesRight
  <2> HIDE DEF k, q, e
  <2> QED  BY <2>1, <1>4, <1>5 DEF EntryRight
<1>7. taken \in Seq(Reports) /\ last \in Reports /\ last.context \in Contexts
  <2>1. taken \in Seq(Reports)  BY <1>3 DEF QueueTypes
  <2>2. last \in Reports  BY <2>1, <1>5
  <2> QED  BY <2>1, <2>2 DEF Reports
<1>8. /\ last.word = word /\ last.type = TypeIn(word, last.context)
      /\ last.type = "symbol" => last.value \in Live(table) /\ table.sym[last.value].name = word
  BY <1>3, <1>5 DEF TakenRight
<1>9. word \in Int /\ (word <= 0 => word \in {0, EndOfText}) /\ (word > 0 => word \in Nat)
  BY <1>3, <1>5, WordType DEF QueueTypes
<1>10. /\ Len(taken') = q - 1 /\ taken' \in Seq(Reports)
       /\ \A j \in 1..q - 1 : taken'[j] = taken[j] /\ j \in 1..q /\ j # q
       /\ \A j \in 1..q : j # q => j \in 1..q - 1
  BY <1>2, <1>5, <1>7
<1>11. /\ q - 1 = read - k /\ q - 1 \in Nat /\ read - LookAhead \in Int
       /\ read - LookAhead <= q - 1 /\ q + tokens_put_back - LookAhead = read - LookAhead
  <2>1. /\ read \in Nat /\ LookAhead \in Nat /\ tokens_put_back \in Nat
        /\ k = tokens_put_back + 1 /\ q = read - tokens_put_back /\ k <= LookAhead /\ q >= 1
    BY <1>4, <1>5, Numbers
  <2> HIDE DEF k, q
  <2> QED  BY ONLY <2>1
<1>12. InLists(table) /\ \A j \in Live(table) : j \in DOMAIN table.sym
  BY <1>3 DEF Live
<1> HIDE DEF k, q, i, e, r, n, last, word
<1>13. /\ n \in Tokens /\ n.text = e.text /\ n.lextext = e.lextext
       /\ IsPutBack(taken', read - LookAhead, n, word)
       /\ TakenRight' /\ TableRight'
  <2>1. CASE e.type = "symbol" /\ e.newsymbol
    <3> DEFINE m == [e EXCEPT !.newsymbol = FALSE, !.context = NoContext]
               v == e.value
    <3>1. n = m /\ table' = end_symbol_scope(table, v, TRUE)
      BY <2>1, <1>2 DEF n, r, PutBackSymbol
    <3>2. /\ m \in Tokens /\ m.text = e.text /\ m.lextext = e.lextext
          /\ m.type = "symbol" /\ m.context = NoContext /\ ~m.newsymbol
      BY <2>1, <1>5 DEF Tokens
    <3>3. last.type = "symbol" /\ last.value = v
      BY <2>1, <1>6 DEF HoldsTaken, last
    <3>4. v \in Live(table) /\ table.sym[v].name = word  BY <3>3, <1>8
    <3>5. Shrunk(table, table', v)  BY <3>1, <3>4, <1>12, ScopeEnds
    <3> HIDE DEF m, v
    <3>6. \A j \in 1..q - 1 : taken[j].type = "symbol" => taken[j].word # word
      BY <2>1, <1>6, <1>8 DEF HoldsTaken, last
    <3>7. word > 0
      <4>1. word # EndOfText /\ word # 0  BY <3>3, <1>8 DEF TypeIn
      <4> QED  BY <4>1, <1>9
    <3>8. IsPutBack(taken', read - LookAhead, n, word)
      BY <3>1, <3>2, <3>7, <1>9 DEF IsPutBack
    <3>9. TakenRight'
      <4>1. ASSUME NEW j \in 1..q - 1
            PROVE  /\ taken'[j].word = WordAt(source, j)
                   /\ taken'[j].type = TypeIn(taken'[j].word, taken'[j].context)
                   /\ taken'[j].type = "symbol" =>
                        /\ taken'[j].value \in Live(table')
                        /\ table'.sym[taken'[j].value].name = taken'[j].word
        <5>1. j \in 1..Len(taken) /\ taken'[j] = taken[j]  BY <1>10 DEF q
        <5>2. taken[j].word = WordAt(source, j)
              /\ taken[j].type = TypeIn(taken[j].word, taken[j].context)
          BY <5>1, <1>3 DEF TakenRight
        <5>3. ASSUME taken[j].type = "symbol"
              PROVE  /\ taken[j].value \in Live(table')
                     /\ table'.sym[taken[j].value].name = taken[j].word
          <6>1. /\ taken[j].value \in Live(table)
                /\ table.sym[taken[j].value].name = taken[j].word
            BY <5>1, <5>3, <1>3 DEF TakenRight
          <6>2. taken[j].value # v  BY <5>3, <6>1, <3>4, <3>6
          <6> QED  BY <6>1, <6>2, <3>5, <1>12 DEF Shrunk
        <5> QED  BY <5>1, <5>2, <5>3
      <4> QED  BY <4>1, <1>2, <1>10 DEF TakenRight
    <3>10. TableRight'
      <4>1. ASSUME NEW x \in Live(table')
            PROVE  \E j \in 1..q - 1 : IsSymbol(taken'[j], table'.sym[x].name, x)
        <5>1. x \in Live(table) /\ x # v /\ table'.sym[x].name = table.sym[x].name
          BY <3>5, <1>12 DEF Shrunk
        <5>2. PICK j \in 1..q : IsSymbol(taken[j], table.sym[x].name, x)
          BY <5>1, <1>3 DEF TableRight, q
        <5>3. j # q  BY <5>1, <5>2, <3>3 DEF IsSymbol, last
        <5> QED  BY <5>1, <5>2, <5>3, <1>10
      <4> QED  BY <4>1, <3>5, <1>10 DEF TableRight, Shrunk
    <3> QED  BY <3>1, <3>2, <3>8, <3>9, <3>10
  <2>2. CASE ~ (e.type = "symbol" /\ e.newsymbol)
    <3>1. n = e /\ table' = table  BY <2>2, <1>2 DEF n, r, PutBackSymbol
    <3>2. /\ e.type = last.type /\ e.value = last.value /\ e.context = last.context
          /\ ~e.newsymbol
          /\ e.type = "symbol" => \E j \in 1..q - 1 : IsSymbol(taken[j], word, e.value)
      BY <2>2, <1>5, <1>6, <1>8 DEF HoldsTaken, last, Tokens
    <3>3. IsPutBack(taken', read - LookAhead, n, word)
      <4>1. CASE word <= 0  BY <4>1, <3>1, <3>2, <1>8 DEF IsPutBack
      <4>2. CASE ~ (word <= 0)
        <5>1. e.type \in {"symbol", "keyword"}
          <6>1. word # EndOfText /\ word # 0  BY <4>2, <1>9 DEF EndOfText
          <6> QED  BY <6>1, <3>2, <1>1, <1>8 DEF TypeIn
        <5>2. ASSUME e.type = "symbol"
              PROVE  \E j \in 1..read - LookAhead : IsSymbol(taken'[j], word, e.value)
          <6>1. PICK j \in 1..q - 1 : IsSymbol(taken[j], word, e.value)  BY <5>2, <3>2
          <6>2. ~ (j > read - LookAhead)
            <7>1. j < q /\ j \in 1..q  BY <1>5
            <7>2. taken[j].word = last.word  BY <6>1, <1>8 DEF IsSymbol
            <7> QED  BY <5>2, <7>1, <7>2, <3>2, <1>1, <1>11
          <6>3. j \in 1..read - LookAhead  BY <6>2, <1>11
          <6> QED  BY <6>1, <6>3, <1>10
        <5>3. AsRead(taken', read - LookAhead, e, word)
          BY <5>1, <5>2, <3>2, <1>7, <1>8 DEF AsRead
        <5> QED  BY <5>3, <4>2, <3>1, <3>2 DEF IsPutBack
      <4> QED  BY <4>1, <4>2
    <3>4. TakenRight'
      <4>1. \A j \in 1..q - 1 : j \in 1..Len(taken) /\ taken'[j] = taken[j]  BY <1>10 DEF q
      <4> QED  BY <4>1, <3>1, <1>2, <1>3, <1>10 DEF TakenRight
    <3>5. TableRight'
      <4>1. ASSUME NEW x \in Live(table)
            PROVE  \E j \in 1..q - 1 : IsSymbol(taken'[j], table.sym[x].name, x)
        <5>1. PICK j \in 1..q : IsSymbol(taken[j], table.sym[x].name, x)
          BY <1>3 DEF TableRight, q
        <5>2. CASE j # q  BY <5>1, <5>2, <1>10
        <5>3. CASE j = q
          <6>1. e.type = "symbol" /\ e.value = x /\ table.sym[x].name = word
            BY <5>1, <5>3, <3>2, <1>8 DEF IsSymbol, last
          <6>2. PICK a \in 1..q - 1 : IsSymbol(taken[a], word, x)  BY <6>1, <3>2
          <6> QED  BY <6>1, <6>2, <1>10
        <5> QED  BY <5>2, <5>3
      <4> QED  BY <4>1, <3>1, <1>10, <1>12 DEF TableRight
    <3> QED  BY <3>1, <3>3, <3>4, <3>5, <1>5
  <2> QED  BY <2>1, <2>2
<1>14. QueueTypes'
  <2>1. circle' \in [0..CircleSize - 1 -> Tokens]  BY <1>2, <1>3, <1>13 DEF QueueTypes
  <2>2. tokens_put_back' \in 0..LookAhead  BY <1>2, <1>4
  <2> QED  BY <2>1, <2>2, <1>2, <1>3, <1>10 DEF QueueTypes, Tokens, Reports, Contexts
<1>15. Counts'
  <2>1. Len(taken') + k = read  BY <1>10, <1>11, <1>4, Numbers
  <2> QED  BY <2>1, <1>2, <1>3, <1>4 DEF Counts
<1>16. TextsHeld' /\ Permuted(lextexts, Len(lextexts))'
  BY <1>2, <1>3 DEF TextsHeld, Permuted
<1>17. ASSUME NEW m \in Window PROVE EntryRight(m)'
  <2>1. m \in 1..CircleSize /\ m \in 1..cur_lextexts /\ read - m + 1 \in 1..read
        /\ Back(circle_position, m) \in 0..CircleSize - 1 /\ EntryRight(m)
    BY <1>3, YoungToken DEF EntriesRight
  <2>2. Entry(m)' = IF m = k THEN n ELSE Entry(m)
    <3>1. m # k => Back(circle_position, m) # i
      BY <2>1, <1>3, <1>4, BackFacts DEF i, QueueTypes
    <3>2. m = k => Back(circle_position, m) = i  BY DEF i
    <3>3. Entry(m)' = circle'[Back(circle_position, m)]  BY <1>2 DEF Entry, Back
    <3>4. circle \in [0..CircleSize - 1 -> Tokens]  BY <1>3 DEF QueueTypes
    <3> QED  BY <3>1, <3>2, <3>3, <3>4, <2>1, <1>2 DEF Entry
  <2>3. Entry(m)'.lextext = cur_lextexts - m + 1 /\ Entry(m)'.text = lextexts[cur_lextexts - m + 1]
    BY <2>1, <2>2, <1>5, <1>13 DEF EntryRight
  <2>4. CASE m = k
    <3>1. IsPutBack(taken', read - LookAhead, Entry(m)', WordAt(source, read - m + 1))
      <4>1. read - m + 1 = q  BY <2>4, <1>5
      <4> QED  BY <4>1, <2>2, <2>4, <1>13 DEF word
    <3>2. ~ (m > tokens_put_back')  BY <2>4, <1>2, <1>4
    <3> QED  BY <2>3, <3>1, <3>2, <1>2 DEF EntryRight
  <2>5. CASE m < k
    <3>1. IsPutBack(taken, read - LookAhead, Entry(m), WordAt(source, read - m + 1))
      <4>1. m <= tokens_put_back  BY <2>1, <2>5, Numbers DEF k
      <4> QED  BY <4>1, <2>1 DEF EntryRight
    <3>2. \A j \in 1..read - LookAhead : taken'[j] = taken[j]
      <4>1. \A j \in 1..read - LookAhead : j \in 1..q - 1  BY <1>11
      <4> QED  BY <4>1, <1>10
    <3>3. read - LookAhead \in Int /\ read - LookAhead <= read - LookAhead  BY <1>11
    <3>4. IsPutBack(taken', read - LookAhead, Entry(m), WordAt(source, read - m + 1))
      BY ONLY <3>1, <3>2, <3>3, StaysPutBack
    <3>5. ~ (m > tokens_put_back') /\ Entry(m)' = Entry(m)  BY <2>1, <2>2, <2>5, <1>2, <1>4
    <3> QED  BY <2>3, <3>4, <3>5, <1>2 DEF EntryRight
  <2>6. CASE m > k
    <3>1. HoldsTaken(taken, Entry(m), read - m + 1)
      <4>1. m > tokens_put_back  BY <2>1, <2>6, Numbers DEF k
      <4> QED  BY <4>1, <2>1 DEF EntryRight
    <3>2. read - m + 1 \in 1..q - 1
      <4>1. read \in Nat /\ q - 1 = read - k /\ k \in Nat /\ m \in Nat /\ m > k
            /\ read - m + 1 >= 1
        BY <2>1, <2>6, <1>4, <1>11, Numbers
      <4> QED  BY ONLY <4>1
    <3>3. HoldsTaken(taken', Entry(m), read - m + 1)
      <4>1. q - 1 \in Int /\ \A j \in 1..q - 1 : taken'[j] = taken[j]  BY <1>10, <1>11
      <4> QED  BY ONLY <3>1, <3>2, <4>1, StaysTaken
    <3>4. ~ (m <= tokens_put_back') /\ Entry(m)' = Entry(m)  BY <2>1, <2>2, <2>6, <1>2, <1>4
    <3> QED  BY <2>3, <3>3, <3>4, <1>2 DEF EntryRight
  <2> QED  BY <2>1, <2>4, <2>5, <2>6, <1>4
<1>18. EntriesRight'
  <2>1. Window' = Window  BY <1>2 DEF Window
  <2> QED  BY <2>1, <1>17 DEF EntriesRight
<1> QED  BY <1>13, <1>14, <1>15, <1>16, <1>18 DEF QueueInv

(* What is true after the texts of n tokens were moved to the first slots:  *)
(* the circle and the slots in w.                                           *)
Keepers == [circle : [0..CircleSize - 1 -> Tokens], lextexts : Seq(Nat)]

Moved == cur_lextexts - tokens_put_back

SameToken(e, f) ==
  /\ e.type = f.type /\ e.value = f.value /\ e.newsymbol = f.newsymbol
  /\ e.text = f.text /\ e.context = f.context

Kept(w, n) ==
  /\ w \in Keepers /\ Len(w.lextexts) = Len(lextexts)
  /\ Permuted(w.lextexts, Len(lextexts))
  /\ \A s \in 1..n : w.lextexts[s] = lextexts[Moved + s]
  /\ \A s \in 1..Len(lextexts) : s > Moved + n => w.lextexts[s] = lextexts[s]
  /\ \A a \in 0..CircleSize - 1 : SameToken(w.circle[a], circle[a])
  /\ \A k \in 1..tokens_put_back :
       w.circle[Back(circle_position, k)].lextext =
         IF k > tokens_put_back - n THEN tokens_put_back - k + 1 ELSE cur_lextexts - k + 1

LEMMA TextKept ==
  ASSUME QueueInv, NEW n \in 1..tokens_put_back, NEW w, Kept(w, n - 1)
  PROVE  Kept(KeepText(w.circle, w.lextexts, Back(circle_position, tokens_put_back - n + 1), n), n)
<1> DEFINE k == tokens_put_back - n + 1
           i == Back(circle_position, k)
           c == w.circle
           slots == w.lextexts
           old == c[i].lextext
           N == Len(lextexts)
           e == [c[i] EXCEPT !.lextext = n]
           d == [c EXCEPT ![i] = e]
           new == [slots EXCEPT ![n] = slots[old], ![old] = slots[n]]
           v == KeepText(c, slots, i, n)
<1>1. v = [circle |-> d, lextexts |-> new]  BY DEF KeepText
<1>2. /\ c \in [0..CircleSize - 1 -> Tokens] /\ slots \in Seq(Nat) /\ Len(slots) = N
      /\ Permuted(slots, N)
      /\ \A s \in 1..n - 1 : slots[s] = lextexts[Moved + s]
      /\ \A s \in 1..N : s > Moved + (n - 1) => slots[s] = lextexts[s]
      /\ \A a \in 0..CircleSize - 1 : SameToken(c[a], circle[a])
      /\ \A m \in 1..tokens_put_back :
           c[Back(circle_position, m)].lextext =
             IF m > tokens_put_back - (n - 1) THEN tokens_put_back - m + 1
             ELSE cur_lextexts - m + 1
  BY DEF Kept, Keepers
<1>3. /\ tokens_put_back \in Nat /\ cur_lextexts \in Nat /\ N \in Nat /\ CircleSize \in Nat
      /\ tokens_put_back <= cur_lextexts /\ cur_lextexts <= N /\ tokens_put_back <= CircleSize
      /\ Moved = cur_lextexts - tokens_put_back
      /\ circle_position \in 0..CircleSize - 1 /\ n \in Nat /\ n >= 1 /\ n <= tokens_put_back
  <2>1. circle_position \in 0..CircleSize - 1  BY DEF QueueInv, QueueTypes
  <2>2. n \in Nat /\ n >= 1 /\ n <= tokens_put_back  BY Numbers
  <2>3. tokens_put_back <= CircleSize  BY Numbers
  <2> QED  BY <2>1, <2>2, <2>3, Numbers DEF Moved
<1>4. /\ Moved \in Nat /\ n \in 1..N /\ Moved + n \in 1..N /\ k \in 1..tokens_put_back
      /\ k \in 1..CircleSize /\ cur_lextexts - k + 1 = Moved + n /\ tokens_put_back - k + 1 = n
      /\ ~ (k > tokens_put_back - (n - 1))
  <2> HIDE DEF N
  <2> QED  BY <1>3
<1>5. i \in 0..CircleSize - 1 /\ \A m \in 1..CircleSize : m # k => Back(circle_position, m) # i
                              /\ Back(circle_position, m) \in 0..CircleSize - 1
  BY <1>3, <1>4, BackFacts
<1>6. old = Moved + n
  <2>1. c[Back(circle_position, k)].lextext = cur_lextexts - k + 1  BY <1>2, <1>4
  <2> QED  BY <2>1, <1>4
<1> HIDE DEF k, i, c, slots, old, N, e, d, new, v
<1>7. /\ e \in Tokens /\ e.lextext = n /\ SameToken(e, c[i])
  BY <1>2, <1>3, <1>5 DEF e, Tokens, SameToken
<1>8. d \in [0..CircleSize - 1 -> Tokens] /\ d[i] = e
      /\ \A a \in 0..CircleSize - 1 : a # i => d[a] = c[a]
  BY <1>2, <1>5, <1>7 DEF d
<1>9. /\ new \in Seq(Nat) /\ Len(new) = N
      /\ \A s \in 1..N : new[s] = IF s = old THEN slots[n] ELSE IF s = n THEN slots[old] ELSE slots[s]
  <2>1. n \in 1..Len(slots) /\ old \in 1..Len(slots)  BY <1>2, <1>4, <1>6
  <2> QED  BY <2>1, <1>2 DEF new
<1>10. Permuted(new, N)
  <2> DEFINE D == 1..N
  <2>1. n \in D /\ old \in D  BY <1>4, <1>6
  <2>2. (\A s \in D : slots[s] \in D) /\ \A r, s \in D : slots[r] = slots[s] => r = s
    BY <1>2 DEF Permuted
  <2>3. \A s \in D : new[s] = IF s = old THEN slots[n] ELSE IF s = n THEN slots[old] ELSE slots[s]
    BY <1>9
  <2> HIDE DEF D
  <2>4. \A s \in D : new[s] \in D  BY <2>1, <2>2, <2>3
  <2>5. \A r, s \in D : new[r] = new[s] => r = s  BY <2>1, <2>2, <2>3
  <2> QED  BY <2>4, <2>5 DEF Permuted, D
<1>11. \A s \in 1..n : new[s] = lextexts[Moved + s]
  <2>1. slots[old] = lextexts[Moved + n]  BY <1>2, <1>3, <1>4, <1>6
  <2>2. new[n] = slots[old]  BY <1>4, <1>9
  <2>3. ASSUME NEW s \in 1..n - 1 PROVE new[s] = lextexts[Moved + s]
    <3>1. s \in 1..N /\ s # n /\ s # old  BY <1>3, <1>4, <1>6
    <3> QED  BY <3>1, <1>2, <1>9
  <2>4. \A s \in 1..n : s = n \/ s \in 1..n - 1  BY <1>3
  <2> QED  BY <2>1, <2>2, <2>3, <2>4
<1>12. ASSUME NEW s \in 1..N, s > Moved + n PROVE new[s] = lextexts[s]
  <2>1. s # n /\ s # old /\ s > Moved + (n - 1)  BY <1>3, <1>4, <1>6, <1>12
  <2> QED  BY <2>1, <1>2, <1>9
<1>13. \A a \in 0..CircleSize - 1 : SameToken(d[a], circle[a])
  BY <1>2, <1>5, <1>7, <1>8 DEF SameToken
<1>14. ASSUME NEW m \in 1..tokens_put_back
       PROVE  d[Back(circle_position, m)].lextext =
                IF m > tokens_put_back - n THEN tokens_put_back - m + 1 ELSE cur_lextexts - m + 1
  <2>1. m \in 1..CircleSize  BY <1>3
  <2>2. CASE m = k
    <3>1. d[Back(circle_position, m)] = e  BY <2>2, <1>8 DEF i
    <3>2. m > tokens_put_back - n /\ tokens_put_back - m + 1 = n  BY <2>2, <1>3, <1>4 DEF k
    <3> QED  BY <3>1, <3>2, <1>7
  <2>3. CASE m # k
    <3>1. d[Back(circle_position, m)] = c[Back(circle_position, m)]  BY <2>1, <2>3, <1>5, <1>8
    <3>2. m > tokens_put_back - n <=> m > tokens_put_back - (n - 1)
      BY <2>3, <1>3 DEF k
    <3> QED  BY <3>1, <3>2, <1>2
  <2> QED  BY <2>2, <2>3
<1>15. v \in Keepers /\ v.circle = d /\ v.lextexts = new
  BY <1>1, <1>8, <1>9 DEF Keepers
<1>16. Kept(v, n)
  BY <1>9, <1>10, <1>11, <1>12, <1>13, <1>14, <1>15 DEF Kept, N
<1> QED  BY <1>16 DEF v, c, slots, i, k

LEMMA TextsKept ==
  ASSUME QueueInv
  PROVE  Kept(KeepTexts, tokens_put_back)
<1> DEFINE N == tokens_put_back
           a == [circle |-> circle, lextexts |-> lextexts]
           Keep(w, n) == KeepText(w.circle, w.lextexts, Back(circle_position, N - n + 1), n)
           made(f) == [n \in 0..N |-> IF n = 0 THEN a ELSE Keep(f[n - 1], n)]
           kept == CHOOSE f : f = made(f)
           P == [n \in 0..N |-> {w \in Keepers : Kept(w, n)}]
           F == [n \in 1..N |-> [w \in Keepers |-> Keep(w, n)]]
<1>1. KeepTexts = kept[N]  BY DEF KeepTexts
<1>2. N \in Nat  BY Numbers
<1>3. a \in Keepers /\ Kept(a, 0)
  <2>1. a \in Keepers /\ a.circle = circle /\ a.lextexts = lextexts
    BY DEF Keepers, QueueInv, QueueTypes
  <2> HIDE DEF a
  <2>2. Permuted(a.lextexts, Len(lextexts))  BY <2>1 DEF QueueInv
  <2>3. \A b \in 0..CircleSize - 1 : SameToken(a.circle[b], circle[b])
    BY <2>1 DEF SameToken
  <2>4. ASSUME NEW k \in 1..tokens_put_back
        PROVE  a.circle[Back(circle_position, k)].lextext =
                 IF k > tokens_put_back - 0 THEN tokens_put_back - k + 1 ELSE cur_lextexts - k + 1
    <3>1. ~ (k > tokens_put_back - 0)  BY Numbers
    <3>2. k \in Window
      <4>1. k \in 1..cur_lextexts /\ k <= CircleSize  BY Numbers
      <4> QED  BY <4>1 DEF Window
    <3>3. Entry(k).lextext = cur_lextexts - k + 1
      BY <3>2 DEF QueueInv, EntriesRight, EntryRight
    <3> QED  BY <3>1, <3>3, <2>1 DEF Entry
  <2> QED  BY <2>1, <2>2, <2>3, <2>4 DEF Kept
<1>4. ASSUME NEW n \in 1..N, NEW w \in P[n - 1]
      PROVE  F[n][w] = Keep(w, n) /\ F[n][w] \in P[n]
  <2>1. n - 1 \in 0..N /\ n \in 0..N  BY <1>2
  <2>2. w \in Keepers /\ Kept(w, n - 1)  BY <2>1
  <2>3. F[n][w] = Keep(w, n)  BY <2>2
  <2>4. Kept(Keep(w, n), n)  BY <2>2, TextKept
  <2> HIDE DEF F, Keep
  <2>5. Keep(w, n) \in Keepers  BY <2>4 DEF Kept
  <2> QED  BY <2>1, <2>3, <2>4, <2>5
<1>5. a \in P[0]
  <2>1. 0 \in 0..N  BY <1>2
  <2> HIDE DEF a
  <2> QED  BY <2>1, <1>3
<1> HIDE DEF a, P, F, N, Keep
<1>6. \E f : f = made(f)
  <2>1. PICK f : f = Stepped(N, a, F, f)  BY <1>2, StepsExist
  <2>2. f[0] = a /\ \A n \in 1..N : f[n] = F[n][f[n - 1]]
    <3>1. 0 \in 0..N /\ \A n \in 1..N : n \in 0..N /\ n # 0  BY <1>2
    <3> QED  BY <2>1, <3>1 DEF Stepped
  <2>3. \A n \in 0..N : f[n] \in P[n]
    <3>1. Leads(N, F, P) /\ Follows(N, F, P, f) /\ f[0] \in P[0]
      BY <2>2, <1>4, <1>5 DEF Leads, Follows
    <3> QED  BY ONLY <3>1, <1>2, StepsStay
  <2>4. ASSUME NEW n \in 0..N, n # 0 PROVE F[n][f[n - 1]] = Keep(f[n - 1], n)
    <3>1. n \in 1..N /\ n - 1 \in 0..N  BY <1>2, <2>4
    <3> QED  BY <3>1, <2>3, <1>4
  <2>5. \A n \in 0..N : (IF n = 0 THEN a ELSE F[n][f[n - 1]])
                          = (IF n = 0 THEN a ELSE Keep(f[n - 1], n))
    BY <2>4
  <2>6. Stepped(N, a, F, f) = made(f)  BY <2>5 DEF Stepped
  <2>7. f = made(f)  BY <2>1, <2>6
  <2> QED  BY <2>7
<1>7. kept = made(kept)
  <2> HIDE DEF made
  <2> QED  BY <1>6
<1>8. kept[0] = a /\ \A n \in 1..N : kept[n] = Keep(kept[n - 1], n)
  <2>1. 0 \in 0..N /\ \A n \in 1..N : n \in 0..N /\ n # 0  BY <1>2
  <2> HIDE DEF kept
  <2> QED  BY <2>1, <1>7
<1> HIDE DEF kept
<1>9. kept[N] \in P[N]
  <2>1. Leads(N, F, P) /\ Follows(N, F, P, kept) /\ kept[0] \in P[0]
    BY <1>4, <1>5, <1>8 DEF Leads, Follows
  <2>2. \A n \in 0..N : kept[n] \in P[n]  BY ONLY <2>1, <1>2, StepsStay
  <2>3. N \in 0..N  BY <1>2
  <2> QED  BY <2>2, <2>3
<1>10. Kept(kept[N], N)
  <2>1. N \in 0..N  BY <1>2
  <2> QED  BY <2>1, <1>9 DEF P
<1> QED  BY <1>1, <1>10 DEF N

LEMMA Releases ==
  ASSUME QueueInv, release_token_texts
  PROVE  QueueInv'
<1> DEFINE b == tokens_put_back
           w == KeepTexts
<1>1. /\ circle' = w.circle /\ lextexts' = w.lextexts /\ cur_lextexts' = b
      /\ held' = SubSeq(held, Len(held) - b + 1, Len(held))
      /\ source' = source /\ read' = read /\ circle_position' = circle_position
      /\ tokens_put_back' = b /\ buffers' = buffers /\ table' = table /\ taken' = taken
  BY DEF release_token_texts
<1>2. Kept(w, b)  BY TextsKept
<1>3. /\ QueueTypes /\ TakenRight /\ TableRight /\ EntriesRight /\ TextsHeld /\ Counts
  BY DEF QueueInv
<1>4. /\ read \in Nat /\ b \in Nat /\ cur_lextexts \in Nat /\ Len(held) = cur_lextexts
      /\ Moved = cur_lextexts - b /\ Moved \in Nat /\ b <= cur_lextexts /\ b <= CircleSize
      /\ cur_lextexts <= Len(lextexts) /\ Len(lextexts) \in Nat /\ cur_lextexts <= read
      /\ CircleSize \in Nat
  <2>1. b <= CircleSize  BY Numbers
  <2> QED  BY <2>1, Numbers DEF Moved
<1> HIDE DEF b, w
<1>5. /\ lextexts' \in Seq(Nat) /\ Len(lextexts') = Len(lextexts)
      /\ circle' \in [0..CircleSize - 1 -> Tokens]
      /\ Permuted(lextexts', Len(lextexts'))
      /\ \A s \in 1..b : lextexts'[s] = lextexts[Moved + s]
      /\ \A a \in 0..CircleSize - 1 : SameToken(circle'[a], circle[a])
  BY <1>1, <1>2 DEF Kept, Keepers
<1>6. /\ held' \in Seq([word : Int, text : Nat]) /\ Len(held') = b
      /\ \A s \in 1..b : held'[s] = held[Moved + s]
  <2>1. held \in Seq([word : Int, text : Nat])  BY <1>3 DEF QueueTypes
  <2>2. Len(held) - b + 1 \in 1..Len(held) + 1 /\ Len(held) \in Nat
    BY <1>4
  <2>3. held' \in Seq([word : Int, text : Nat])
    <3> DEFINE S == [word : Int, text : Nat]
               m == Len(held) - b + 1
               n == Len(held)
    <3>1. m \in Int /\ n \in Int /\ held' = SubSeq(held, m, n)  BY <2>2, <1>1
    <3>2. \A s \in m..n : held[s] \in S
      <4>1. \A s \in m..n : s \in 1..n  BY <2>2
      <4>2. held \in Seq(S)  BY <2>1
      <4> HIDE DEF m, S
      <4>3. \A s \in 1..n : held[s] \in S  BY <4>2
      <4> HIDE DEF n
      <4> QED  BY <4>1, <4>3
    <3> HIDE DEF m, n, S
    <3>3. held' \in Seq(S)  BY <3>1, <3>2, SubSeqProperties
    <3> QED  BY <3>3 DEF S
  <2>4. Len(held') = b  BY <2>1, <2>2, <1>1, <1>4
  <2>5. ASSUME NEW s \in 1..b PROVE held'[s] = held[Moved + s]
    <3>1. held'[s] = held[(Len(held) - b + 1) + s - 1]  BY <2>1, <2>2, <1>1, <1>4
    <3>2. (Len(held) - b + 1) + s - 1 = Moved + s  BY <1>4
    <3> QED  BY <3>1, <3>2
  <2> QED  BY <2>3, <2>4, <2>5
<1>7. QueueTypes'
  <2>1. b \in 0..Len(lextexts') /\ b \in 0..LookAhead
    <3>1. b \in 0..LookAhead  BY <1>3 DEF QueueTypes, b
    <3> QED  BY <3>1, <1>4, <1>5
  <2> QED  BY <2>1, <1>1, <1>3, <1>5, <1>6 DEF QueueTypes, Tokens, Reports, Contexts
<1>8. Counts'
  BY <1>1, <1>3, <1>4, <1>6 DEF Counts, b
<1>9. TextsHeld'
  <2>1. ASSUME NEW s \in 1..b
        PROVE  /\ held'[s].text = lextexts'[s] /\ held'[s].word = WordAt(source, read - b + s)
               /\ buffers[lextexts'[s]] = WordAt(source, read - b + s)
    <3>1. Moved + s \in 1..cur_lextexts /\ read - cur_lextexts + (Moved + s) = read - b + s
      BY <1>4
    <3>2. /\ held[Moved + s].text = lextexts[Moved + s]
          /\ held[Moved + s].word = WordAt(source, read - b + s)
          /\ buffers[lextexts[Moved + s]] = WordAt(source, read - b + s)
      BY <3>1, <1>3 DEF TextsHeld
    <3> QED  BY <3>2, <1>5, <1>6
  <2> QED  BY <2>1, <1>1 DEF TextsHeld
<1>10. TakenRight' /\ TableRight'
  BY <1>1, <1>3 DEF TakenRight, TableRight
<1>11. ASSUME NEW m \in Window' PROVE EntryRight(m)'
  <2>1. m \in 1..b  BY <1>1 DEF Window
  <2>2. m \in Window
    <3>1. m \in 1..cur_lextexts /\ m <= CircleSize  BY <2>1, <1>4
    <3> QED  BY <3>1 DEF Window
  <2>3. EntryRight(m) /\ Back(circle_position, m) \in 0..CircleSize - 1
    BY <2>2, <1>3, YoungToken DEF EntriesRight
  <2>4. Entry(m)' = circle'[Back(circle_position, m)]  BY <1>1 DEF Entry, Back
  <2>5. SameToken(Entry(m)', Entry(m))  BY <2>3, <2>4, <1>5 DEF Entry
  <2>6. Entry(m)'.lextext = b - m + 1
    <3>1. w.circle[Back(circle_position, m)].lextext =
            IF m > tokens_put_back - b THEN tokens_put_back - m + 1 ELSE cur_lextexts - m + 1
      BY <2>1, <1>2 DEF Kept, b
    <3>2. m > tokens_put_back - b  BY <2>1, <1>4 DEF b
    <3> QED  BY <3>1, <3>2, <2>4, <1>1 DEF b
  <2>7. Entry(m)'.text = lextexts'[b - m + 1]
    <3>1. b - m + 1 \in 1..b /\ Moved + (b - m + 1) = cur_lextexts - m + 1  BY <2>1, <1>4
    <3>2. Entry(m)'.text = lextexts[cur_lextexts - m + 1]  BY <2>3, <2>5 DEF EntryRight, SameToken
    <3> QED  BY <3>1, <3>2, <1>5
  <2>8. m <= tokens_put_back /\ ~ (m > tokens_put_back')  BY <2>1, <1>1, <1>4 DEF b
  <2>9. IsPutBack(taken, read - LookAhead, Entry(m), WordAt(source, read - m + 1))
    BY <2>3, <2>8 DEF EntryRight
  <2>10. IsPutBack(taken, read - LookAhead, Entry(m)', WordAt(source, read - m + 1))
    BY <2>5, <2>9 DEF SameToken, IsPutBack, AsRead
  <2> QED  BY <2>6, <2>7, <2>8, <2>10, <1>1 DEF EntryRight
<1>12. EntriesRight'  BY <1>11 DEF EntriesRight
<1> QED  BY <1>5, <1>7, <1>8, <1>9, <1>10, <1>12 DEF QueueInv

LEMMA Skips ==
  ASSUME QueueInv, NEW inUse \in BOOLEAN, BeginSkip(inUse)
  PROVE  QueueInv'
<1>1. /\ tokens_put_back = 0 /\ held' = <<>> /\ cur_lextexts' = 0 /\ tokens_put_back' = 0
      /\ source' = source /\ read' = read /\ circle' = circle
      /\ circle_position' = circle_position /\ lextexts' = lextexts /\ buffers' = buffers
      /\ table' = table /\ taken' = taken
  BY DEF BeginSkip
<1>2. /\ QueueTypes /\ TakenRight /\ TableRight /\ Permuted(lextexts, Len(lextexts)) /\ Counts
  BY DEF QueueInv
<1>3. held' \in Seq([word : Int, text : Nat]) /\ Len(held') = 0  BY <1>1
<1>4. QueueTypes'
  <2>1. 0 \in 0..Len(lextexts)  BY Numbers
  <2> QED  BY <2>1, <1>1, <1>2, <1>3 DEF QueueTypes, Tokens, Reports, Contexts
<1>5. Counts'  BY <1>1, <1>2, <1>3, Numbers DEF Counts
<1>6. TextsHeld' /\ EntriesRight'
  <2>1. 1..0 = {}  OBVIOUS
  <2> QED  BY <2>1, <1>1 DEF TextsHeld, EntriesRight, Window
<1>7. TakenRight' /\ TableRight' /\ Permuted(lextexts, Len(lextexts))'
  BY <1>1, <1>2 DEF TakenRight, TableRight, Permuted
<1> QED  BY <1>4, <1>5, <1>6, <1>7 DEF QueueInv

------------------------------------------------------------------------------
LEMMA EmptyInLists ==
  InLists(EmptyTable) /\ Live(EmptyTable) = {}
<1> DEFINE T == EmptyTable
<1>1. /\ T.sym = <<>> /\ T.sym \in Seq(Symbols) /\ T.head \in [0..HashTabSize - 1 -> Nat]
      /\ T = [head |-> T.head, sym |-> T.sym] /\ \A h \in 0..HashTabSize - 1 : T.head[h] = 0
  BY DEF EmptyTable
<1> HIDE DEF T
<1>2. T \in Tables  BY <1>1 DEF Tables
<1>3. Live(T) = {} /\ \A h : Listed(T, h) = {}  BY <1>1 DEF Live, Listed
<1>4. InLists(T)  BY <1>1, <1>2, <1>3 DEF InLists, IsFirst, Distinct
<1> QED  BY <1>3, <1>4 DEF T

LEMMA QueueInvInit ==
  ASSUME TokenInit
  PROVE  QueueInv
<1>1. /\ source \in Sources /\ read = 0 /\ circle = [i \in 0..CircleSize - 1 |-> EmptyEntry]
      /\ circle_position = 0 /\ tokens_put_back = 0 /\ lextexts = <<>> /\ cur_lextexts = 0
      /\ buffers = <<>> /\ table = EmptyTable /\ taken = <<>> /\ held = <<>>
  BY DEF TokenInit
<1>2. EmptyEntry \in Tokens  BY DEF EmptyEntry, Tokens, TokenTypes
<1>3. QueueTypes
  <2>1. source \in Seq(Nat)  BY <1>1, TokenAssumption
  <2>2. 0 \in 0..Len(source) + 1 /\ 0 \in 0..CircleSize - 1 /\ 0 \in 0..LookAhead
    BY <2>1, TokenAssumption
  <2> HIDE DEF EmptyEntry
  <2>3. circle \in [0..CircleSize - 1 -> Tokens]  BY <1>1, <1>2
  <2> QED  BY <2>1, <2>2, <2>3, <1>1 DEF QueueTypes
<1>4. Permuted(lextexts, Len(lextexts)) /\ Counts /\ TextsHeld /\ TakenRight /\ EntriesRight
  BY <1>1 DEF Permuted, Counts, TextsHeld, TakenRight, EntriesRight, Window
<1>5. TableRight  BY <1>1, EmptyInLists DEF TableRight
<1> QED  BY <1>3, <1>4, <1>5 DEF QueueInv

LEMMA QueueInvNext ==
  ASSUME QueueInv, [TokenNext]_tokenVars
  PROVE  QueueInv'
<1>1. ASSUME NEW context \in Contexts, get_next_token(context) PROVE QueueInv'
  BY <1>1, GetsPutBack, GetsFresh DEF get_next_token
<1>2. CASE put_token_back  BY <1>2, PutsBack
<1>3. CASE release_token_texts  BY <1>3, Releases
<1>4. ASSUME NEW inUse \in BOOLEAN, BeginSkip(inUse) PROVE QueueInv'  BY <1>4, Skips
<1>5. CASE UNCHANGED tokenVars
  <2>1. /\ source' = source /\ read' = read /\ circle' = circle
        /\ circle_position' = circle_position /\ tokens_put_back' = tokens_put_back
        /\ lextexts' = lextexts /\ cur_lextexts' = cur_lextexts /\ buffers' = buffers
        /\ table' = table /\ taken' = taken /\ held' = held
    BY <1>5 DEF tokenVars, lexerVars
  <2> QED  BY <2>1 DEF QueueInv, QueueTypes, Permuted, Counts, TextsHeld, TakenRight, TableRight,
                        EntriesRight, Window, EntryRight, Entry, Back, Tokens, Reports, Contexts
<1> QED  BY <1>1, <1>2, <1>3, <1>4, <1>5 DEF TokenNext

(* Whatever a parser reads, in whatever contexts, and puts back: every      *)
(* entry of the circle that may still be used knows its text and what its   *)
(* text was read as, and the symbol table holds the symbols of the tokens   *)
(* taken, each in its list (lexer.c:1748, symbols.c:331).                   *)
THEOREM QueueRight == TokenSpec => []QueueInv
<1> USE QueueInvInit, QueueInvNext
<1>1. TokenInit => QueueInv  OBVIOUS
<1>2. QueueInv /\ [TokenNext]_tokenVars => QueueInv'  OBVIOUS
<1> QED  BY <1>1, <1>2, PTL DEF TokenSpec

(* Looking ahead leaves no trace in the symbol table: it holds the names of *)
(* the tokens taken as symbols and no others, each in its list.             *)
THEOREM PeeksTraceless == TokenSpec => []PeeksLeaveNoTrace
<1>1. ASSUME QueueInv PROVE PeeksLeaveNoTrace
  <2>1. TakenRight /\ TableRight /\ InLists(table)  BY <1>1 DEF QueueInv, TableRight
  <2>2. Hashed(table) = Live(table)  BY <2>1, HashedIsLive
  <2>3. DOMAIN taken = 1..Len(taken)  BY <1>1 DEF QueueInv, QueueTypes
  <2>4. ASSUME NEW k \in Live(table)
        PROVE  \E j \in 1..Len(taken) : taken[j].type = "symbol" /\ table.sym[k].name = taken[j].word
    BY <2>1 DEF TableRight, IsSymbol
  <2>5. ASSUME NEW j \in 1..Len(taken), taken[j].type = "symbol"
        PROVE  \E k \in Live(table) : table.sym[k].name = taken[j].word
    BY <2>1, <2>5 DEF TakenRight
  <2>6. \A k \in Live(table) : "discarded" \notin table.sym[k].flags  BY <2>1 DEF InLists
  <2>7. {table.sym[k].name : k \in Live(table)} =
          {taken[j].word : j \in {j \in 1..Len(taken) : taken[j].type = "symbol"}}
    BY <2>4, <2>5
  <2> QED  BY <2>2, <2>3, <2>6, <2>7 DEF PeeksLeaveNoTrace
<1> QED  BY <1>1, QueueRight, PTL

(* A parser that puts tokens back and reads them again, in whatever         *)
(* contexts, takes the source's lexemes in order, each as what it means in  *)
(* the context it is asked for in, and the texts it may still use are as    *)
(* they were; unless an internal If... skips text while texts are in use,   *)
(* where the run frontend_skip shows that they are lost.                    *)
THEOREM QueueFaithful ==
  ASSUME ~SkipsInDefinitions
  PROVE  TokenSpec => []TokensFaithful
<1> DEFINE NoSkip == outer = <<>>
<1>1. TokenInit => NoSkip  BY DEF TokenInit
<1>2. NoSkip /\ [TokenNext]_tokenVars => NoSkip'
  BY DEF TokenNext, get_next_token, GetPutBack, GetFresh, put_token_back, release_token_texts,
         BeginSkip, tokenVars
<1>3. ASSUME QueueInv, NoSkip PROVE TokensFaithful
  <2>1. /\ TakenRight /\ TextsHeld /\ QueueTypes /\ InLists(table)
    BY <1>3 DEF QueueInv, TableRight
  <2>2. Hashed(table) = Live(table)  BY <2>1, HashedIsLive
  <2>3. /\ DOMAIN taken = 1..Len(taken) /\ Len(taken) \in Nat
        /\ DOMAIN held = 1..cur_lextexts
        /\ taken # <<>> => Len(taken) \in 1..Len(taken)
    BY <1>3, Numbers DEF QueueInv, QueueTypes
  <2>4. TextsIntact
    <3>1. DOMAIN outer = {}  BY <1>3
    <3>2. ASSUME NEW k \in DOMAIN held PROVE buffers[held[k].text] = held[k].word
      <4> DEFINE w == WordAt(source, read - cur_lextexts + k)
      <4>1. k \in 1..cur_lextexts  BY <2>3
      <4>2. held[k].text = lextexts[k] /\ held[k].word = w /\ buffers[lextexts[k]] = w
        BY <4>1, <2>1 DEF TextsHeld
      <4> HIDE DEF w
      <4> QED  BY <4>2
    <3> QED  BY <3>1, <3>2 DEF TextsIntact
  <2>5. \A k \in 1..Len(taken) :
          taken[k].word = IF k <= Len(source) THEN source[k] ELSE EndOfText
    BY <2>1 DEF TakenRight, WordAt
  <2>6. ASSUME taken # <<>>
        PROVE  LET last == taken[Len(taken)] IN
               last.type = IF last.word = EndOfText THEN "eof"
                           ELSE IF last.word = 0 THEN "separator"
                           ELSE IF last.context \in Quoting THEN "unquoted"
                           ELSE IF last.word \in Keyword[last.context] THEN "keyword"
                           ELSE "symbol"
    BY <2>1, <2>3, <2>6 DEF TakenRight, TypeIn
  <2>7. \A k \in 1..Len(taken) :
          taken[k].type = "symbol" =>
            taken[k].value \in Live(table) /\ table.sym[taken[k].value].name = taken[k].word
    BY <2>1 DEF TakenRight
  <2> QED  BY <2>2, <2>3, <2>4, <2>5, <2>6, <2>7 DEF TokensFaithful
<1> HIDE DEF NoSkip
<1> QED  BY <1>1, <1>2, <1>3, QueueRight, PTL DEF TokenSpec
==============================================================================
