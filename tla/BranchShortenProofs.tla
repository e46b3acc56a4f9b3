------------------------- MODULE BranchShortenProofs -------------------------
(***************************************************************************)
(* For every routine, of any length and with any labels, and for both      *)
(* targets: a form of a branch that is chosen on the old distance holds    *)
(* the new one, and no pass finds the work of an earlier one wrong; and    *)
(* control goes in the code written where it goes in the code assembled.   *)
(*                                                                         *)
(* The first argument compares two layouts of the code.  Spot gives the    *)
(* old one, the address of an instruction in the holding area; T[i] is its *)
(* address in the new one, known as far as the pass has come.  No          *)
(* instruction grows, so two addresses of the new layout are never further *)
(* apart than the same two of the old one, and in the same order.          *)
(*                                                                         *)
(* The second one compares two graphs of jumps, that of the items and that *)
(* of the output.  What the passes leave out is a jump to the next item or *)
(* a return that control does not come to; all else goes to the new place  *)
(* of what it went to.  So the two graphs end alike, from every item.      *)
(***************************************************************************)
EXTENDS MCBranchShorten, FiniteSetTheorems, WellFoundedInduction, TLAPS

---------------------------------------------------------------------------
(* The two layouts.                                                        *)

\* The old address of instruction i of the code it, which is sz long; one
\* after the last is the end.
Spot(it, sz, i) == IF i \in 1 .. Len(it) THEN it[i].start ELSE sz

\* The instructions, old[i] bytes long, stand one behind the other.
Straight(it, sz, old) ==
  /\ sz \in Nat /\ old \in [1 .. Len(it) -> Nat \ {0}]
  /\ \A i \in 1 .. Len(it) + 1 : Spot(it, sz, i) \in Nat
  /\ Spot(it, sz, 1) = 0
  /\ \A i \in 1 .. Len(it) : Spot(it, sz, i + 1) = Spot(it, sz, i) + old[i]
  /\ \A i \in 1 .. Len(it) + 1, j \in 1 .. Len(it) + 1 : i < j => Spot(it, sz, i) < Spot(it, sz, j)

\* The new addresses of the first m instructions, of which kept[i] bytes stay.
Laid(it, sz, T, m, kept) ==
  /\ T \in [1 .. m -> Nat] /\ T[1] = 0
  /\ \A i \in 1 .. m - 1 : T[i + 1] = T[i] + kept[i]
  /\ \A i \in 1 .. m, j \in 1 .. m :
       i <= j => T[i] <= T[j] /\ T[j] - T[i] <= Spot(it, sz, j) - Spot(it, sz, i)

\* Labels p[l] before one of n instructions, and in the order of the chain c.
Placing(n, p, o, c) ==
  /\ p \in [Labels -> 0 .. n + 1] /\ o \in [Labels -> Nat \cup {-1}] /\ c \in Seq(Labels)
  /\ \A l \in Labels : (o[l] = -1) = (p[l] = 0)
  /\ \A l \in Labels : p[l] # 0 => \E i \in 1 .. Len(c) : c[i] = l
  /\ \A i \in 1 .. Len(c) : p[c[i]] # 0
  /\ \A i \in 1 .. Len(c), j \in 1 .. Len(c) : i <= j => p[c[i]] <= p[c[j]]

\* The labels before the first m - 1 instructions have their new addresses.
Moved(it, sz, p, o, T, m) ==
  \A l \in Labels :
    p[l] # 0 => o[l] = IF p[l] < m THEN T[p[l]] ELSE Spot(it, sz, p[l])

\* The walk along the chain has passed the labels before them.
Passed(p, c, lab, m) ==
  lab \in 1 .. Len(c) + 1 /\ \A i \in 1 .. Len(c) : (i < lab) = (p[c[i]] < m)

(* A set of numbers that is not empty has a least one.                     *)
LEMMA LeastNumber ==
  ASSUME NEW T \in SUBSET Nat, T # {}
  PROVE  \E x \in T : \A y \in T : x <= y
<1>1. PICK x \in T : \A y \in T : ~ (<<y, x>> \in OpToRel(<, Nat))
  BY NatLessThanWellFounded, WFMin
<1>2. \A y \in T : ~ (y < x)
  BY <1>1 DEF OpToRel
<1> QED
  BY <1>2

(* One instruction more.                                                   *)
LEMMA Lengthens ==
  ASSUME NEW R, NEW it \in Seq(R), NEW sz, NEW old, Straight(it, sz, old),
         NEW r \in R, r.start = sz, NEW d \in Nat \ {0}
  PROVE  LET n == Len(it)
             jt == Append(it, r)
             new == [i \in 1 .. n + 1 |-> IF i = n + 1 THEN d ELSE old[i]]
         IN  /\ Straight(jt, sz + d, new)
             /\ \A i \in 1 .. n + 1 : Spot(jt, sz + d, i) = Spot(it, sz, i)
<1> DEFINE n == Len(it)
           jt == Append(it, r)
           new == [i \in 1 .. n + 1 |-> IF i = n + 1 THEN d ELSE old[i]]
<1>1. n \in Nat /\ Len(jt) = n + 1 /\ sz \in Nat /\ old \in [1 .. n -> Nat \ {0}]
      /\ \A i \in 1 .. n + 1 : Spot(it, sz, i) \in Nat
  BY DEF Straight
<1>2. \A i \in 1 .. n : jt[i] = it[i]
  OBVIOUS
<1>3. jt[n + 1] = r
  OBVIOUS
<1> HIDE DEF jt
<1>4. \A i \in 1 .. n + 1 : Spot(jt, sz + d, i) = Spot(it, sz, i)
  BY <1>1, <1>2, <1>3 DEF Spot
<1>5. Spot(jt, sz + d, n + 2) = sz + d
  BY <1>1 DEF Spot
<1>6. Spot(it, sz, n + 1) = sz
  BY <1>1 DEF Spot
<1>7. new \in [1 .. n + 1 -> Nat \ {0}]
  BY <1>1
<1>8. \A i \in 1 .. n + 1 : Spot(jt, sz + d, i + 1) = Spot(jt, sz + d, i) + new[i]
  <2> TAKE i \in 1 .. n + 1
  <2>1. CASE i = n + 1
    BY <1>1, <1>4, <1>5, <1>6, <2>1
  <2>2. CASE i \in 1 .. n
    <3>1. Spot(it, sz, i + 1) = Spot(it, sz, i) + old[i]
      BY <2>2 DEF Straight
    <3>2. new[i] = old[i] /\ i + 1 \in 1 .. n + 1
      BY <1>1, <2>2
    <3> QED
      BY <1>4, <2>2, <3>1, <3>2
  <2> QED
    BY <1>1, <2>1, <2>2
<1>9. \A i \in 1 .. n + 2, j \in 1 .. n + 2 : i < j => Spot(jt, sz + d, i) < Spot(jt, sz + d, j)
  <2> TAKE i \in 1 .. n + 2, j \in 1 .. n + 2
  <2> HAVE i < j
  <2>1. i \in 1 .. n + 1
    BY <1>1
  <2>2. CASE j \in 1 .. n + 1
    <3>1. Spot(it, sz, i) < Spot(it, sz, j)
      BY <2>1, <2>2 DEF Straight
    <3> QED
      BY <1>4, <2>1, <2>2, <3>1
  <2>3. CASE j = n + 2
    <3>1. Spot(it, sz, i) <= sz
      <4>1. CASE i = n + 1
        BY <1>1, <1>6, <4>1
      <4>2. CASE i # n + 1
        <5>1. Spot(it, sz, i) < Spot(it, sz, n + 1)
          BY <1>1, <2>1, <4>2 DEF Straight
        <5> QED
          BY <1>1, <1>6, <2>1, <5>1
      <4> QED
        BY <4>1, <4>2
    <3> QED
      BY <1>1, <1>4, <1>5, <2>1, <2>3, <3>1
  <2> QED
    BY <1>1, <2>2, <2>3
<1>10. /\ \A i \in 1 .. n + 2 : Spot(jt, sz + d, i) \in Nat
       /\ Spot(jt, sz + d, 1) = 0
  <2>1. \A i \in 1 .. n + 1 : Spot(jt, sz + d, i) \in Nat
    BY <1>1, <1>4
  <2>2. Spot(it, sz, 1) = 0
    BY DEF Straight
  <2> QED
    BY <1>1, <1>4, <1>5, <2>1, <2>2
<1>11. Straight(jt, sz + d, new)
  <2> HIDE DEF new, n
  <2>1. Len(jt) + 1 = n + 2 /\ sz + d \in Nat
    BY <1>1 DEF n
  <2> QED
    BY <1>1, <1>7, <1>8, <1>9, <1>10, <2>1 DEF Straight
<1> QED
  BY <1>4, <1>11 DEF jt

(* The new layout goes on with an instruction that has not grown.          *)
LEMMA Lays ==
  ASSUME NEW R, NEW it \in Seq(R), NEW sz, NEW old, Straight(it, sz, old),
         NEW m \in 1 .. Len(it), NEW kept \in [1 .. Len(it) -> Nat], kept[m] <= old[m],
         NEW T, Laid(it, sz, T, m, kept)
  PROVE  Laid(it, sz, [i \in 1 .. m + 1 |-> IF i <= m THEN T[i] ELSE T[m] + kept[m]], m + 1, kept)
<1> DEFINE U == [i \in 1 .. m + 1 |-> IF i <= m THEN T[i] ELSE T[m] + kept[m]]
<1>1. T \in [1 .. m -> Nat] /\ T[1] = 0 /\ m \in Nat /\ m >= 1 /\ kept[m] \in Nat
  <2>1. T \in [1 .. m -> Nat] /\ T[1] = 0
    BY DEF Laid
  <2> QED
    BY <2>1
<1>2. U \in [1 .. m + 1 -> Nat] /\ U[m + 1] = T[m] + kept[m] /\ \A i \in 1 .. m : U[i] = T[i]
  BY <1>1
<1> HIDE DEF U
<1>3. U[1] = 0
  BY <1>1, <1>2
<1>4. \A i \in 1 .. m : U[i + 1] = U[i] + kept[i]
  <2> TAKE i \in 1 .. m
  <2>1. CASE i = m
    BY <1>1, <1>2, <2>1
  <2>2. CASE i # m
    <3>1. i \in 1 .. m - 1 /\ i + 1 \in 1 .. m
      BY <1>1, <2>2
    <3>2. T[i + 1] = T[i] + kept[i]
      BY <3>1 DEF Laid
    <3> QED
      BY <1>2, <3>1, <3>2
  <2> QED
    BY <2>1, <2>2
<1>5. /\ Spot(it, sz, m + 1) = Spot(it, sz, m) + old[m] /\ old[m] \in Nat
      /\ \A i \in 1 .. m + 1 : Spot(it, sz, i) \in Nat
  BY DEF Straight
<1>6. ASSUME NEW i \in 1 .. m + 1, NEW j \in 1 .. m + 1, i <= j
      PROVE  U[i] <= U[j] /\ U[j] - U[i] <= Spot(it, sz, j) - Spot(it, sz, i)
  <2>1. CASE j \in 1 .. m
    <3>1. i \in 1 .. m
      BY <1>6, <2>1
    <3>2. T[i] <= T[j] /\ T[j] - T[i] <= Spot(it, sz, j) - Spot(it, sz, i)
      BY <1>6, <2>1, <3>1 DEF Laid
    <3> QED
      BY <1>2, <2>1, <3>1, <3>2
  <2>2. CASE j = m + 1 /\ i = m + 1
    BY <1>2, <1>5, <2>2
  <2>3. CASE j = m + 1 /\ i \in 1 .. m
    <3>0. i \in 1 .. m /\ m \in 1 .. m /\ i <= m
      BY <1>1, <2>3
    <3>1. T[i] <= T[m] /\ T[m] - T[i] <= Spot(it, sz, m) - Spot(it, sz, i)
      BY <3>0 DEF Laid
    <3>2. T[i] \in Nat /\ T[m] \in Nat /\ Spot(it, sz, m) \in Nat /\ Spot(it, sz, i) \in Nat
      BY <1>1, <1>5, <2>3
    <3>3. U[i] = T[i] /\ U[j] = T[m] + kept[m] /\ Spot(it, sz, j) = Spot(it, sz, m) + old[m]
      BY <1>2, <1>5, <2>3
    <3>4. \A a, b, c, d, x, y \in Nat :
            /\ a <= b /\ b - a <= d - c /\ x <= y
            => a <= b + x /\ (b + x) - a <= (d + y) - c
      OBVIOUS
    <3>5. /\ T[i] <= T[m] + kept[m]
          /\ (T[m] + kept[m]) - T[i] <= (Spot(it, sz, m) + old[m]) - Spot(it, sz, i)
      BY <1>1, <1>5, <3>1, <3>2, <3>4
    <3>6. U[i] <= U[j]
      BY <3>3, <3>5
    <3>7. Spot(it, sz, j) = Spot(it, sz, m) + old[m]
      BY <2>3, <3>3
    <3>8. U[j] - U[i] <= Spot(it, sz, j) - Spot(it, sz, i)
      BY <3>3, <3>5, <3>7
    <3> QED
      BY <3>6, <3>8
  <2> QED
    BY <1>1, <2>1, <2>2, <2>3
<1>7. Laid(it, sz, U, m + 1, kept)
  <2>1. (m + 1) - 1 = m
    BY <1>1
  <2> QED
    BY <1>2, <1>3, <1>4, <1>6, <2>1 DEF Laid
<1> QED
  BY <1>7 DEF U

---------------------------------------------------------------------------
(* The labels.                                                             *)

(* Room for one instruction more.                                          *)
LEMMA PlacingMore ==
  ASSUME NEW n \in Nat, NEW p, NEW o, NEW c, Placing(n, p, o, c)
  PROVE  Placing(n + 1, p, o, c)
BY DEF Placing

(* A label is placed after the n instructions there are.                   *)
LEMMA PlacingLabel ==
  ASSUME NEW n \in Nat, NEW p, NEW o, NEW c, Placing(n, p, o, c),
         NEW l \in Labels, o[l] = -1, NEW sz \in Nat
  PROVE  Placing(n, [p EXCEPT ![l] = n + 1], [o EXCEPT ![l] = sz], Append(c, l))
<1> DEFINE q == [p EXCEPT ![l] = n + 1]
           u == [o EXCEPT ![l] = sz]
           d == Append(c, l)
<1>1. p \in [Labels -> 0 .. n + 1] /\ o \in [Labels -> Nat \cup {-1}] /\ c \in Seq(Labels)
  BY DEF Placing
<1>2. p[l] = 0
  BY DEF Placing
<1>3. q \in [Labels -> 0 .. n + 1] /\ \A h \in Labels : q[h] = IF h = l THEN n + 1 ELSE p[h]
  BY <1>1
<1>4. u \in [Labels -> Nat \cup {-1}] /\ \A h \in Labels : u[h] = IF h = l THEN sz ELSE o[h]
  BY <1>1
<1>5. /\ d \in Seq(Labels) /\ Len(c) \in Nat /\ Len(d) = Len(c) + 1 /\ d[Len(c) + 1] = l
      /\ \A i \in 1 .. Len(c) : d[i] = c[i] /\ c[i] \in Labels
  BY <1>1
<1>6. \A i \in 1 .. Len(c) : p[c[i]] # 0 /\ c[i] # l /\ d[i] = c[i]
  BY <1>2, <1>5 DEF Placing
<1> HIDE DEF q, u, d
<1>7. \A h \in Labels : (u[h] = -1) = (q[h] = 0)
  <2>1. \A h \in Labels : (o[h] = -1) = (p[h] = 0)
    BY DEF Placing
  <2> QED
    BY <1>3, <1>4, <2>1
<1>8. \A h \in Labels : q[h] # 0 => \E i \in 1 .. Len(d) : d[i] = h
  <2> TAKE h \in Labels
  <2> HAVE q[h] # 0
  <2>1. CASE h = l
    BY <1>5, <2>1
  <2>2. CASE h # l
    <3>1. p[h] # 0
      BY <1>3, <2>2
    <3>2. PICK i \in 1 .. Len(c) : c[i] = h
      BY <3>1 DEF Placing
    <3> QED
      BY <1>5, <3>2
  <2> QED
    BY <2>1, <2>2
<1>9. \A i \in 1 .. Len(d) : q[d[i]] # 0
  <2> TAKE i \in 1 .. Len(d)
  <2>1. CASE i = Len(c) + 1
    BY <1>3, <1>5, <2>1
  <2>2. CASE i \in 1 .. Len(c)
    BY <1>3, <1>5, <1>6, <2>2
  <2> QED
    BY <1>5, <2>1, <2>2
<1>10. \A i \in 1 .. Len(d), j \in 1 .. Len(d) : i <= j => q[d[i]] <= q[d[j]]
  <2> TAKE i \in 1 .. Len(d), j \in 1 .. Len(d)
  <2> HAVE i <= j
  <2>1. \A h \in Labels : q[h] <= n + 1 /\ q[h] \in Nat
    BY <1>3
  <2>2. d[i] \in Labels /\ d[j] \in Labels
    BY <1>5
  <2>3. CASE j = Len(c) + 1
    BY <1>3, <1>5, <2>1, <2>2, <2>3
  <2>4. CASE j \in 1 .. Len(c)
    <3>1. i \in 1 .. Len(c)
      BY <2>4
    <3>2. p[c[i]] <= p[c[j]]
      BY <2>4, <3>1 DEF Placing
    <3> QED
      BY <1>3, <1>5, <1>6, <2>4, <3>1, <3>2
  <2> QED
    BY <1>5, <2>3, <2>4
<1> QED
  BY <1>3, <1>4, <1>5, <1>7, <1>8, <1>9, <1>10 DEF Placing, q, u, d

\* The labels of the chain c, from lab on, that stand at the old address x.
Standing(o, c, lab, x) ==
  {i \in lab .. Len(c) : \A j \in lab .. i : o[c[j]] = x}

\* They go to the new address y.
Shifted(o, c, H, y) == [l \in Labels |-> IF \E i \in H : c[i] = l THEN y ELSE o[l]]

(* They are the labels placed before the instruction at x.                 *)
LEMMA StandingIs ==
  ASSUME NEW R, NEW it \in Seq(R), NEW sz, NEW old, Straight(it, sz, old),
         NEW p, NEW o, NEW c, Placing(Len(it), p, o, c),
         NEW m \in 1 .. Len(it), NEW T, Moved(it, sz, p, o, T, m),
         NEW lab, Passed(p, c, lab, m)
  PROVE  \A i \in lab .. Len(c) : (i \in Standing(o, c, lab, it[m].start)) = (p[c[i]] = m)
<1>1. /\ p \in [Labels -> 0 .. Len(it) + 1] /\ c \in Seq(Labels) /\ Len(c) \in Nat
      /\ lab \in 1 .. Len(c) + 1 /\ Len(it) \in Nat
  BY DEF Placing, Passed
<1>2. \A i \in lab .. Len(c) : i \in 1 .. Len(c) /\ c[i] \in Labels /\ p[c[i]] \in m .. Len(it) + 1
  <2> TAKE i \in lab .. Len(c)
  <2>1. i \in 1 .. Len(c) /\ ~ (i < lab)
    BY <1>1
  <2>2. ~ (p[c[i]] < m)
    BY <2>1 DEF Passed
  <2>3. c[i] \in Labels
    BY <1>1, <2>1
  <2>4. p[c[i]] \in 0 .. Len(it) + 1
    BY <1>1, <2>3
  <2> QED
    BY <2>1, <2>2, <2>3, <2>4
<1>3. \A i \in lab .. Len(c) : o[c[i]] = Spot(it, sz, p[c[i]])
  <2> TAKE i \in lab .. Len(c)
  <2>1. c[i] \in Labels /\ p[c[i]] # 0 /\ ~ (p[c[i]] < m)
    BY <1>2
  <2> QED
    BY <2>1 DEF Moved
<1>4. it[m].start = Spot(it, sz, m)
  BY DEF Spot
<1>5. \A i \in lab .. Len(c) : (o[c[i]] = it[m].start) = (p[c[i]] = m)
  <2> TAKE i \in lab .. Len(c)
  <2>1. p[c[i]] \in m .. Len(it) + 1 /\ m \in 1 .. Len(it) + 1
    BY <1>2
  <2>2. p[c[i]] # m => Spot(it, sz, m) < Spot(it, sz, p[c[i]])
    <3>1. p[c[i]] # m => m < p[c[i]] /\ p[c[i]] \in 1 .. Len(it) + 1
      BY <2>1
    <3> QED
      BY <2>1, <3>1 DEF Straight
  <2>3. Spot(it, sz, m) \in Nat
    BY <2>1 DEF Straight
  <2> QED
    BY <1>3, <1>4, <2>2, <2>3
<1>6. \A i, j \in lab .. Len(c) : j <= i => p[c[j]] <= p[c[i]]
  BY <1>2 DEF Placing
<1> TAKE i \in lab .. Len(c)
<1>7. ASSUME p[c[i]] = m
      PROVE  \A j \in lab .. i : o[c[j]] = it[m].start
  <2> TAKE j \in lab .. i
  <2>1. j \in lab .. Len(c) /\ j <= i
    BY <1>1
  <2>2. p[c[j]] <= m /\ p[c[j]] \in m .. Len(it) + 1
    BY <1>2, <1>6, <1>7, <2>1
  <2>3. p[c[j]] = m
    BY <1>1, <2>2
  <2> QED
    BY <1>5, <2>1, <2>3
<1>8. ASSUME \A j \in lab .. i : o[c[j]] = it[m].start
      PROVE  p[c[i]] = m
  <2>1. i \in lab .. i
    BY <1>1
  <2> QED
    BY <1>5, <1>8, <2>1
<1> QED
  BY <1>7, <1>8 DEF Standing

(* The walk along the chain passes them.                                   *)
LEMMA PassesOn ==
  ASSUME NEW R, NEW it \in Seq(R), NEW sz, NEW old, Straight(it, sz, old),
         NEW p, NEW o, NEW c, Placing(Len(it), p, o, c),
         NEW m \in 1 .. Len(it), NEW T, Moved(it, sz, p, o, T, m),
         NEW lab, Passed(p, c, lab, m)
  PROVE  Passed(p, c, lab + Cardinality(Standing(o, c, lab, it[m].start)), m + 1)
<1> DEFINE H == Standing(o, c, lab, it[m].start)
           F == {x \in lab .. Len(c) + 1 : x = Len(c) + 1 \/ p[c[x]] # m}
<1>1. /\ p \in [Labels -> 0 .. Len(it) + 1] /\ c \in Seq(Labels) /\ Len(c) \in Nat
      /\ lab \in 1 .. Len(c) + 1 /\ Len(it) \in Nat
      /\ \A i \in 1 .. Len(c) : (i < lab) = (p[c[i]] < m)
  BY DEF Placing, Passed
<1>2. F \in SUBSET Nat /\ F # {}
  <2>1. Len(c) + 1 \in F
    BY <1>1
  <2> QED
    BY <1>1, <2>1
<1>3. PICK x \in F : \A y \in F : x <= y
  BY <1>2, LeastNumber
<1>4. x \in lab .. Len(c) + 1 /\ (x = Len(c) + 1 \/ p[c[x]] # m)
  BY <1>3
<1>5. \A i \in lab .. Len(c) : i < x => p[c[i]] = m
  <2> TAKE i \in lab .. Len(c)
  <2> HAVE i < x
  <2>1. i \notin F
    BY <1>1, <1>3
  <2> QED
    BY <1>1, <2>1
<1> HIDE DEF F
<1>6. \A i \in 1 .. Len(c) : p[c[i]] \in Nat
  <2> TAKE i \in 1 .. Len(c)
  <2>1. c[i] \in Labels
    BY <1>1
  <2> QED
    BY <1>1, <2>1
<1>7. \A i \in lab .. Len(c) : x <= i => p[c[i]] > m
  <2> TAKE i \in lab .. Len(c)
  <2> HAVE x <= i
  <2>1. x \in 1 .. Len(c) /\ i \in 1 .. Len(c) /\ ~ (x < lab) /\ p[c[x]] # m
    BY <1>1, <1>4
  <2>2. ~ (p[c[x]] < m)
    BY <1>1, <2>1
  <2>3. p[c[x]] <= p[c[i]]
    BY <2>1 DEF Placing
  <2> QED
    BY <1>1, <1>6, <2>1, <2>2, <2>3
<1>8. H = lab .. x - 1
  <2>1. \A i \in lab .. Len(c) : (i \in H) = (p[c[i]] = m)
    BY StandingIs
  <2>2. H \subseteq lab .. Len(c)
    BY DEF Standing
  <2> HIDE DEF H
  <2>3. \A i \in lab .. Len(c) : (i \in H) = (i < x)
    BY <1>1, <1>4, <1>5, <1>6, <1>7, <2>1
  <2>4. H \subseteq lab .. x - 1
    <3> SUFFICES ASSUME NEW i \in H
                 PROVE  i \in lab .. x - 1
      OBVIOUS
    <3>1. i \in lab .. Len(c)
      BY <2>2
    <3> QED
      BY <1>1, <1>4, <2>3, <3>1
  <2>5. lab .. x - 1 \subseteq H
    <3> SUFFICES ASSUME NEW i \in lab .. x - 1
                 PROVE  i \in H
      OBVIOUS
    <3>1. i \in lab .. Len(c) /\ i < x
      BY <1>1, <1>4
    <3> QED
      BY <2>3, <3>1
  <2> QED
    BY <2>4, <2>5
<1>9. Cardinality(H) = x - lab
  <2> DEFINE y == x - 1
  <2>1. y \in Int /\ lab \in Int /\ x = y + 1
    BY <1>1, <1>4
  <2> HIDE DEF y
  <2>2. Cardinality(lab .. y) = IF lab > y THEN 0 ELSE y - lab + 1
    BY <2>1, FS_Interval
  <2>3. H = lab .. y
    BY <1>8 DEF y
  <2>4. Cardinality(H) = Cardinality(lab .. y)
    BY <2>3
  <2> HIDE DEF H
  <2>5. lab <= x /\ x \in Int
    BY <1>1, <1>4
  <2>6. CASE lab > y
    BY <2>1, <2>2, <2>4, <2>5, <2>6
  <2>7. CASE lab <= y
    BY <2>1, <2>2, <2>4, <2>5, <2>7
  <2> QED
    BY <2>1, <2>6, <2>7
<1>10. lab + Cardinality(H) = x
  BY <1>1, <1>4, <1>9
<1>11. \A i \in 1 .. Len(c) : (i < x) = (p[c[i]] < m + 1)
  <2> TAKE i \in 1 .. Len(c)
  <2>1. CASE i < lab
    BY <1>1, <1>4, <1>6, <2>1
  <2>2. CASE i \in lab .. Len(c)
    BY <1>1, <1>4, <1>5, <1>6, <1>7, <2>2
  <2> QED
    BY <1>1, <2>1, <2>2
<1>12. x \in 1 .. Len(c) + 1
  BY <1>1, <1>4
<1> QED
  BY <1>10, <1>11, <1>12 DEF Passed

(* And they go to the new address of that instruction.                     *)
LEMMA Shifts ==
  ASSUME NEW R, NEW it \in Seq(R), NEW sz, NEW old, Straight(it, sz, old),
         NEW p, NEW o, NEW c, Placing(Len(it), p, o, c),
         NEW m \in 1 .. Len(it), NEW T, Moved(it, sz, p, o, T, m),
         NEW lab, Passed(p, c, lab, m),
         NEW U, \A i \in 1 .. m : U[i] = T[i], T[m] \in Nat
  PROVE  LET q == Shifted(o, c, Standing(o, c, lab, it[m].start), T[m])
         IN  Placing(Len(it), p, q, c) /\ Moved(it, sz, p, q, U, m + 1)
<1> DEFINE H == Standing(o, c, lab, it[m].start)
           q == Shifted(o, c, H, T[m])
<1>1. /\ p \in [Labels -> 0 .. Len(it) + 1] /\ c \in Seq(Labels) /\ Len(c) \in Nat
      /\ o \in [Labels -> Nat \cup {-1}] /\ lab \in 1 .. Len(c) + 1 /\ Len(it) \in Nat
      /\ \A i \in 1 .. Len(c) : (i < lab) = (p[c[i]] < m)
  BY DEF Placing, Passed
<1>2. \A i \in lab .. Len(c) : (i \in H) = (p[c[i]] = m)
  BY StandingIs
<1>3. H \subseteq lab .. Len(c)
  BY DEF Standing
<1> HIDE DEF H
<1>4. \A l \in Labels : (\E i \in H : c[i] = l) = (p[l] = m)
  <2> TAKE l \in Labels
  <2>1. ASSUME NEW i \in H, c[i] = l
        PROVE  p[l] = m
    BY <1>2, <1>3, <2>1
  <2>2. ASSUME p[l] = m
        PROVE  \E i \in H : c[i] = l
    <3>1. PICK i \in 1 .. Len(c) : c[i] = l
      BY <2>2 DEF Placing
    <3>2. ~ (i < lab)
      BY <1>1, <2>2, <3>1
    <3>3. i \in lab .. Len(c)
      BY <1>1, <3>1, <3>2
    <3> QED
      BY <1>2, <2>2, <3>1, <3>3
  <2> QED
    BY <2>1, <2>2
<1>5. \A l \in Labels : q[l] = IF p[l] = m THEN T[m] ELSE o[l]
  BY <1>4 DEF Shifted
<1>6. q \in [Labels -> Nat \cup {-1}]
  BY <1>1 DEF Shifted
<1> HIDE DEF q
<1>7. \A l \in Labels : (q[l] = -1) = (p[l] = 0)
  <2> TAKE l \in Labels
  <2>1. (o[l] = -1) = (p[l] = 0)
    BY DEF Placing
  <2> QED
    BY <1>5, <2>1
<1>8. Placing(Len(it), p, q, c)
  BY <1>6, <1>7 DEF Placing
<1>9. Moved(it, sz, p, q, U, m + 1)
  <2> SUFFICES ASSUME NEW l \in Labels, p[l] # 0
               PROVE  q[l] = IF p[l] < m + 1 THEN U[p[l]] ELSE Spot(it, sz, p[l])
    BY DEF Moved
  <2>1. p[l] \in 1 .. Len(it) + 1
    BY <1>1
  <2>2. o[l] = IF p[l] < m THEN T[p[l]] ELSE Spot(it, sz, p[l])
    BY DEF Moved
  <2>3. CASE p[l] = m
    BY <1>5, <2>3
  <2>4. CASE p[l] < m
    <3>1. p[l] \in 1 .. m
      BY <2>1, <2>4
    <3> QED
      BY <1>5, <2>1, <2>2, <2>4, <3>1
  <2>5. CASE p[l] > m
    BY <1>5, <2>1, <2>2, <2>5
  <2> QED
    BY <2>1, <2>3, <2>4, <2>5
<1> QED
  BY <1>8, <1>9 DEF q, H

---------------------------------------------------------------------------
(* The passes: what they know of the layouts, and keep.                    *)

\* Before pass 2 every label has its old address.
Unmoved(it, sz, p, o) == \A l \in Labels : p[l] # 0 => o[l] = Spot(it, sz, p[l])

\* No label stands at the end of the code.
Inside(it, p) == \A l \in Labels : p[l] <= Len(it)

\* Pass 2 at instruction m, label lab of the chain and the new address pc.
Relocating(it, sz, kept, p, o, c, m, lab, pc) ==
  /\ m \in 1 .. Len(it) + 1
  /\ \E T : /\ Laid(it, sz, T, m, kept) /\ pc = T[m]
            /\ Moved(it, sz, p, o, T, m) /\ Passed(p, c, lab, m)

\* Pass 3 at instruction m and the new address pc.
Transferring(it, sz, kept, p, o, m, pc) ==
  /\ m \in 1 .. Len(it) + 1
  /\ \E T : /\ Laid(it, sz, T, Len(it) + 1, kept) /\ pc = T[m]
            /\ Moved(it, sz, p, o, T, Len(it) + 1)

(* Pass 2 begins at the start.                                             *)
LEMMA RelocateBegins ==
  ASSUME NEW R, NEW it \in Seq(R), NEW sz, NEW old, Straight(it, sz, old), NEW kept,
         NEW p, NEW o, NEW c, Placing(Len(it), p, o, c), Unmoved(it, sz, p, o)
  PROVE  Relocating(it, sz, kept, p, o, c, 1, 1, 0)
<1> DEFINE T == [i \in 1 .. 1 |-> 0]
<1>1. Len(it) \in Nat /\ Len(c) \in Nat /\ p \in [Labels -> 0 .. Len(it) + 1] /\ c \in Seq(Labels)
  BY DEF Placing
<1>2. T \in [1 .. 1 -> Nat] /\ T[1] = 0
  OBVIOUS
<1> HIDE DEF T
<1>3. Laid(it, sz, T, 1, kept)
  <2>1. Spot(it, sz, 1) = 0
    BY DEF Straight
  <2>2. \A i \in 1 .. 1 : i = 1
    OBVIOUS
  <2>3. 1 .. 1 - 1 = {}
    OBVIOUS
  <2> QED
    BY <1>2, <2>1, <2>2, <2>3 DEF Laid
<1>4. \A l \in Labels : ~ (p[l] # 0 /\ p[l] < 1)
  BY <1>1
<1>5. Moved(it, sz, p, o, T, 1)
  BY <1>4 DEF Moved, Unmoved
<1>6. Passed(p, c, 1, 1)
  <2>1. \A i \in 1 .. Len(c) : c[i] \in Labels /\ p[c[i]] # 0
    BY <1>1 DEF Placing
  <2>2. \A i \in 1 .. Len(c) : ~ (i < 1) /\ ~ (p[c[i]] < 1)
    BY <1>4, <2>1
  <2>3. 1 \in 1 .. Len(c) + 1
    BY <1>1
  <2> QED
    BY <2>2, <2>3 DEF Passed
<1> QED
  BY <1>1, <1>2, <1>3, <1>5, <1>6 DEF Relocating

(* It goes on by one instruction, that has not grown.                      *)
LEMMA RelocateStep ==
  ASSUME NEW R, NEW it \in Seq(R), NEW sz, NEW old, Straight(it, sz, old),
         NEW kept \in [1 .. Len(it) -> Nat],
         NEW p, NEW o, NEW c, Placing(Len(it), p, o, c), NEW m, NEW lab, NEW pc,
         Relocating(it, sz, kept, p, o, c, m, lab, pc), m <= Len(it), kept[m] <= old[m]
  PROVE  LET H == Standing(o, c, lab, it[m].start)
         IN  /\ Placing(Len(it), p, Shifted(o, c, H, pc), c)
             /\ Relocating(it, sz, kept, p, Shifted(o, c, H, pc), c, m + 1,
                           lab + Cardinality(H), pc + kept[m])
<1> DEFINE H == Standing(o, c, lab, it[m].start)
           q == Shifted(o, c, H, pc)
<1>1. m \in 1 .. Len(it) /\ Len(it) \in Nat
  BY DEF Relocating
<1>2. PICK T : /\ Laid(it, sz, T, m, kept) /\ pc = T[m]
               /\ Moved(it, sz, p, o, T, m) /\ Passed(p, c, lab, m)
  BY DEF Relocating
<1> DEFINE U == [i \in 1 .. m + 1 |-> IF i <= m THEN T[i] ELSE T[m] + kept[m]]
<1>3. Laid(it, sz, U, m + 1, kept)
  BY <1>1, <1>2, Lays
<1>4. T[m] \in Nat /\ (\A i \in 1 .. m : U[i] = T[i]) /\ U[m + 1] = pc + kept[m]
  <2>1. T \in [1 .. m -> Nat]
    BY <1>2 DEF Laid
  <2> QED
    BY <1>1, <1>2, <2>1
<1> HIDE DEF U
<1>5. Placing(Len(it), p, q, c) /\ Moved(it, sz, p, q, U, m + 1)
  BY <1>1, <1>2, <1>4, Shifts
<1>6. Passed(p, c, lab + Cardinality(H), m + 1)
  BY <1>1, <1>2, PassesOn
<1> HIDE DEF q, H
<1>7. m + 1 \in 1 .. Len(it) + 1
  BY <1>1
<1>8. Relocating(it, sz, kept, p, q, c, m + 1, lab + Cardinality(H), pc + kept[m])
  BY <1>3, <1>4, <1>5, <1>6, <1>7 DEF Relocating
<1> QED
  BY <1>5, <1>8 DEF q, H

(* At its end every label has its new address.                             *)
LEMMA RelocateEnds ==
  ASSUME NEW R, NEW it \in Seq(R), NEW sz, NEW kept, NEW p, NEW o, NEW c, NEW m, NEW lab, NEW pc,
         Relocating(it, sz, kept, p, o, c, m, lab, pc), m > Len(it)
  PROVE  Transferring(it, sz, kept, p, o, 1, 0)
<1>1. Len(it) \in Nat /\ m = Len(it) + 1
  BY DEF Relocating
<1>2. PICK T : Laid(it, sz, T, m, kept) /\ Moved(it, sz, p, o, T, m)
  BY DEF Relocating
<1>3. T[1] = 0
  BY <1>2 DEF Laid
<1> QED
  BY <1>1, <1>2, <1>3 DEF Transferring

(* Pass 3 goes on by one instruction.                                      *)
LEMMA TransferStep ==
  ASSUME NEW R, NEW it \in Seq(R), NEW sz, NEW kept, NEW p, NEW o, NEW m, NEW pc,
         Transferring(it, sz, kept, p, o, m, pc), m <= Len(it)
  PROVE  Transferring(it, sz, kept, p, o, m + 1, pc + kept[m])
<1>1. Len(it) \in Nat /\ m \in 1 .. Len(it) /\ m + 1 \in 1 .. Len(it) + 1
  BY DEF Transferring
<1>2. PICK T : /\ Laid(it, sz, T, Len(it) + 1, kept) /\ pc = T[m]
               /\ Moved(it, sz, p, o, T, Len(it) + 1)
  BY DEF Transferring
<1>3. T[m + 1] = T[m] + kept[m]
  <2>1. (Len(it) + 1) - 1 = Len(it)
    BY <1>1
  <2> QED
    BY <1>1, <1>2, <2>1 DEF Laid
<1> QED
  BY <1>1, <1>2, <1>3 DEF Transferring

(* A label is no further from the end of the instruction than it was.      *)
LEMMA TransferDistance ==
  ASSUME NEW R, NEW it \in Seq(R), NEW sz, NEW old, Straight(it, sz, old), NEW kept,
         NEW p, NEW o, NEW c, Placing(Len(it), p, o, c), Inside(it, p), NEW m, NEW pc,
         Transferring(it, sz, kept, p, o, m, pc), m <= Len(it),
         NEW l \in Labels, p[l] # 0, NEW lo \in Int, NEW hi \in Int, lo <= 0, 0 <= hi,
         Spot(it, sz, p[l]) - Spot(it, sz, m + 1) \in lo .. hi
  PROVE  o[l] - (pc + kept[m]) \in lo .. hi
<1>1. Len(it) \in Nat /\ m \in 1 .. Len(it) /\ m + 1 \in 1 .. Len(it) + 1
  BY DEF Transferring
<1>2. PICK T : /\ Laid(it, sz, T, Len(it) + 1, kept) /\ pc = T[m]
               /\ Moved(it, sz, p, o, T, Len(it) + 1)
  BY DEF Transferring
<1>3. T \in [1 .. Len(it) + 1 -> Nat] /\ T[m + 1] = T[m] + kept[m]
  <2>1. (Len(it) + 1) - 1 = Len(it)
    BY <1>1
  <2> QED
    BY <1>1, <1>2, <2>1 DEF Laid
<1>4. p[l] \in 1 .. Len(it) + 1 /\ p[l] < Len(it) + 1
  <2>1. p[l] <= Len(it)
    BY DEF Inside
  <2>2. p[l] \in 0 .. Len(it) + 1
    BY DEF Placing
  <2> QED
    BY <1>1, <2>1, <2>2
<1>5. o[l] = T[p[l]]
  BY <1>2, <1>4 DEF Moved
<1> DEFINE a == T[p[l]]
           b == T[m + 1]
           d == Spot(it, sz, p[l])
           e == Spot(it, sz, m + 1)
<1>6. a \in Nat /\ b \in Nat
  BY <1>1, <1>3, <1>4
<1>7. d \in Nat /\ e \in Nat
  BY <1>1, <1>4 DEF Straight
<1>8. p[l] <= m + 1 => a <= b /\ b - a <= e - d
  BY <1>1, <1>2, <1>4 DEF Laid
<1>9. m + 1 <= p[l] => b <= a /\ a - b <= d - e
  BY <1>1, <1>2, <1>4 DEF Laid
<1>10. d - e \in lo .. hi
  OBVIOUS
<1>11. p[l] <= m + 1 \/ m + 1 <= p[l]
  BY <1>1, <1>4
<1>12. o[l] - (pc + kept[m]) = a - b
  BY <1>2, <1>3, <1>5
<1> HIDE DEF a, b, d, e
<1>13. a - b \in lo .. hi
  BY <1>6, <1>7, <1>8, <1>9, <1>10, <1>11
<1> QED
  BY <1>12, <1>13

(* The code has not grown.                                                 *)
LEMMA TransferEnds ==
  ASSUME NEW R, NEW it \in Seq(R), NEW sz, NEW old, Straight(it, sz, old), NEW kept,
         NEW p, NEW o, NEW m, NEW pc, Transferring(it, sz, kept, p, o, m, pc), m > Len(it)
  PROVE  pc <= sz
<1>1. Len(it) \in Nat /\ m = Len(it) + 1 /\ 1 \in 1 .. m /\ m \in 1 .. m
  BY DEF Transferring
<1>2. PICK T : Laid(it, sz, T, m, kept) /\ pc = T[m]
  BY <1>1 DEF Transferring
<1>3. T[m] - T[1] <= Spot(it, sz, m) - Spot(it, sz, 1) /\ T[1] = 0 /\ T[m] \in Nat
  BY <1>1, <1>2 DEF Laid
<1>4. Spot(it, sz, 1) = 0 /\ Spot(it, sz, m) = sz /\ sz \in Nat
  BY <1>1 DEF Straight, Spot
<1> QED
  BY <1>2, <1>3, <1>4

(* The forms of the instructions do not matter to the old layout.          *)
LEMMA SameLayout ==
  ASSUME NEW R, NEW it \in Seq(R), NEW jt \in Seq(R), Len(jt) = Len(it),
         \A i \in 1 .. Len(it) : jt[i].start = it[i].start, NEW sz
  PROVE  /\ \A i : Spot(jt, sz, i) = Spot(it, sz, i)
         /\ \A old : Straight(it, sz, old) => Straight(jt, sz, old)
         /\ \A p, o : Unmoved(it, sz, p, o) => Unmoved(jt, sz, p, o)
         /\ \A p : Inside(it, p) => Inside(jt, p)
<1>1. \A i : Spot(jt, sz, i) = Spot(it, sz, i)
  BY DEF Spot
<1>2. \A old : Straight(it, sz, old) => Straight(jt, sz, old)
  BY <1>1 DEF Straight
<1>3. \A p, o : Unmoved(it, sz, p, o) => Unmoved(jt, sz, p, o)
  BY <1>1 DEF Unmoved
<1> QED
  BY <1>1, <1>2, <1>3 DEF Inside

---------------------------------------------------------------------------
(* Glulx: the invariant.                                                   *)

GForms == {"long", "short", "byte", "deleted"}

GItem == [op : G!AllOps, len : Nat, label : Labels \cup {G!NoLabel}, start : Nat, form : GForms]

\* What assembly puts into an item, and the passes leave in it.
GRight(r) ==
  /\ r.op = "plain" => r.len # 0
  /\ IF r.op \in G!Transfers THEN r.label \in Labels ELSE r.form = "long"

\* The lengths as assembled, and of what is kept.
GLong(it) == [i \in 1 .. Len(it) |-> G!Size(it[i].op, it[i].len, "long")]

GKept(it) ==
  [i \in 1 .. Len(it) |->
    IF it[i].form = "deleted" THEN 0 ELSE G!Size(it[i].op, it[i].len, it[i].form)]

\* The form of instruction i holds the old distance to a label that is placed.
GFits(it, sz, p, i) ==
  LET d == Spot(it, sz, p[it[i].label]) - Spot(it, sz, i + 1)
  IN  it[i].form \in {"byte", "short"} /\ p[it[i].label] # 0 =>
        IF it[i].form = "byte" THEN d \in -130 .. 125 ELSE d \in G!MinShort - 2 .. G!MaxShort - 2

GHeld ==
  /\ items \in Seq(GItem) /\ \A i \in 1 .. Len(items) : GRight(items[i])
  /\ Straight(items, size, GLong(items))
  /\ Placing(Len(items), place, offset, chain)

GDecided == Inside(items, place) /\ \A i \in 1 .. Len(items) : GFits(items, size, place, i)

GInv ==
  /\ GHeld
  /\ phase \in {"assemble", "decide", "relocate", "emit", "done"}
  /\ errors \subseteq {"unreachable"}
  /\ phase = "assemble" =>
       /\ k = 1 /\ label = 1 /\ newpc = 0
       /\ Unmoved(items, size, place, offset)
       /\ \A i \in 1 .. Len(items) : items[i].form = "long"
       /\ dead => Inside(items, place)
  /\ phase # "assemble" => GDecided
  /\ phase = "decide" => k \in 1 .. Len(items) + 1 /\ Unmoved(items, size, place, offset)
  /\ phase = "relocate" =>
       Relocating(items, size, GKept(items), place, offset, chain, k, label, newpc)
  /\ phase = "emit" => Transferring(items, size, GKept(items), place, offset, k, newpc)

---------------------------------------------------------------------------
(* Glulx: the lengths of instructions and their forms.                     *)

(* No form of an instruction is longer than the one assembled.             *)
LEMMA GLengthsHold ==
  ASSUME NEW it \in Seq(GItem), \A i \in 1 .. Len(it) : GRight(it[i])
  PROVE  /\ GLong(it) \in [1 .. Len(it) -> Nat \ {0}] /\ GKept(it) \in [1 .. Len(it) -> Nat]
         /\ \A i \in 1 .. Len(it) : GKept(it)[i] <= GLong(it)[i]
         /\ \A i \in 1 .. Len(it) : it[i].op \in G!Transfers =>
              GLong(it)[i] = G!Front(it[i].op) + 4
<1>1. ASSUME NEW i \in 1 .. Len(it)
      PROVE  /\ G!Size(it[i].op, it[i].len, "long") \in Nat \ {0}
             /\ (IF it[i].form = "deleted" THEN 0 ELSE G!Size(it[i].op, it[i].len, it[i].form))
                  \in Nat
             /\ (IF it[i].form = "deleted" THEN 0 ELSE G!Size(it[i].op, it[i].len, it[i].form))
                  <= G!Size(it[i].op, it[i].len, "long")
             /\ it[i].op \in G!Transfers =>
                  G!Size(it[i].op, it[i].len, "long") = G!Front(it[i].op) + 4
  <2>1. it[i] \in GItem /\ GRight(it[i])
    OBVIOUS
  <2>2. /\ it[i].op \in {"plain", "branch", "jump", "return"} /\ it[i].len \in Nat
        /\ it[i].form \in GForms
    BY <2>1 DEF GItem, G!AllOps
  <2>3. CASE it[i].op \in G!Transfers
    <3>1. /\ G!Size(it[i].op, it[i].len, "long") = G!Front(it[i].op) + 4
          /\ it[i].form = "short" => G!Size(it[i].op, it[i].len, it[i].form) = G!Front(it[i].op) + 2
          /\ it[i].form = "byte" => G!Size(it[i].op, it[i].len, it[i].form) = G!Front(it[i].op) + 1
      BY <2>2, <2>3 DEF G!Size, G!FormLength, G!Transfers
    <3>2. G!Front(it[i].op) \in Nat
      BY DEF G!Front
    <3> QED
      BY <2>2, <3>1, <3>2 DEF GForms
  <2>4. CASE it[i].op \notin G!Transfers
    <3>1. it[i].form = "long"
      BY <2>1, <2>4 DEF GRight
    <3>2. G!Size(it[i].op, it[i].len, "long") \in Nat \ {0}
      BY <2>1, <2>2, <2>4 DEF G!Size, G!Transfers, GRight
    <3> QED
      BY <2>4, <3>1, <3>2
  <2> QED
    BY <2>3, <2>4
<1> QED
  BY <1>1 DEF GLong, GKept

(* An item of Glulx code gets another form.                                *)
LEMMA GSetForm ==
  ASSUME NEW it \in Seq(GItem), NEW m \in 1 .. Len(it), NEW f \in GForms
  PROVE  LET jt == [it EXCEPT ![m].form = f]
         IN  /\ jt \in Seq(GItem) /\ Len(jt) = Len(it)
             /\ \A i \in 1 .. Len(it) :
                  /\ jt[i].op = it[i].op /\ jt[i].len = it[i].len /\ jt[i].label = it[i].label
                  /\ jt[i].start = it[i].start
                  /\ jt[i].form = IF i = m THEN f ELSE it[i].form
<1> DEFINE r == [it[m] EXCEPT !.form = f]
           jt == [it EXCEPT ![m] = r]
<1>1. it[m] \in GItem
  OBVIOUS
<1>2. /\ r \in GItem /\ r.op = it[m].op /\ r.len = it[m].len /\ r.label = it[m].label
      /\ r.start = it[m].start /\ r.form = f
  BY <1>1 DEF GItem
<1> HIDE DEF r
<1>3. /\ jt \in Seq(GItem) /\ Len(jt) = Len(it)
      /\ \A i \in 1 .. Len(it) : jt[i] = IF i = m THEN r ELSE it[i]
  BY <1>2
<1> HIDE DEF jt
<1>4. \A i \in 1 .. Len(it) :
        /\ jt[i].op = it[i].op /\ jt[i].len = it[i].len /\ jt[i].label = it[i].label
        /\ jt[i].start = it[i].start
        /\ jt[i].form = IF i = m THEN f ELSE it[i].form
  BY <1>2, <1>3
<1> QED
  BY <1>3, <1>4 DEF jt, r

(* The form chosen holds the old distance.                                 *)
LEMMA GFormFits ==
  ASSUME GHeld, Unmoved(items, size, place, offset), k \in 1 .. Len(items)
  PROVE  /\ G!Form(k) \in GForms
         /\ items[k].op \notin G!Transfers => G!Form(k) = "long"
         /\ LET d == Spot(items, size, place[items[k].label]) - Spot(items, size, k + 1)
            IN  place[items[k].label] # 0 =>
                  /\ G!Form(k) = "byte" => d \in -130 .. 125
                  /\ G!Form(k) = "short" => d \in G!MinShort - 2 .. G!MaxShort - 2
<1>1. G!Form(k) \in GForms
  BY DEF G!Form, GForms
<1>2. items[k].op \notin G!Transfers => G!Form(k) = "long"
  BY DEF G!Form
<1>3. ASSUME place[items[k].label] # 0, G!Form(k) \in {"byte", "short"}
      PROVE  /\ G!OldAddr(k) = (Spot(items, size, place[items[k].label]) - Spot(items, size, k + 1)) + 2
             /\ Spot(items, size, place[items[k].label]) \in Nat
             /\ Spot(items, size, k + 1) \in Nat
  <2>1. items[k].op \in G!Transfers /\ items[k].label \in Labels
    BY <1>2, <1>3 DEF GHeld, GRight
  <2>2. offset[items[k].label] = Spot(items, size, place[items[k].label])
    BY <1>3, <2>1 DEF Unmoved
  <2>3. /\ Spot(items, size, k + 1) = Spot(items, size, k) + GLong(items)[k]
        /\ Spot(items, size, k) = items[k].start
    BY DEF GHeld, Straight, Spot
  <2>4. GLong(items)[k] = G!Front(items[k].op) + 4 /\ G!Front(items[k].op) \in Nat
    BY <2>1, GLengthsHold DEF GHeld, G!Front
  <2>5. Spot(items, size, k + 1) \in Nat /\ Spot(items, size, k) \in Nat
    BY DEF GHeld, Straight
  <2>6. Spot(items, size, place[items[k].label]) \in Nat
    <3>1. place[items[k].label] \in 1 .. Len(items) + 1
      BY <1>3, <2>1 DEF GHeld, Placing
    <3> QED
      BY <3>1 DEF GHeld, Straight
  <2>7. G!OldAddr(k) = offset[items[k].label] - (items[k].start + G!Front(items[k].op) + 4) + 2
    BY DEF G!OldAddr
  <2> DEFINE s == items[k].start
             f == G!Front(items[k].op)
             to == Spot(items, size, place[items[k].label])
             past == Spot(items, size, k + 1)
             old == G!OldAddr(k)
  <2>8. /\ s \in Nat /\ f \in Nat /\ to \in Nat /\ past \in Nat
        /\ past = s + (f + 4) /\ old = to - (s + f + 4) + 2
    BY <2>2, <2>3, <2>4, <2>5, <2>6, <2>7
  <2>9. old = (to - past) + 2
    <3> HIDE DEF s, f, to, past, old
    <3> QED  BY <2>8
  <2> QED
    BY <2>8, <2>9
<1>4. /\ G!Form(k) = "byte" => G!OldAddr(k) \in -128 .. 127
      /\ G!Form(k) = "short" => G!OldAddr(k) \in G!MinShort .. G!MaxShort
  <2> DEFINE a == G!OldAddr(k)
             isByte == a \in -128 .. 127
             isShort == a \in G!MinShort .. G!MaxShort
  <2>1. G!Form(k) = IF items[k].op \notin G!Transfers         THEN "long"
                    ELSE IF items[k].op = "jump" /\ a = 2    THEN "deleted"
                    ELSE IF isByte                           THEN "byte"
                    ELSE IF isShort                          THEN "short"
                    ELSE "long"
    BY DEF G!Form
  <2> HIDE DEF isByte, isShort, a
  <2>2. (G!Form(k) = "byte" => isByte) /\ (G!Form(k) = "short" => isShort)
    BY <2>1
  <2> QED
    BY <2>2 DEF isByte, isShort, a
<1> DEFINE x == Spot(items, size, place[items[k].label])
           y == Spot(items, size, k + 1)
           placed == place[items[k].label] # 0
<1>5. ASSUME placed, G!Form(k) = "byte"
      PROVE  x - y \in -130 .. 125
  <2>1. G!OldAddr(k) = (x - y) + 2 /\ x \in Nat /\ y \in Nat
    BY <1>3, <1>5
  <2>2. G!OldAddr(k) \in -128 .. 127
    BY <1>4, <1>5
  <2> HIDE DEF x, y
  <2> QED
    BY <2>1, <2>2
<1>6. ASSUME placed, G!Form(k) = "short"
      PROVE  x - y \in G!MinShort - 2 .. G!MaxShort - 2
  <2>1. G!OldAddr(k) = (x - y) + 2 /\ x \in Nat /\ y \in Nat
    BY <1>3, <1>6
  <2>2. G!OldAddr(k) \in G!MinShort .. G!MaxShort
    BY <1>4, <1>6
  <2>3. G!MinShort \in Int /\ G!MaxShort \in Int
    BY DEF G!MinShort, G!MaxShort
  <2> HIDE DEF x, y
  <2> QED
    BY <2>1, <2>2, <2>3
<1> QED
  BY <1>1, <1>2, <1>5, <1>6

---------------------------------------------------------------------------
(* Glulx: every step keeps the invariant.                                  *)

\* Items that are all of them long fit.
LEMMA GLongFits ==
  ASSUME NEW it, NEW sz, NEW p, NEW i, it[i].form \notin {"byte", "short"}
  PROVE  GFits(it, sz, p, i)
BY DEF GFits

(* What the Glulx invariant says of the code, in parts.                    *)
LEMMA GBasics ==
  ASSUME GHeld
  PROVE  /\ items \in Seq(GItem) /\ Len(items) \in Nat /\ size \in Nat
         /\ \A i \in 1 .. Len(items) : GRight(items[i])
         /\ Straight(items, size, GLong(items)) /\ Placing(Len(items), place, offset, chain)
<1>1. items \in Seq(GItem)
  BY DEF GHeld
<1>2. Len(items) \in Nat
  BY <1>1
<1>3. Straight(items, size, GLong(items)) /\ \A i \in 1 .. Len(items) : GRight(items[i])
  BY DEF GHeld
<1>4. size \in Nat
  BY <1>3 DEF Straight
<1>5. Placing(Len(items), place, offset, chain)
  BY DEF GHeld
<1> QED
  BY <1>1, <1>2, <1>3, <1>4, <1>5

(* Assembly of an instruction.                                             *)
LEMMA GAssembles ==
  ASSUME GInv, NEW op \in G!AllOps, NEW n \in Nat, NEW l \in Labels \cup {G!NoLabel},
         op = "plain" => n # 0, op \in G!Transfers => l \in Labels,
         G!Assemble(op, n, l), phase' \in {"assemble", "decide"},
         phase' = "decide" => op \in {"jump", "return"}
  PROVE  GInv'
<1> DEFINE r == [op |-> op, len |-> n, label |-> l, start |-> size, form |-> "long"]
           d == G!Size(op, n, "long")
           jt == Append(items, r)
           N == Len(items)
<1>1. /\ phase = "assemble" /\ ~dead /\ items' = jt /\ size' = size + d
      /\ dead' = G!EndsFlow(op) /\ offset' = offset /\ chain' = chain /\ place' = place
      /\ k' = k /\ label' = label /\ newpc' = newpc /\ errors' = errors
  BY DEF G!Assemble
<1>2. /\ items \in Seq(GItem) /\ (\A i \in 1 .. N : GRight(items[i]))
      /\ Straight(items, size, GLong(items)) /\ Placing(N, place, offset, chain)
      /\ Unmoved(items, size, place, offset) /\ size \in Nat /\ N \in Nat
      /\ k = 1 /\ label = 1 /\ newpc = 0 /\ errors \subseteq {"unreachable"}
      /\ \A i \in 1 .. N : items[i].form = "long"
  BY <1>1, GBasics DEF GInv
<1>3. r \in GItem /\ GRight(r) /\ r.start = size /\ r.form = "long" /\ r.op = op /\ r.len = n
  BY <1>2 DEF GItem, GRight, GForms
<1> HIDE DEF r
<1>4. /\ jt \in Seq(GItem) /\ Len(jt) = N + 1 /\ jt[N + 1] = r
      /\ \A i \in 1 .. N : jt[i] = items[i]
  BY <1>2, <1>3
<1> HIDE DEF jt
<1>5. \A i \in 1 .. N + 1 : GRight(jt[i]) /\ jt[i].form = "long"
  BY <1>2, <1>3, <1>4
<1>6. GLong(jt) \in [1 .. N + 1 -> Nat \ {0}] /\ GLong(jt)[N + 1] = d
  <2>1. GLong(jt) \in [1 .. Len(jt) -> Nat \ {0}]
    BY <1>4, <1>5, GLengthsHold
  <2>2. N + 1 \in 1 .. Len(jt)
    BY <1>2, <1>4
  <2> QED
    BY <1>3, <1>4, <2>1, <2>2 DEF GLong
<1>7. d \in Nat \ {0}
  BY <1>2, <1>6
<1> HIDE DEF d
<1> DEFINE new == [i \in 1 .. N + 1 |-> IF i = N + 1 THEN d ELSE GLong(items)[i]]
<1>8. GLong(jt) = new
  <2>1. \A i \in 1 .. N : GLong(jt)[i] = GLong(items)[i]
    BY <1>2, <1>4 DEF GLong
  <2>2. \A i \in 1 .. N + 1 : GLong(jt)[i] = new[i]
    BY <1>2, <1>6, <2>1
  <2> QED
    BY <1>6, <2>2
<1>9. Straight(jt, size + d, new) /\ \A i \in 1 .. N + 1 : Spot(jt, size + d, i) = Spot(items, size, i)
  <2>1. /\ items \in Seq(GItem) /\ Straight(items, size, GLong(items))
        /\ r \in GItem /\ r.start = size /\ d \in Nat \ {0}
    BY <1>2, <1>3, <1>7
  <2> QED
    BY ONLY <2>1, Lengthens DEF jt
<1>10. Placing(N + 1, place, offset, chain)
  BY <1>2, PlacingMore
<1>11. Unmoved(jt, size + d, place, offset)
  <2>1. \A h \in Labels : place[h] # 0 => place[h] \in 1 .. N + 1
    BY <1>2 DEF Placing
  <2> QED
    BY <1>2, <1>9, <2>1 DEF Unmoved
<1>12. Inside(jt, place)
  BY <1>2, <1>4 DEF Placing, Inside
<1>13. GHeld'
  <2>1. Straight(jt, size + d, GLong(jt))
    BY <1>8, <1>9
  <2> QED
    BY <1>1, <1>4, <1>5, <1>10, <2>1 DEF GHeld
<1>14. \A i \in 1 .. N + 1 : GFits(jt, size + d, place, i)
  BY <1>5, GLongFits
<1>15. GDecided'
  BY <1>1, <1>4, <1>12, <1>14 DEF GDecided
<1>16. k' = 1 /\ k' \in 1 .. Len(jt) + 1 /\ label' = 1 /\ newpc' = 0
       /\ errors' \subseteq {"unreachable"}
  BY <1>1, <1>2, <1>4
<1>17. Unmoved(items, size, place, offset)' /\ Inside(items, place)'
       /\ (\A i \in 1 .. Len(items) : items[i].form = "long")'
  BY <1>1, <1>4, <1>5, <1>11, <1>12
<1>18. k' \in 1 .. Len(items') + 1
  BY <1>1, <1>16
<1> QED
  BY <1>13, <1>15, <1>16, <1>17, <1>18 DEF GInv

(* Placement of a label.                                                   *)
LEMMA GLabels ==
  ASSUME GInv, NEW l \in Labels, G!AssembleLabel(l)
  PROVE  GInv'
<1> DEFINE N == Len(items)
<1>1. /\ phase = "assemble" /\ phase' = phase /\ offset[l] = -1
      /\ offset' = [offset EXCEPT ![l] = size] /\ chain' = Append(chain, l)
      /\ place' = [place EXCEPT ![l] = N + 1] /\ dead' = FALSE
      /\ items' = items /\ size' = size /\ k' = k /\ label' = label /\ newpc' = newpc
      /\ errors' = errors
  BY DEF G!AssembleLabel
<1>2. /\ items \in Seq(GItem) /\ (\A i \in 1 .. N : GRight(items[i]))
      /\ Straight(items, size, GLong(items)) /\ Placing(N, place, offset, chain)
      /\ Unmoved(items, size, place, offset) /\ size \in Nat /\ N \in Nat
      /\ k = 1 /\ label = 1 /\ newpc = 0 /\ errors \subseteq {"unreachable"}
      /\ \A i \in 1 .. N : items[i].form = "long"
  BY <1>1, GBasics DEF GInv
<1>3. Placing(N, place', offset', chain')
  BY <1>1, <1>2, PlacingLabel
<1>4. Unmoved(items, size, place', offset')
  <2>1. Spot(items, size, N + 1) = size
    BY <1>2 DEF Spot
  <2>2. offset \in [Labels -> Nat \cup {-1}] /\ place \in [Labels -> 0 .. N + 1]
    BY <1>2 DEF Placing
  <2>3. \A h \in Labels : /\ place'[h] = IF h = l THEN N + 1 ELSE place[h]
                          /\ offset'[h] = IF h = l THEN size ELSE offset[h]
    BY <1>1, <2>2
  <2> QED
    BY <1>2, <2>1, <2>3 DEF Unmoved
<1>5. GHeld'
  BY <1>1, <1>2, <1>3 DEF GHeld
<1>6. Unmoved(items, size, place, offset)'
  BY <1>1, <1>4
<1> QED
  BY <1>1, <1>2, <1>5, <1>6 DEF GInv

(* The end of the routine.                                                 *)
LEMMA GRoutineEnds ==
  ASSUME GInv, G!AssembleRoutineEnd
  PROVE  GInv'
<1>1. CASE G!Assemble("return", 0, G!NoLabel) /\ phase' = "decide"
  <2>1. "return" \in G!AllOps /\ "return" \notin G!Transfers /\ "return" # "plain"
    BY DEF G!AllOps, G!Transfers
  <2> QED
    BY <1>1, <2>1, GAssembles
<1>2. CASE /\ phase = "assemble" /\ dead /\ phase' = "decide"
           /\ UNCHANGED <<G!routine, offset, k, label, newpc, out, errors>>
  <2>1. /\ items' = items /\ size' = size /\ chain' = chain /\ place' = place
        /\ offset' = offset /\ k' = k /\ label' = label /\ newpc' = newpc /\ errors' = errors
    BY <1>2 DEF G!routine
  <2>2. GHeld'
    BY <2>1 DEF GInv, GHeld
  <2>3. /\ k = 1 /\ Unmoved(items, size, place, offset) /\ Inside(items, place)
        /\ \A i \in 1 .. Len(items) : items[i].form = "long"
    BY <1>2 DEF GInv
  <2>4. \A i \in 1 .. Len(items) : GFits(items, size, place, i)
    BY <2>3, GLongFits
  <2>5. GDecided'
    BY <2>1, <2>3, <2>4 DEF GDecided
  <2>6. k' \in 1 .. Len(items') + 1
    <3>1. Len(items) \in Nat
      BY GBasics DEF GInv
    <3> QED
      BY <2>1, <2>3, <3>1
  <2>7. errors' \subseteq {"unreachable"} /\ Unmoved(items, size, place, offset)'
    BY <2>1, <2>3 DEF GInv
  <2> QED
    BY <1>2, <2>2, <2>5, <2>6, <2>7 DEF GInv
<1> QED
  BY <1>1, <1>2 DEF G!AssembleRoutineEnd

\* What the passes find: the code, its layout, and no label at its end.
GFound ==
  /\ GHeld /\ GDecided /\ errors \subseteq {"unreachable"}
  /\ GKept(items) \in [1 .. Len(items) -> Nat]
  /\ \A i \in 1 .. Len(items) : GKept(items)[i] <= GLong(items)[i]

(* It says more once assembly is over.                                     *)
LEMMA GFinds ==
  ASSUME GInv, phase # "assemble"
  PROVE  GFound
<1>1. GHeld /\ GDecided /\ errors \subseteq {"unreachable"}
  BY DEF GInv
<1>2. items \in Seq(GItem) /\ \A i \in 1 .. Len(items) : GRight(items[i])
  BY <1>1, GBasics
<1> QED
  BY <1>1, <1>2, GLengthsHold DEF GFound

(* Pass 1 at an instruction.                                               *)
LEMMA GDecides ==
  ASSUME GInv, G!Decide
  PROVE  GInv'
<1> DEFINE f == G!Form(k)
           jt == [items EXCEPT ![k].form = f]
<1>1. /\ phase = "decide" /\ k <= Len(items) /\ items' = jt /\ k' = k + 1
      /\ phase' = phase /\ size' = size /\ chain' = chain /\ place' = place
      /\ offset' = offset /\ errors' = errors
  BY DEF G!Decide
<1>2. GFound /\ k \in 1 .. Len(items) + 1 /\ Unmoved(items, size, place, offset)
  BY <1>1, GFinds DEF GInv
<1>3. /\ GHeld /\ items \in Seq(GItem) /\ Len(items) \in Nat /\ size \in Nat
      /\ (\A i \in 1 .. Len(items) : GRight(items[i]))
      /\ Straight(items, size, GLong(items)) /\ Placing(Len(items), place, offset, chain)
  BY <1>2, GBasics DEF GFound
<1>4. k \in 1 .. Len(items)
  BY <1>1, <1>2, <1>3
<1>5. /\ f \in GForms /\ (items[k].op \notin G!Transfers => f = "long")
      /\ LET d == Spot(items, size, place[items[k].label]) - Spot(items, size, k + 1)
         IN  place[items[k].label] # 0 =>
               /\ f = "byte" => d \in -130 .. 125
               /\ f = "short" => d \in G!MinShort - 2 .. G!MaxShort - 2
  BY <1>2, <1>3, <1>4, GFormFits
<1> HIDE DEF f
<1>6. /\ jt \in Seq(GItem) /\ Len(jt) = Len(items)
      /\ \A i \in 1 .. Len(items) :
           /\ jt[i].op = items[i].op /\ jt[i].len = items[i].len
           /\ jt[i].label = items[i].label /\ jt[i].start = items[i].start
           /\ jt[i].form = IF i = k THEN f ELSE items[i].form
  BY <1>3, <1>4, <1>5, GSetForm
<1> HIDE DEF jt
<1>7. /\ \A i : Spot(jt, size, i) = Spot(items, size, i)
      /\ Straight(jt, size, GLong(items)) /\ Unmoved(jt, size, place, offset)
      /\ Inside(items, place) => Inside(jt, place)
  <2>1. \A i \in 1 .. Len(items) : jt[i].start = items[i].start
    BY <1>6
  <2>2. jt \in Seq(GItem) /\ Len(jt) = Len(items)
    BY <1>6
  <2>3. /\ \A i : Spot(jt, size, i) = Spot(items, size, i)
        /\ \A old : Straight(items, size, old) => Straight(jt, size, old)
        /\ \A p, o : Unmoved(items, size, p, o) => Unmoved(jt, size, p, o)
        /\ \A p : Inside(items, p) => Inside(jt, p)
    BY ONLY <1>3, <2>1, <2>2, SameLayout
  <2> QED
    BY <1>2, <1>3, <2>3
<1>8. GLong(jt) = GLong(items)
  BY <1>6 DEF GLong
<1>9. \A i \in 1 .. Len(jt) : GRight(jt[i])
  BY <1>3, <1>5, <1>6 DEF GRight
<1>10. GHeld'
  BY <1>1, <1>3, <1>6, <1>7, <1>8, <1>9 DEF GHeld
<1>11. \A i \in 1 .. Len(jt) : GFits(jt, size, place, i)
  <2> TAKE i \in 1 .. Len(jt)
  <2>1. Spot(jt, size, place[jt[i].label]) = Spot(items, size, place[items[i].label])
        /\ Spot(jt, size, i + 1) = Spot(items, size, i + 1) /\ jt[i].label = items[i].label
    BY <1>6, <1>7
  <2>2. CASE i = k
    BY <1>5, <1>6, <2>1, <2>2 DEF GFits
  <2>3. CASE i # k
    <3>1. GFits(items, size, place, i) /\ jt[i].form = items[i].form
      BY <1>2, <1>6, <2>3 DEF GFound, GDecided
    <3> QED
      BY <2>1, <3>1 DEF GFits
  <2> QED
    BY <2>2, <2>3
<1>12. GDecided'
  BY <1>1, <1>2, <1>7, <1>11 DEF GFound, GDecided
<1>13. k' \in 1 .. Len(items') + 1
  BY <1>1, <1>3, <1>4, <1>6
<1>14. errors' \subseteq {"unreachable"} /\ Unmoved(items, size, place, offset)'
  BY <1>1, <1>2, <1>7 DEF GFound
<1> QED
  BY <1>1, <1>10, <1>12, <1>13, <1>14 DEF GInv

(* The ends of passes 1 and 2.                                             *)
LEMMA GNextPass ==
  ASSUME GInv, G!EndDecide \/ G!EndRelocate
  PROVE  GInv'
<1>1. /\ items' = items /\ size' = size /\ chain' = chain /\ place' = place /\ offset' = offset
      /\ errors' = errors /\ k' = 1 /\ label' = 1 /\ newpc' = 0 /\ phase # "assemble"
      /\ k > Len(items)
      /\ (phase = "decide" /\ phase' = "relocate") \/ (phase = "relocate" /\ phase' = "emit")
  BY DEF G!EndDecide, G!EndRelocate, G!NextPass, G!routine
<1>2. GFound
  BY <1>1, GFinds
<1>3. /\ items \in Seq(GItem) /\ Len(items) \in Nat
      /\ Straight(items, size, GLong(items)) /\ Placing(Len(items), place, offset, chain)
  BY <1>2, GBasics DEF GFound
<1>4. GHeld' /\ GDecided' /\ errors' \subseteq {"unreachable"}
  BY <1>1, <1>2 DEF GFound, GHeld, GDecided
<1>5. CASE phase = "decide" /\ phase' = "relocate"
  <2>1. Unmoved(items, size, place, offset)
    BY <1>5 DEF GInv
  <2>2. Relocating(items, size, GKept(items), place, offset, chain, 1, 1, 0)
    BY <1>3, <2>1, RelocateBegins
  <2>3. Relocating(items, size, GKept(items), place, offset, chain, k, label, newpc)'
    BY <1>1, <2>2
  <2> QED
    BY <1>4, <1>5, <2>3 DEF GInv
<1>6. CASE phase = "relocate" /\ phase' = "emit"
  <2>1. Relocating(items, size, GKept(items), place, offset, chain, k, label, newpc)
    BY <1>6 DEF GInv
  <2>2. Transferring(items, size, GKept(items), place, offset, 1, 0)
    BY <1>1, <1>3, <2>1, RelocateEnds
  <2>3. Transferring(items, size, GKept(items), place, offset, k, newpc)'
    BY <1>1, <2>2
  <2> QED
    BY <1>4, <1>6, <2>3 DEF GInv
<1> QED
  BY <1>1, <1>5, <1>6

\* Two modules, two names of the same number.
LEMMA GCounts ==
  ASSUME NEW S
  PROVE  G!Cardinality(S) = Cardinality(S)
BY DEF G!Cardinality, Cardinality

(* Pass 2 at an instruction.                                               *)
LEMMA GRelocates ==
  ASSUME GInv, G!Relocate
  PROVE  GInv'
<1> DEFINE H == Standing(offset, chain, label, items[k].start)
<1>1. G!Here = H
  BY DEF G!Here, Standing
<1>2. /\ phase = "relocate" /\ k <= Len(items) /\ phase' = phase /\ k' = k + 1
      /\ offset' = Shifted(offset, chain, H, newpc) /\ label' = label + Cardinality(H)
      /\ newpc' = newpc + G!Kept(k)
      /\ items' = items /\ size' = size /\ chain' = chain /\ place' = place /\ errors' = errors
  BY <1>1, GCounts DEF G!Relocate, G!routine, Shifted
<1> HIDE DEF H
<1>3. GFound /\ Relocating(items, size, GKept(items), place, offset, chain, k, label, newpc)
  BY <1>2, GFinds DEF GInv
<1>4. /\ items \in Seq(GItem) /\ Len(items) \in Nat
      /\ Straight(items, size, GLong(items)) /\ Placing(Len(items), place, offset, chain)
  BY <1>3, GBasics DEF GFound
<1>5. k \in 1 .. Len(items)
  BY <1>2, <1>3, <1>4 DEF Relocating
<1>6. G!Kept(k) = GKept(items)[k]
  BY <1>5 DEF G!Kept, GKept
<1>7. GKept(items) \in [1 .. Len(items) -> Nat] /\ GKept(items)[k] <= GLong(items)[k]
  BY <1>3, <1>5 DEF GFound
<1>8. /\ Placing(Len(items), place, Shifted(offset, chain, H, newpc), chain)
      /\ Relocating(items, size, GKept(items), place, Shifted(offset, chain, H, newpc), chain,
                    k + 1, label + Cardinality(H), newpc + GKept(items)[k])
  BY <1>2, <1>3, <1>4, <1>7, RelocateStep DEF H
<1>9. GHeld'
  BY <1>2, <1>3, <1>8 DEF GFound, GHeld
<1>10. GDecided' /\ errors' \subseteq {"unreachable"}
  BY <1>2, <1>3 DEF GFound, GDecided
<1>11. Relocating(items, size, GKept(items), place, offset, chain, k, label, newpc)'
  BY <1>2, <1>6, <1>8
<1> QED
  BY <1>2, <1>9, <1>10, <1>11 DEF GInv

(* An operand that pass 3 computes is in the range of its form.            *)
LEMMA GInRange ==
  ASSUME GInv, phase = "emit", k \in 1 .. Len(items)
  PROVE  ~ G!OutOfRange(k)
<1>1. GFound /\ Transferring(items, size, GKept(items), place, offset, k, newpc)
  BY GFinds DEF GInv
<1>2. /\ items \in Seq(GItem) /\ Len(items) \in Nat
      /\ Straight(items, size, GLong(items)) /\ Placing(Len(items), place, offset, chain)
      /\ GRight(items[k]) /\ Inside(items, place) /\ GFits(items, size, place, k)
  BY <1>1, GBasics DEF GFound, GDecided
<1>3. G!Kept(k) = GKept(items)[k]
  BY DEF G!Kept, GKept
<1> DEFINE l == items[k].label
           x == offset[l] - (newpc + GKept(items)[k])
<1>4. SUFFICES ASSUME items[k].op \in G!Transfers, items[k].form \in {"byte", "short"}
               PROVE  /\ items[k].form = "byte" => G!Operand(k) \in -128 .. 127
                      /\ items[k].form = "short" => G!Operand(k) \in G!MinShort .. G!MaxShort
  BY DEF G!OutOfRange
<1>5. G!MinShort \in Int /\ G!MaxShort \in Int /\ G!MinShort <= -2 /\ 2 <= G!MaxShort
  BY DEF G!MinShort, G!MaxShort
<1>6. l \in Labels
  BY <1>2, <1>4 DEF GRight
<1>7. CASE place[l] = 0
  <2>1. offset[l] = -1
    BY <1>2, <1>6, <1>7 DEF Placing
  <2>2. G!Unplaced(k)
    BY <1>4, <2>1 DEF G!Unplaced
  <2>3. G!Operand(k) = 0
    BY <2>2 DEF G!Operand
  <2> QED
    BY <1>5, <2>3
<1>8. CASE place[l] # 0
  <2>1. offset[l] \in Nat
    <3>1. offset[l] \in Nat \cup {-1} /\ offset[l] # -1
      BY <1>2, <1>6, <1>8 DEF Placing
    <3> QED
      BY <3>1
  <2>2. G!Operand(k) = x + 2
    BY <1>3, <1>4, <2>1 DEF G!Operand, G!Unplaced
  <2> DEFINE y == Spot(items, size, place[l]) - Spot(items, size, k + 1)
  <2>3. /\ items[k].form = "byte" => y \in -130 .. 125
        /\ items[k].form = "short" => y \in G!MinShort - 2 .. G!MaxShort - 2
    BY <1>2, <1>4, <1>8 DEF GFits
  <2>4. ASSUME NEW lo \in Int, NEW hi \in Int, lo <= 0, 0 <= hi, y \in lo .. hi
        PROVE  x \in lo .. hi
    <3>1. k <= Len(items)
      OBVIOUS
    <3>2. Spot(items, size, place[l]) - Spot(items, size, k + 1) \in lo .. hi
      BY <2>4
    <3>3. place[l] # 0
      BY <1>8
    <3> HIDE DEF y, l
    <3>4. offset[l] - (newpc + GKept(items)[k]) \in lo .. hi
      BY <1>1, <1>2, <1>6, <2>4, <3>1, <3>2, <3>3, TransferDistance
    <3> QED
      BY <3>4
  <2> HIDE DEF x, y
  <2>5. items[k].form = "byte" => x + 2 \in -128 .. 127
    <3> DEFINE lo == -130
               hi == 125
    <3>1. lo \in Int /\ hi \in Int /\ lo <= 0 /\ 0 <= hi
      OBVIOUS
    <3>2. items[k].form = "byte" => y \in lo .. hi
      BY <2>3
    <3>3. ASSUME x \in lo .. hi
          PROVE  x + 2 \in -128 .. 127
      BY <3>3
    <3> HIDE DEF lo, hi
    <3> QED
      BY <2>4, <3>1, <3>2, <3>3
  <2>6. items[k].form = "short" => x \in G!MinShort - 2 .. G!MaxShort - 2
    BY <1>5, <2>3, <2>4
  <2>7. items[k].form = "byte" => G!Operand(k) \in -128 .. 127
    <3> DEFINE range == -128 .. 127
    <3>1. items[k].form = "byte" => x + 2 \in range
      BY <2>5
    <3> HIDE DEF range
    <3>2. items[k].form = "byte" => G!Operand(k) \in range
      BY <2>2, <3>1
    <3> QED
      BY <3>2 DEF range
  <2>8. items[k].form = "short" => G!Operand(k) \in G!MinShort .. G!MaxShort
    BY <1>5, <2>2, <2>6
  <2> QED
    BY <2>7, <2>8
<1> QED
  BY <1>7, <1>8

(* Pass 3 at an instruction.                                               *)
LEMMA GEmits ==
  ASSUME GInv, G!Emit
  PROVE  GInv'
<1>1. /\ phase = "emit" /\ k <= Len(items) /\ phase' = phase /\ k' = k + 1
      /\ items' = items /\ size' = size /\ chain' = chain /\ place' = place
      /\ offset' = offset
  BY DEF G!Emit, G!routine
<1>2. GFound /\ Transferring(items, size, GKept(items), place, offset, k, newpc)
  BY <1>1, GFinds DEF GInv
<1>3. items \in Seq(GItem) /\ Len(items) \in Nat
  BY <1>2, GBasics DEF GFound
<1>4. k \in 1 .. Len(items)
  BY <1>1, <1>2, <1>3 DEF Transferring
<1>5. newpc \in Nat
  <2>1. PICK T : Laid(items, size, T, Len(items) + 1, GKept(items)) /\ newpc = T[k]
    BY <1>2 DEF Transferring
  <2>2. T \in [1 .. Len(items) + 1 -> Nat] /\ k \in 1 .. Len(items) + 1
    BY <1>3, <1>4, <2>1 DEF Laid
  <2> QED
    BY <2>1, <2>2
<1>6. newpc' = newpc + GKept(items)[k]
  <2>1. CASE items[k].form = "deleted"
    <3>1. newpc' = newpc
      BY <2>1 DEF G!Emit
    <3>2. GKept(items)[k] = 0
      BY <1>4, <2>1 DEF GKept
    <3> QED
      BY <1>5, <3>1, <3>2
  <2>2. CASE items[k].form # "deleted"
    <3>1. newpc' = newpc + G!Kept(k)
      BY <2>2 DEF G!Emit
    <3>2. G!Kept(k) = GKept(items)[k]
      BY <1>4 DEF G!Kept, GKept
    <3> QED
      BY <3>1, <3>2
  <2> QED
    BY <2>1, <2>2
<1>7. errors' \subseteq {"unreachable"}
  <2>1. ~ G!OutOfRange(k)
    BY <1>1, <1>4, GInRange
  <2>2. \/ errors' = errors
        \/ errors' = errors \cup (IF G!Unplaced(k) THEN {"unreachable"} ELSE {}) \cup {}
    BY <2>1 DEF G!Emit
  <2>3. errors \subseteq {"unreachable"}
    BY <1>2 DEF GFound
  <2> QED
    BY <2>2, <2>3
<1>8. Transferring(items, size, GKept(items), place, offset, k + 1, newpc + GKept(items)[k])
  BY <1>1, <1>2, <1>3, TransferStep
<1>9. Transferring(items, size, GKept(items), place, offset, k, newpc)'
  BY <1>1, <1>6, <1>8
<1>10. GHeld' /\ GDecided'
  BY <1>1, <1>2 DEF GFound, GHeld, GDecided
<1> QED
  BY <1>1, <1>7, <1>9, <1>10 DEF GInv

(* The end of pass 3.                                                      *)
LEMMA GEnds ==
  ASSUME GInv, G!EndEmit
  PROVE  GInv'
<1>1. /\ phase = "emit" /\ k > Len(items) /\ phase' = "done"
      /\ items' = items /\ size' = size /\ chain' = chain /\ place' = place
      /\ offset' = offset
      /\ errors' = IF newpc > size THEN errors \cup {"grown"} ELSE errors
  BY DEF G!EndEmit, G!routine
<1>2. GFound /\ Transferring(items, size, GKept(items), place, offset, k, newpc)
  BY <1>1, GFinds DEF GInv
<1>3. /\ items \in Seq(GItem) /\ Len(items) \in Nat /\ size \in Nat
      /\ Straight(items, size, GLong(items))
  BY <1>2, GBasics DEF GFound
<1>4. newpc <= size
  BY <1>1, <1>2, <1>3, TransferEnds
<1>5. newpc \in Nat
  <2>1. PICK T : Laid(items, size, T, Len(items) + 1, GKept(items)) /\ newpc = T[k]
    BY <1>2 DEF Transferring
  <2>2. T \in [1 .. Len(items) + 1 -> Nat] /\ k \in 1 .. Len(items) + 1
    BY <1>2, <1>3, <2>1 DEF Laid, Transferring
  <2> QED
    BY <2>1, <2>2
<1>6. errors' \subseteq {"unreachable"}
  <2>1. ~ (newpc > size)
    BY <1>3, <1>4, <1>5
  <2> QED
    BY <1>1, <1>2, <2>1 DEF GFound
<1>7. GHeld' /\ GDecided'
  BY <1>1, <1>2 DEF GFound, GHeld, GDecided
<1> QED
  BY <1>1, <1>6, <1>7 DEF GInv

(* The beginning.                                                          *)
LEMMA GBegins ==
  ASSUME Init
  PROVE  GInv
<1>1. /\ phase = "assemble" /\ items = <<>> /\ size = 0 /\ dead = FALSE
      /\ offset = [l \in Labels |-> -1] /\ place = [l \in Labels |-> 0] /\ chain = <<>>
      /\ k = 1 /\ label = 1 /\ newpc = 0 /\ errors = {}
  BY DEF Init
<1>2. items \in Seq(GItem) /\ Len(items) = 0 /\ chain \in Seq(Labels) /\ Len(chain) = 0
  BY <1>1
<1>3. \A i : Spot(items, size, i) = 0
  BY <1>1, <1>2 DEF Spot
<1>4. GLong(items) \in [1 .. Len(items) -> Nat \ {0}]
  BY <1>2 DEF GLong
<1>5. Straight(items, size, GLong(items))
  BY <1>1, <1>2, <1>3, <1>4 DEF Straight
<1>6. Placing(Len(items), place, offset, chain)
  BY <1>1, <1>2 DEF Placing
<1>7. Unmoved(items, size, place, offset)
  BY <1>1 DEF Unmoved
<1>8. GHeld
  BY <1>2, <1>5, <1>6 DEF GHeld
<1> QED
  BY <1>1, <1>2, <1>7, <1>8 DEF GInv

(* A step of the Glulx passes.                                             *)
LEMMA GStep ==
  ASSUME GInv, G!Next
  PROVE  GInv'
<1>1. CASE G!AssembleInstruction
  <2>1. phase' = phase
    BY <1>1 DEF G!AssembleInstruction
  <2>2. PICK op \in GOps :
          \/ op = "plain" /\ \E n \in GLengths : G!Assemble(op, n, G!NoLabel)
          \/ op \in G!Transfers /\ \E l \in Labels : G!Assemble(op, 0, l)
          \/ op = "return" /\ G!Assemble(op, 0, G!NoLabel)
    BY <1>1 DEF G!AssembleInstruction
  <2>3. op \in G!AllOps
    BY GlulxBoundsAssumption DEF G!AllOps
  <2>4. GLengths \subseteq Nat \ {0}
    BY GlulxBoundsAssumption
  <2>5. CASE op = "plain" /\ \E n \in GLengths : G!Assemble(op, n, G!NoLabel)
    <3>1. PICK n \in GLengths : G!Assemble(op, n, G!NoLabel)
      BY <2>5
    <3>2. n \in Nat /\ n # 0 /\ op \notin G!Transfers
      BY <2>4, <2>5 DEF G!Transfers
    <3>3. phase' = "assemble"
      BY <2>1, <3>1 DEF G!Assemble
    <3> QED
      BY <2>3, <3>1, <3>2, <3>3, GAssembles
  <2>6. CASE op \in G!Transfers /\ \E l \in Labels : G!Assemble(op, 0, l)
    <3>1. PICK l \in Labels : G!Assemble(op, 0, l)
      BY <2>6
    <3>2. op # "plain"
      BY <2>6 DEF G!Transfers
    <3>3. phase' = "assemble"
      BY <2>1, <3>1 DEF G!Assemble
    <3> QED
      BY <2>3, <3>1, <3>2, <3>3, GAssembles
  <2>7. CASE op = "return" /\ G!Assemble(op, 0, G!NoLabel)
    <3>1. op # "plain" /\ op \notin G!Transfers
      BY <2>7 DEF G!Transfers
    <3>2. phase' = "assemble"
      BY <2>1, <2>7 DEF G!Assemble
    <3> QED
      BY <2>3, <2>7, <3>1, <3>2, GAssembles
  <2> QED
    BY <2>2, <2>5, <2>6, <2>7
<1>2. CASE \E l \in Labels : G!AssembleLabel(l)
  BY <1>2, GLabels
<1>3. CASE G!AssembleRoutineEnd
  BY <1>3, GRoutineEnds
<1>4. CASE G!Decide
  BY <1>4, GDecides
<1>5. CASE G!EndDecide \/ G!EndRelocate
  BY <1>5, GNextPass
<1>6. CASE G!Relocate
  BY <1>6, GRelocates
<1>7. CASE G!Emit
  BY <1>7, GEmits
<1>8. CASE G!EndEmit
  BY <1>8, GEnds
<1> QED
  BY <1>1, <1>2, <1>3, <1>4, <1>5, <1>6, <1>7, <1>8 DEF G!Next

---------------------------------------------------------------------------
(* Z-code: the invariant.                                                  *)

ZForms == {"long", "short", "rtrue", "rfalse", "replaced", "deleted"}

ZItem == [op : AllOps, was : AllOps, len : Nat, label : Labels \cup {NoLabel}, start : Nat,
          form : ZForms]

Branching == {"branch", "other", "jump"}

\* What assembly puts into an item, and what the passes make of it.
ZRight(r) ==
  /\ r.was = "plain" => r.len # 0
  /\ r.was \in Branching => r.label \in Labels
  /\ r.form \notin {"replaced", "deleted"} => r.op = r.was
  /\ r.form \in {"short", "rtrue", "rfalse"} => r.was \in {"branch", "other"}
  /\ r.form = "replaced" => r.was = "jump" /\ r.op \in Return1

\* The lengths as assembled, and of what is kept.
ZLong(it) == [i \in 1 .. Len(it) |-> Size(it[i].was, it[i].len)]

ZLength(r) ==
  CASE r.form = "long"                         -> Size(r.op, r.len)
    [] r.form \in {"short", "rtrue", "rfalse"} -> HeadSize + 1
    [] r.form = "replaced"                     -> 1
    [] r.form = "deleted"                      -> 0

ZKept(it) == [i \in 1 .. Len(it) |-> ZLength(it[i])]

\* A short branch goes to a label that is placed, and no further than it may.
ZFits(it, sz, p, i) ==
  it[i].form = "short" =>
    p[it[i].label] # 0 /\ Spot(it, sz, p[it[i].label]) - Spot(it, sz, i + 1) \in 0 .. 61

\* The instructions that use label l, by the book of labeluse[].
Uses(it, l) ==
  {i \in 1 .. Len(it) : it[i].label = l /\ it[i].form \notin {"rtrue", "rfalse", "replaced"}}

Counted(it, u) == u \in [Labels -> Nat] /\ \A l \in Labels : u[l] = Cardinality(Uses(it, l))

ZHeld ==
  /\ items \in Seq(ZItem) /\ \A i \in 1 .. Len(items) : ZRight(items[i])
  /\ Straight(items, size, ZLong(items))
  /\ Placing(Len(items), place, offset, chain)

ZDecided == Inside(items, place) /\ \A i \in 1 .. Len(items) : ZFits(items, size, place, i)

ZInv ==
  /\ ZHeld
  /\ phase \in {"assemble", "decide", "clean", "relocate", "emit", "done"}
  /\ "internal" \notin errors
  /\ phase = "assemble" =>
       /\ k = 1 /\ label = 1 /\ newpc = 0
       /\ \A i \in 1 .. Len(items) : items[i].form = "long"
       /\ dead => Inside(items, place)
  /\ phase # "assemble" => ZDecided
  /\ phase \in {"assemble", "decide", "clean"} => Unmoved(items, size, place, offset)
  /\ phase \in {"assemble", "decide"} => Counted(items, use)
  /\ phase = "decide" =>
       k \in 1 .. Len(items) + 1 /\ \A i \in k .. Len(items) : items[i].form = "long"
  /\ phase = "relocate" =>
       Relocating(items, size, ZKept(items), place, offset, chain, k, label, newpc)
  /\ phase = "emit" => Transferring(items, size, ZKept(items), place, offset, k, newpc)

---------------------------------------------------------------------------
(* Z-code: the lengths of instructions, their forms and the uses of labels.*)

(* No form of an instruction is longer than the one assembled.             *)
LEMMA ZLengthsHold ==
  ASSUME NEW it \in Seq(ZItem), \A i \in 1 .. Len(it) : ZRight(it[i])
  PROVE  /\ ZLong(it) \in [1 .. Len(it) -> Nat \ {0}] /\ ZKept(it) \in [1 .. Len(it) -> Nat]
         /\ \A i \in 1 .. Len(it) : ZKept(it)[i] <= ZLong(it)[i]
         /\ \A i \in 1 .. Len(it) : it[i].was \in {"branch", "other"} =>
              ZLong(it)[i] = HeadSize + 2
<1>1. ASSUME NEW i \in 1 .. Len(it)
      PROVE  /\ Size(it[i].was, it[i].len) \in Nat \ {0}
             /\ ZLength(it[i]) \in Nat /\ ZLength(it[i]) <= Size(it[i].was, it[i].len)
             /\ it[i].was \in {"branch", "other"} => Size(it[i].was, it[i].len) = HeadSize + 2
  <2>1. it[i] \in ZItem /\ ZRight(it[i])
    OBVIOUS
  <2>2. /\ it[i].was \in {"plain", "branch", "other", "jump", "rtrue", "rfalse", "ret_popped", "ret"}
        /\ it[i].len \in Nat /\ it[i].form \in ZForms
    BY <2>1 DEF ZItem, AllOps
  <2>3. /\ it[i].was = "plain" => Size(it[i].was, it[i].len) = it[i].len
        /\ it[i].was \in {"branch", "other"} => Size(it[i].was, it[i].len) = 4
        /\ it[i].was = "jump" => Size(it[i].was, it[i].len) = 3
        /\ it[i].was = "ret" => Size(it[i].was, it[i].len) = 2
        /\ it[i].was \in Return1 => Size(it[i].was, it[i].len) = 1
    BY DEF Size, HeadSize, Return1
  <2>4. Size(it[i].was, it[i].len) \in Nat \ {0}
    BY <2>1, <2>2, <2>3 DEF ZRight, Return1
  <2>5. /\ it[i].form = "long" => ZLength(it[i]) = Size(it[i].was, it[i].len)
        /\ it[i].form \in {"short", "rtrue", "rfalse"} => ZLength(it[i]) = 3
        /\ it[i].form = "replaced" => ZLength(it[i]) = 1
        /\ it[i].form = "deleted" => ZLength(it[i]) = 0
    BY <2>1 DEF ZLength, HeadSize, ZRight
  <2>6. ZLength(it[i]) \in Nat /\ ZLength(it[i]) <= Size(it[i].was, it[i].len)
    BY <2>1, <2>2, <2>3, <2>4, <2>5 DEF ZForms, ZRight
  <2> QED
    BY <2>3, <2>4, <2>6 DEF HeadSize
<1> QED
  BY <1>1 DEF ZLong, ZKept

WithForm(it, m, f) == [it EXCEPT ![m].form = f]

(* An item of Z-code gets another form.                                    *)
LEMMA ZSetForm ==
  ASSUME NEW it \in Seq(ZItem), NEW m, NEW f \in ZForms
  PROVE  LET jt == WithForm(it, m, f)
         IN  /\ jt \in Seq(ZItem) /\ Len(jt) = Len(it)
             /\ \A i \in 1 .. Len(it) :
                  /\ jt[i].op = it[i].op /\ jt[i].was = it[i].was /\ jt[i].len = it[i].len
                  /\ jt[i].label = it[i].label /\ jt[i].start = it[i].start
                  /\ jt[i].form = IF i = m THEN f ELSE it[i].form
<1> DEFINE r == [it[m] EXCEPT !.form = f]
           jt == [it EXCEPT ![m] = r]
<1>0. WithForm(it, m, f) = jt
  BY DEF WithForm
<1>1. CASE m \in 1 .. Len(it)
  <2>1. it[m] \in ZItem
    BY <1>1
  <2>2. /\ r \in ZItem /\ r.op = it[m].op /\ r.was = it[m].was /\ r.len = it[m].len
        /\ r.label = it[m].label /\ r.start = it[m].start /\ r.form = f
    BY <2>1 DEF ZItem
  <2> HIDE DEF r
  <2>3. /\ jt \in Seq(ZItem) /\ Len(jt) = Len(it)
        /\ \A i \in 1 .. Len(it) : jt[i] = IF i = m THEN r ELSE it[i]
    BY <1>1, <2>2
  <2> HIDE DEF jt
  <2>4. \A i \in 1 .. Len(it) :
          /\ jt[i].op = it[i].op /\ jt[i].was = it[i].was /\ jt[i].len = it[i].len
          /\ jt[i].label = it[i].label /\ jt[i].start = it[i].start
          /\ jt[i].form = IF i = m THEN f ELSE it[i].form
    BY <2>2, <2>3
  <2> QED
    BY <1>0, <2>3, <2>4 DEF jt, r
<1>2. CASE m \notin 1 .. Len(it)
  <2>1. jt = it
    <3>1. it \in [1 .. Len(it) -> ZItem]
      OBVIOUS
    <3> HIDE DEF r
    <3> QED
      BY <1>2, <3>1
  <2> HIDE DEF r
  <2>2. \A i \in 1 .. Len(it) : i # m
    BY <1>2
  <2> HIDE DEF jt
  <2>3. /\ jt \in Seq(ZItem) /\ Len(jt) = Len(it)
        /\ \A i \in 1 .. Len(it) :
             /\ jt[i].op = it[i].op /\ jt[i].was = it[i].was /\ jt[i].len = it[i].len
             /\ jt[i].label = it[i].label /\ jt[i].start = it[i].start
             /\ jt[i].form = IF i = m THEN f ELSE it[i].form
    BY <2>1, <2>2
  <2> QED
    BY <1>0, <2>3 DEF jt, r
<1> QED
  BY <1>1, <1>2

(* The number of a label's uses is one; an instruction less is one less.   *)
LEMMA UsesCount ==
  ASSUME NEW it \in Seq(ZItem), NEW l
  PROVE  /\ Cardinality(Uses(it, l)) \in Nat
         /\ \A i \in Uses(it, l) :
              /\ Cardinality(Uses(it, l)) # 0
              /\ Cardinality(Uses(it, l) \ {i}) = Cardinality(Uses(it, l)) - 1
         /\ \A i : i \notin Uses(it, l) =>
              Cardinality(Uses(it, l) \cup {i}) = Cardinality(Uses(it, l)) + 1
<1> DEFINE n == Len(it)
           S == Uses(it, l)
<1>1. n \in Nat /\ S \subseteq 1 .. n
  BY DEF Uses
<1> HIDE DEF n, S
<1>2. IsFiniteSet(1 .. n)
  BY <1>1, FS_Interval
<1>3. IsFiniteSet(S)
  BY <1>1, <1>2, FS_Subset
<1>4. Cardinality(S) \in Nat
  BY <1>3, FS_CardinalityType
<1>5. \A i \in S : Cardinality(S \ {i}) = Cardinality(S) - 1 /\ IsFiniteSet(S \ {i})
  BY <1>3, FS_RemoveElement
<1>6. \A i \in S : Cardinality(S) # 0
  BY <1>3, FS_EmptySet
<1>7. \A i : i \notin S => Cardinality(S \cup {i}) = Cardinality(S) + 1
  BY <1>3, FS_AddElement
<1> QED
  BY <1>4, <1>5, <1>6, <1>7 DEF S

(* The uses depend on the labels and the forms.                            *)
LEMMA UsesSame ==
  ASSUME NEW it, NEW jt, Len(jt) = Len(it),
         \A i \in 1 .. Len(it) :
           /\ jt[i].label = it[i].label
           /\ jt[i].form \in {"rtrue", "rfalse", "replaced"}
                <=> it[i].form \in {"rtrue", "rfalse", "replaced"}
  PROVE  \A l : Uses(jt, l) = Uses(it, l)
BY DEF Uses

(* A branch made a return uses its label no more.                          *)
LEMMA UsesLess ==
  ASSUME NEW it, NEW jt, Len(jt) = Len(it), NEW m \in 1 .. Len(it),
         \A i \in 1 .. Len(it) : jt[i].label = it[i].label /\ (i # m => jt[i].form = it[i].form),
         jt[m].form \in {"rtrue", "rfalse", "replaced"}
  PROVE  \A l : Uses(jt, l) = Uses(it, l) \ {m}
BY DEF Uses

---------------------------------------------------------------------------
(* Z-code: every step keeps the invariant.                                 *)

(* What the Z-code invariant says of the code, in parts.                   *)
LEMMA ZBasics ==
  ASSUME ZHeld
  PROVE  /\ items \in Seq(ZItem) /\ Len(items) \in Nat /\ size \in Nat
         /\ \A i \in 1 .. Len(items) : ZRight(items[i])
         /\ Straight(items, size, ZLong(items)) /\ Placing(Len(items), place, offset, chain)
<1>1. items \in Seq(ZItem)
  BY DEF ZHeld
<1>2. Len(items) \in Nat
  BY <1>1
<1>3. Straight(items, size, ZLong(items)) /\ \A i \in 1 .. Len(items) : ZRight(items[i])
  BY DEF ZHeld
<1>4. size \in Nat
  BY <1>3 DEF Straight
<1>5. Placing(Len(items), place, offset, chain)
  BY DEF ZHeld
<1> QED
  BY <1>1, <1>2, <1>3, <1>4, <1>5

(* Assembly of an instruction.                                             *)
LEMMA ZAssembles ==
  ASSUME ZInv, NEW op \in AllOps, NEW n \in Nat, NEW l \in Labels \cup {NoLabel},
         op = "plain" => n # 0, op \in Branching => l \in Labels,
         Assemble(op, n, l), phase' \in {"assemble", "decide"}
  PROVE  ZInv'
<1> DEFINE r == Item(op, n, l)
           d == Size(op, n)
           jt == Append(items, r)
           N == Len(items)
<1>1. /\ phase = "assemble" /\ ~dead /\ items' = jt /\ size' = size + d
      /\ dead' = EndsFlow(op) /\ offset' = offset /\ chain' = chain /\ place' = place
      /\ k' = k /\ label' = label /\ newpc' = newpc /\ errors' = errors
      /\ use' = IF l = NoLabel THEN use ELSE [use EXCEPT ![l] = @ + 1]
  BY DEF Assemble
<1>2. /\ items \in Seq(ZItem) /\ (\A i \in 1 .. N : ZRight(items[i]))
      /\ Straight(items, size, ZLong(items)) /\ Placing(N, place, offset, chain)
      /\ Unmoved(items, size, place, offset) /\ size \in Nat /\ N \in Nat
      /\ k = 1 /\ label = 1 /\ newpc = 0 /\ "internal" \notin errors
      /\ \A i \in 1 .. N : items[i].form = "long"
      /\ Counted(items, use)
  BY <1>1, ZBasics DEF ZInv
<1>3. /\ r \in ZItem /\ ZRight(r) /\ r.start = size /\ r.form = "long" /\ r.was = op
      /\ r.len = n /\ r.label = l
  BY <1>2 DEF ZItem, ZRight, ZForms, Item
<1> HIDE DEF r
<1>4. /\ jt \in Seq(ZItem) /\ Len(jt) = N + 1 /\ jt[N + 1] = r
      /\ \A i \in 1 .. N : jt[i] = items[i]
  BY <1>2, <1>3
<1> HIDE DEF jt
<1>5. \A i \in 1 .. N + 1 : ZRight(jt[i]) /\ jt[i].form = "long"
  BY <1>2, <1>3, <1>4
<1>6. ZLong(jt) \in [1 .. N + 1 -> Nat \ {0}] /\ ZLong(jt)[N + 1] = d
  <2>1. ZLong(jt) \in [1 .. Len(jt) -> Nat \ {0}]
    BY <1>4, <1>5, ZLengthsHold
  <2>2. N + 1 \in 1 .. Len(jt)
    BY <1>2, <1>4
  <2> QED
    BY <1>3, <1>4, <2>1, <2>2 DEF ZLong
<1>7. d \in Nat \ {0}
  BY <1>2, <1>6
<1> HIDE DEF d
<1> DEFINE new == [i \in 1 .. N + 1 |-> IF i = N + 1 THEN d ELSE ZLong(items)[i]]
<1>8. ZLong(jt) = new
  <2>1. \A i \in 1 .. N : ZLong(jt)[i] = ZLong(items)[i]
    BY <1>2, <1>4 DEF ZLong
  <2>2. \A i \in 1 .. N + 1 : ZLong(jt)[i] = new[i]
    BY <1>2, <1>6, <2>1
  <2> QED
    BY <1>6, <2>2
<1>9. Straight(jt, size + d, new) /\ \A i \in 1 .. N + 1 : Spot(jt, size + d, i) = Spot(items, size, i)
  <2>1. /\ items \in Seq(ZItem) /\ Straight(items, size, ZLong(items))
        /\ r \in ZItem /\ r.start = size /\ d \in Nat \ {0}
    BY <1>2, <1>3, <1>7
  <2> QED
    BY ONLY <2>1, Lengthens DEF jt
<1>10. Placing(N + 1, place, offset, chain)
  BY <1>2, PlacingMore
<1>11. Unmoved(jt, size + d, place, offset)
  <2>1. \A h \in Labels : place[h] # 0 => place[h] \in 1 .. N + 1
    BY <1>2 DEF Placing
  <2> QED
    BY <1>2, <1>9, <2>1 DEF Unmoved
<1>12. Inside(jt, place)
  BY <1>2, <1>4 DEF Placing, Inside
<1>13. ZHeld'
  <2>1. Straight(jt, size + d, ZLong(jt))
    BY <1>8, <1>9
  <2> QED
    BY <1>1, <1>4, <1>5, <1>10, <2>1 DEF ZHeld
<1>14. \A i \in 1 .. N + 1 : ZFits(jt, size + d, place, i)
  BY <1>5 DEF ZFits
<1>15. ZDecided'
  BY <1>1, <1>4, <1>12, <1>14 DEF ZDecided
<1>16. Counted(jt, use')
  <2>1. /\ use \in [Labels -> Nat] /\ \A h \in Labels : use[h] = Cardinality(Uses(items, h))
    BY <1>2 DEF Counted
  <2>2. NoLabel \notin Labels
    BY BoundsAssumption DEF NoLabel
  <2>3. \A h \in Labels : use'[h] = IF h = l THEN use[h] + 1 ELSE use[h]
    BY <1>1, <2>1, <2>2
  <2>4. use' \in [Labels -> Nat]
    BY <1>1, <2>1
  <2>5. \A h \in Labels : h # l => Uses(jt, h) = Uses(items, h)
    BY <1>2, <1>3, <1>4 DEF Uses
  <2>6. Uses(jt, l) = Uses(items, l) \cup {N + 1}
    BY <1>2, <1>3, <1>4 DEF Uses
  <2>7. N + 1 \notin Uses(items, l)
    BY <1>2 DEF Uses
  <2>8. Cardinality(Uses(jt, l)) = Cardinality(Uses(items, l)) + 1
    BY <1>2, <2>6, <2>7, UsesCount
  <2> QED
    BY <2>1, <2>3, <2>4, <2>5, <2>8 DEF Counted
<1>17. k' = 1 /\ label' = 1 /\ newpc' = 0 /\ "internal" \notin errors'
  BY <1>1, <1>2
<1>18. k' \in 1 .. Len(items') + 1
  BY <1>1, <1>2, <1>4, <1>17
<1>19. /\ Unmoved(items, size, place, offset)' /\ Inside(items, place)'
       /\ (\A i \in 1 .. Len(items) : items[i].form = "long")' /\ Counted(items, use)'
  BY <1>1, <1>4, <1>5, <1>11, <1>12, <1>16
<1>20. (\A i \in k .. Len(items) : items[i].form = "long")'
  BY <1>17, <1>19
<1> QED
  BY <1>13, <1>15, <1>17, <1>18, <1>19, <1>20 DEF ZInv

(* Placement of a label.                                                   *)
LEMMA ZLabels ==
  ASSUME ZInv, NEW l \in Labels, AssembleLabel(l)
  PROVE  ZInv'
<1> DEFINE N == Len(items)
<1>1. /\ phase = "assemble" /\ phase' = phase /\ offset[l] = -1
      /\ offset' = [offset EXCEPT ![l] = size] /\ chain' = Append(chain, l)
      /\ place' = [place EXCEPT ![l] = N + 1] /\ dead' = FALSE
      /\ items' = items /\ size' = size /\ k' = k /\ label' = label /\ newpc' = newpc
      /\ errors' = errors /\ use' = use
  BY DEF AssembleLabel
<1>2. /\ items \in Seq(ZItem) /\ (\A i \in 1 .. N : ZRight(items[i]))
      /\ Straight(items, size, ZLong(items)) /\ Placing(N, place, offset, chain)
      /\ Unmoved(items, size, place, offset) /\ size \in Nat /\ N \in Nat
      /\ k = 1 /\ label = 1 /\ newpc = 0 /\ "internal" \notin errors
      /\ \A i \in 1 .. N : items[i].form = "long"
      /\ Counted(items, use)
  BY <1>1, ZBasics DEF ZInv
<1>3. Placing(N, place', offset', chain')
  BY <1>1, <1>2, PlacingLabel
<1>4. Unmoved(items, size, place', offset')
  <2>1. Spot(items, size, N + 1) = size
    BY <1>2 DEF Spot
  <2>2. offset \in [Labels -> Nat \cup {-1}] /\ place \in [Labels -> 0 .. N + 1]
    BY <1>2 DEF Placing
  <2>3. \A h \in Labels : /\ place'[h] = IF h = l THEN N + 1 ELSE place[h]
                          /\ offset'[h] = IF h = l THEN size ELSE offset[h]
    BY <1>1, <2>2
  <2> QED
    BY <1>2, <2>1, <2>3 DEF Unmoved
<1>5. ZHeld'
  BY <1>1, <1>2, <1>3 DEF ZHeld
<1>6. Unmoved(items, size, place, offset)'
  BY <1>1, <1>4
<1> QED
  BY <1>1, <1>2, <1>5, <1>6 DEF ZInv

(* The end of the routine.                                                 *)
LEMMA ZRoutineEnds ==
  ASSUME ZInv, AssembleRoutineEnd
  PROVE  ZInv'
<1>1. CASE Assemble("rtrue", 0, NoLabel) /\ phase' = "decide"
  <2>1. "rtrue" \in AllOps /\ "rtrue" \notin Branching /\ "rtrue" # "plain"
    BY DEF AllOps, Branching
  <2> QED
    BY <1>1, <2>1, ZAssembles
<1>2. CASE /\ phase = "assemble" /\ dead /\ phase' = "decide"
           /\ UNCHANGED <<routine, labels, chain, k, label, newpc, out, errors>>
  <2>1. /\ items' = items /\ size' = size /\ chain' = chain /\ place' = place /\ use' = use
        /\ offset' = offset /\ k' = k /\ label' = label /\ newpc' = newpc /\ errors' = errors
    BY <1>2 DEF routine, labels
  <2>2. ZHeld'
    BY <2>1 DEF ZInv, ZHeld
  <2>3. /\ k = 1 /\ Unmoved(items, size, place, offset) /\ Inside(items, place)
        /\ Counted(items, use)
        /\ \A i \in 1 .. Len(items) : items[i].form = "long"
    BY <1>2 DEF ZInv
  <2>4. \A i \in 1 .. Len(items) : ZFits(items, size, place, i)
    BY <2>3 DEF ZFits
  <2>5. ZDecided'
    BY <2>1, <2>3, <2>4 DEF ZDecided
  <2>6. k' \in 1 .. Len(items') + 1
    <3>1. Len(items) \in Nat
      BY ZBasics DEF ZInv
    <3> QED
      BY <2>1, <2>3, <3>1
  <2>7. /\ "internal" \notin errors' /\ Unmoved(items, size, place, offset)'
        /\ Counted(items, use)' /\ (\A i \in k .. Len(items) : items[i].form = "long")'
    BY <2>1, <2>3 DEF ZInv
  <2> QED
    BY <1>2, <2>2, <2>5, <2>6, <2>7 DEF ZInv
<1> QED
  BY <1>1, <1>2 DEF AssembleRoutineEnd

\* Instruction m of the code it has become another in jt.
Changed(it, jt, m) ==
  /\ jt \in Seq(ZItem) /\ Len(jt) = Len(it)
  /\ \A i \in 1 .. Len(it) :
       /\ jt[i].was = it[i].was /\ jt[i].len = it[i].len
       /\ jt[i].label = it[i].label /\ jt[i].start = it[i].start
       /\ i # m => jt[i].op = it[i].op /\ jt[i].form = it[i].form

(* A change of one instruction leaves the layout, the labels and the other *)
(* decisions as they are.                                                  *)
LEMMA ZChanges ==
  ASSUME ZHeld, ZDecided, NEW jt, NEW m, Changed(items, jt, m),
         m \in 1 .. Len(items) => ZRight(jt[m]),
         m \in 1 .. Len(items) /\ jt[m].form = "short" =>
           /\ place[items[m].label] # 0
           /\ Spot(items, size, place[items[m].label]) - Spot(items, size, m + 1) \in 0 .. 61
  PROVE  /\ jt \in Seq(ZItem) /\ Len(jt) = Len(items)
         /\ \A i \in 1 .. Len(jt) : ZRight(jt[i]) /\ ZFits(jt, size, place, i)
         /\ Straight(jt, size, ZLong(jt)) /\ Placing(Len(jt), place, offset, chain)
         /\ Inside(jt, place)
         /\ Unmoved(items, size, place, offset) => Unmoved(jt, size, place, offset)
<1>1. /\ items \in Seq(ZItem) /\ Len(items) \in Nat /\ size \in Nat
      /\ (\A i \in 1 .. Len(items) : ZRight(items[i]))
      /\ Straight(items, size, ZLong(items)) /\ Placing(Len(items), place, offset, chain)
  BY ZBasics
<1>2. jt \in Seq(ZItem) /\ Len(jt) = Len(items)
  BY DEF Changed
<1>3. \A i \in 1 .. Len(items) : jt[i].start = items[i].start
  BY DEF Changed
<1>4. /\ \A i : Spot(jt, size, i) = Spot(items, size, i)
      /\ \A old : Straight(items, size, old) => Straight(jt, size, old)
      /\ \A p, o : Unmoved(items, size, p, o) => Unmoved(jt, size, p, o)
      /\ \A p : Inside(items, p) => Inside(jt, p)
  BY ONLY <1>1, <1>2, <1>3, SameLayout
<1>5. ZLong(jt) = ZLong(items)
  BY <1>2 DEF ZLong, Changed
<1>6. ASSUME NEW i \in 1 .. Len(jt)
      PROVE  ZRight(jt[i]) /\ ZFits(jt, size, place, i)
  <2>1. /\ jt[i].was = items[i].was /\ jt[i].len = items[i].len
        /\ jt[i].label = items[i].label
        /\ i # m => jt[i].op = items[i].op /\ jt[i].form = items[i].form
    BY <1>2 DEF Changed
  <2>2. Spot(jt, size, place[jt[i].label]) = Spot(items, size, place[items[i].label])
        /\ Spot(jt, size, i + 1) = Spot(items, size, i + 1)
    BY <1>4, <2>1
  <2>3. CASE i = m
    BY <1>2, <2>1, <2>2, <2>3 DEF ZFits
  <2>4. CASE i # m
    <3>1. ZRight(items[i]) /\ ZFits(items, size, place, i)
      BY <1>1, <1>2 DEF ZDecided
    <3>2. ZRight(jt[i])
      BY <2>1, <2>4, <3>1 DEF ZRight
    <3>3. ZFits(jt, size, place, i)
      BY <2>1, <2>2, <2>4, <3>1 DEF ZFits
    <3> QED
      BY <3>2, <3>3
  <2> QED
    BY <2>3, <2>4
<1>7. Straight(jt, size, ZLong(jt))
  BY <1>1, <1>4, <1>5
<1>8. Inside(jt, place)
  BY <1>4 DEF ZDecided
<1>9. Placing(Len(jt), place, offset, chain)
  BY <1>1, <1>2
<1> QED
  BY <1>2, <1>4, <1>6, <1>7, <1>8, <1>9

(* Pass 1 goes on with one instruction changed.                            *)
LEMMA ZGoesOn ==
  ASSUME ZInv, phase = "decide", k \in 1 .. Len(items), Changed(items, items', k),
         ZRight(items'[k]),
         items'[k].form = "short" =>
           /\ place[items[k].label] # 0
           /\ Spot(items, size, place[items[k].label]) - Spot(items, size, k + 1) \in 0 .. 61,
         Counted(items', use'), "internal" \notin errors', k' = k + 1, phase' = phase,
         size' = size, offset' = offset, chain' = chain, place' = place
  PROVE  ZInv'
<1>1. ZHeld /\ ZDecided /\ Unmoved(items, size, place, offset) /\ Len(items) \in Nat
      /\ \A i \in k .. Len(items) : items[i].form = "long"
  BY ZBasics DEF ZInv
<1>2. /\ items' \in Seq(ZItem) /\ Len(items') = Len(items)
      /\ \A i \in 1 .. Len(items') : ZRight(items'[i]) /\ ZFits(items', size, place, i)
      /\ Straight(items', size, ZLong(items')) /\ Placing(Len(items'), place, offset, chain)
      /\ Inside(items', place) /\ Unmoved(items', size, place, offset)
  <2> DEFINE jt == items'
  <2>1. Changed(items, jt, k) /\ ZRight(jt[k])
    OBVIOUS
  <2>2. jt[k].form = "short" =>
          /\ place[items[k].label] # 0
          /\ Spot(items, size, place[items[k].label]) - Spot(items, size, k + 1) \in 0 .. 61
    OBVIOUS
  <2> HIDE DEF jt
  <2>3. /\ jt \in Seq(ZItem) /\ Len(jt) = Len(items)
        /\ \A i \in 1 .. Len(jt) : ZRight(jt[i]) /\ ZFits(jt, size, place, i)
        /\ Straight(jt, size, ZLong(jt)) /\ Placing(Len(jt), place, offset, chain)
        /\ Inside(jt, place)
        /\ Unmoved(items, size, place, offset) => Unmoved(jt, size, place, offset)
    BY <1>1, <2>1, <2>2, ZChanges
  <2> QED
    BY <1>1, <2>3 DEF jt
<1>3. ZHeld' /\ ZDecided' /\ Unmoved(items, size, place, offset)'
  BY <1>2 DEF ZHeld, ZDecided
<1>4. (\A i \in k .. Len(items) : items[i].form = "long")'
  <2>1. \A i \in k + 1 .. Len(items) : items'[i].form = "long"
    <3> TAKE i \in k + 1 .. Len(items)
    <3>1. i \in k .. Len(items) /\ i \in 1 .. Len(items) /\ i # k
      BY <1>1
    <3> QED
      BY <1>1, <3>1 DEF Changed
  <2> QED
    BY <1>2, <2>1
<1>5. k' \in 1 .. Len(items') + 1
  BY <1>1, <1>2
<1>6. Counted(items, use)'
  OBVIOUS
<1> QED
  BY <1>3, <1>4, <1>5, <1>6 DEF ZInv

(* Nothing is changed.                                                     *)
LEMMA ZKeeps ==
  ASSUME ZInv, phase = "decide", k \in 1 .. Len(items), Keep, k' = k + 1, phase' = phase,
         size' = size, offset' = offset, chain' = chain, place' = place
  PROVE  ZInv'
<1>1. items' = items /\ use' = use /\ errors' = errors
  BY DEF Keep
<1>2. items \in Seq(ZItem) /\ ZRight(items[k]) /\ items[k].form = "long"
  BY ZBasics DEF ZInv
<1>3. Changed(items, items', k)
  BY <1>1, <1>2 DEF Changed
<1>4. Counted(items', use') /\ "internal" \notin errors'
  BY <1>1 DEF ZInv
<1> QED
  BY <1>1, <1>2, <1>3, <1>4, ZGoesOn

(* A use of label l less.                                                  *)
LEMMA ZMarks ==
  ASSUME ZInv, phase = "decide", k \in 1 .. Len(items), items[k].op \in Branching,
         MarkUnused(items[k].label), Changed(items, items', k),
         items'[k].form \in {"rtrue", "rfalse", "replaced"}
  PROVE  Counted(items', use') /\ "internal" \notin errors'
<1> DEFINE l == items[k].label
           jt == items'
<1>1. items \in Seq(ZItem) /\ ZRight(items[k]) /\ items[k].form = "long" /\ Counted(items, use)
      /\ "internal" \notin errors
  BY ZBasics DEF ZInv
<1>2. l \in Labels
  BY <1>1 DEF ZRight
<1>3. k \in Uses(items, l)
  BY <1>1 DEF Uses
<1>4. use[l] = Cardinality(Uses(items, l)) /\ use[l] # 0 /\ use[l] \in Nat
      /\ Cardinality(Uses(items, l) \ {k}) = use[l] - 1
  BY <1>1, <1>2, <1>3, UsesCount DEF Counted
<1>5. use' = [use EXCEPT ![l] = @ - 1] /\ errors' = errors
  BY <1>4 DEF MarkUnused
<1>6. \A h : Uses(jt, h) = Uses(items, h) \ {k}
  <2>1. /\ Len(jt) = Len(items)
        /\ \A i \in 1 .. Len(items) :
             jt[i].label = items[i].label /\ (i # k => jt[i].form = items[i].form)
    BY DEF Changed
  <2>2. k \in 1 .. Len(items) /\ jt[k].form \in {"rtrue", "rfalse", "replaced"}
    OBVIOUS
  <2> HIDE DEF jt
  <2> QED
    BY ONLY <2>1, <2>2, UsesLess
<1>7. \A h : h # l => Uses(jt, h) = Uses(items, h)
  <2>1. \A h : h # l => k \notin Uses(items, h)
    BY DEF Uses
  <2> QED
    BY <1>6, <2>1
<1>8. use \in [Labels -> Nat] /\ \A h \in Labels : use[h] = Cardinality(Uses(items, h))
  BY <1>1 DEF Counted
<1>9. use' \in [Labels -> Nat] /\ \A h \in Labels : use'[h] = IF h = l THEN use[l] - 1 ELSE use[h]
  BY <1>2, <1>4, <1>5, <1>8
<1>10. \A h \in Labels : use'[h] = Cardinality(Uses(jt, h))
  BY <1>4, <1>6, <1>7, <1>8, <1>9
<1> QED
  BY <1>1, <1>5, <1>9, <1>10 DEF Counted

(* No use less.                                                            *)
LEMMA ZMarksNot ==
  ASSUME ZInv, phase = "decide", k \in 1 .. Len(items), use' = use, errors' = errors,
         Changed(items, items', k), items'[k].form \notin {"rtrue", "rfalse", "replaced"}
  PROVE  Counted(items', use') /\ "internal" \notin errors'
<1> DEFINE jt == items'
<1>1. items[k].form = "long" /\ Counted(items, use) /\ "internal" \notin errors
  BY DEF ZInv
<1>2. \A h : Uses(jt, h) = Uses(items, h)
  <2>1. Len(jt) = Len(items)
    BY DEF Changed
  <2>2. \A i \in 1 .. Len(items) :
          /\ jt[i].label = items[i].label
          /\ jt[i].form \in {"rtrue", "rfalse", "replaced"}
               <=> items[i].form \in {"rtrue", "rfalse", "replaced"}
    <3> TAKE i \in 1 .. Len(items)
    <3>1. jt[i].label = items[i].label /\ (i # k => jt[i].form = items[i].form)
      BY DEF Changed
    <3>2. CASE i = k
      BY <1>1, <3>1, <3>2
    <3> QED
      BY <3>1, <3>2
  <2> HIDE DEF jt
  <2> QED
    BY <2>1, <2>2, UsesSame
<1> QED
  BY <1>1, <1>2 DEF Counted

(* SetForm changes one instruction.                                        *)
LEMMA ZSets ==
  ASSUME ZInv, k \in 1 .. Len(items), NEW f \in ZForms, SetForm(f)
  PROVE  Changed(items, items', k) /\ items'[k].form = f /\ items'[k].op = items[k].op
<1> DEFINE jt == WithForm(items, k, f)
<1>1. items \in Seq(ZItem) /\ items' = jt
  BY ZBasics DEF ZInv, SetForm, WithForm
<1>2. /\ jt \in Seq(ZItem) /\ Len(jt) = Len(items)
      /\ \A i \in 1 .. Len(items) :
           /\ jt[i].op = items[i].op /\ jt[i].was = items[i].was /\ jt[i].len = items[i].len
           /\ jt[i].label = items[i].label /\ jt[i].start = items[i].start
           /\ jt[i].form = IF i = k THEN f ELSE items[i].form
  BY <1>1, ZSetForm
<1> HIDE DEF jt
<1>3. Changed(items, jt, k) /\ jt[k].form = f /\ jt[k].op = items[k].op
  BY <1>2 DEF Changed
<1> QED
  BY <1>1, <1>3

(* Pass 1 at a branch.                                                     *)
LEMMA ZDecidesBranch ==
  ASSUME ZInv, phase = "decide", k \in 1 .. Len(items), items[k].op \in {"branch", "other"},
         DecideBranch(items[k].label), k' = k + 1, phase' = phase,
         size' = size, offset' = offset, chain' = chain, place' = place
  PROVE  ZInv'
<1> DEFINE l == items[k].label
           pc == items[k].start + HeadSize
<1>1. /\ items \in Seq(ZItem) /\ Len(items) \in Nat /\ ZRight(items[k])
      /\ Straight(items, size, ZLong(items)) /\ Placing(Len(items), place, offset, chain)
      /\ Unmoved(items, size, place, offset) /\ items[k].form = "long"
  BY ZBasics DEF ZInv
<1>2. items[k].op = items[k].was /\ l \in Labels /\ items[k].op \in Branching
  BY <1>1 DEF ZRight, Branching
<1>3. CASE Keep
  BY <1>3, ZKeeps
<1>4. ASSUME items[k].op = "branch", NEW f \in {"rtrue", "rfalse"}, SetForm(f), MarkUnused(l)
      PROVE  ZInv'
  <2>1. Changed(items, items', k) /\ items'[k].form = f /\ items'[k].op = items[k].op
    BY <1>4, ZSets DEF ZForms
  <2>2. items'[k].was = items[k].was /\ items'[k].len = items[k].len /\ items'[k].label = l
    BY <2>1 DEF Changed
  <2>3. ZRight(items'[k])
    BY <1>1, <1>2, <1>4, <2>1, <2>2 DEF ZRight
  <2>4. Counted(items', use') /\ "internal" \notin errors'
    BY <1>2, <1>4, <2>1, ZMarks
  <2> QED
    BY <1>4, <2>1, <2>3, <2>4, ZGoesOn
<1>5. ASSUME InRoutine(l), offset[l] >= pc + 2, offset[l] < pc + 64, SetForm("short"),
             UNCHANGED <<use, errors>>
      PROVE  ZInv'
  <2>1. Changed(items, items', k) /\ items'[k].form = "short" /\ items'[k].op = items[k].op
    BY <1>5, ZSets DEF ZForms
  <2>2. items'[k].was = items[k].was /\ items'[k].len = items[k].len /\ items'[k].label = l
    BY <2>1 DEF Changed
  <2>3. ZRight(items'[k])
    BY <1>1, <1>2, <2>1, <2>2 DEF ZRight
  <2>4. Counted(items', use') /\ "internal" \notin errors'
    BY <1>5, <2>1, ZMarksNot
  <2>5. place[l] # 0
    <3>1. offset[l] >= 0
      BY <1>5 DEF InRoutine
    <3>2. (offset[l] = -1) = (place[l] = 0)
      BY <1>1, <1>2 DEF Placing
    <3> QED
      BY <3>1, <3>2
  <2>6. offset[l] = Spot(items, size, place[l]) /\ offset[l] \in Nat
    <3>1. offset[l] = Spot(items, size, place[l])
      BY <1>1, <1>2, <2>5 DEF Unmoved
    <3>2. offset[l] \in Nat \cup {-1} /\ offset[l] # -1
      BY <1>1, <1>2, <2>5 DEF Placing
    <3> QED
      BY <3>1, <3>2
  <2>7. Spot(items, size, k + 1) = pc + 2 /\ pc \in Nat
    <3>1. Spot(items, size, k + 1) = Spot(items, size, k) + ZLong(items)[k]
      BY <1>1 DEF Straight
    <3>2. Spot(items, size, k) = items[k].start /\ items[k].start \in Nat
      <4>1. Spot(items, size, k) = items[k].start
        BY DEF Spot
      <4>2. items[k] \in ZItem
        BY <1>1
      <4> QED
        BY <4>1, <4>2 DEF ZItem
    <3>3. ZLong(items)[k] = HeadSize + 2
      <4>1. items \in Seq(ZItem) /\ \A i \in 1 .. Len(items) : ZRight(items[i])
        BY ZBasics DEF ZInv
      <4>2. items[k].was \in {"branch", "other"}
        BY <1>2
      <4> QED
        BY <4>1, <4>2, ZLengthsHold
    <3> QED
      BY <3>1, <3>2, <3>3 DEF HeadSize
  <2>8. Spot(items, size, place[l]) - Spot(items, size, k + 1) \in 0 .. 61
    <3> HIDE DEF pc
    <3> DEFINE x == offset[l]
    <3>0. x \in Nat /\ pc \in Nat /\ x >= pc + 2 /\ x < pc + 64
      BY <1>5, <2>6, <2>7
    <3>1. offset[l] - (pc + 2) \in 0 .. 61
      <4> HIDE DEF x
      <4>1. x - (pc + 2) \in 0 .. 61
        BY <3>0
      <4> QED
        BY <4>1 DEF x
    <3> QED
      BY <2>6, <2>7, <3>1
  <2> QED
    BY <2>1, <2>3, <2>4, <2>5, <2>8, ZGoesOn
<1>6. \/ Keep
      \/ /\ items[k].op = "branch" /\ OpcodeAt(l) \in {"rtrue", "rfalse"}
         /\ SetForm(OpcodeAt(l)) /\ MarkUnused(l)
      \/ /\ InRoutine(l) /\ offset[l] >= pc + 2 /\ offset[l] < pc + 64
         /\ SetForm("short") /\ UNCHANGED <<use, errors>>
  <2>1. DecideBranch(l)
    OBVIOUS
  <2> HIDE DEF l
  <2> QED
    BY ONLY <2>1 DEF DecideBranch
<1> QED
  BY <1>3, <1>4, <1>5, <1>6

(* Pass 1 at a jump.                                                       *)
LEMMA ZDecidesJump ==
  ASSUME ZInv, phase = "decide", k \in 1 .. Len(items), items[k].op = "jump",
         DecideJump(items[k].label), k' = k + 1, phase' = phase,
         size' = size, offset' = offset, chain' = chain, place' = place
  PROVE  ZInv'
<1> DEFINE l == items[k].label
<1>1. items \in Seq(ZItem) /\ items[k] \in ZItem /\ ZRight(items[k]) /\ items[k].form = "long"
  BY ZBasics DEF ZInv
<1>2. items[k].op = items[k].was /\ l \in Labels /\ items[k].op \in Branching
  BY <1>1 DEF ZRight, Branching
<1>3. CASE Keep
  BY <1>3, ZKeeps
<1>4. ASSUME SetForm("deleted"), UNCHANGED <<use, errors>>
      PROVE  ZInv'
  <2>1. Changed(items, items', k) /\ items'[k].form = "deleted" /\ items'[k].op = items[k].op
    BY <1>4, ZSets DEF ZForms
  <2>2. items'[k].was = items[k].was /\ items'[k].len = items[k].len /\ items'[k].label = l
    BY <2>1 DEF Changed
  <2>3. ZRight(items'[k])
    BY <1>1, <1>2, <2>1, <2>2 DEF ZRight
  <2>4. Counted(items', use') /\ "internal" \notin errors'
    BY <1>4, <2>1, ZMarksNot
  <2> QED
    BY <2>1, <2>3, <2>4, ZGoesOn
<1>5. ASSUME NEW o \in Return1, items' = [items EXCEPT ![k].op = o, ![k].form = "replaced"],
             MarkUnused(l)
      PROVE  ZInv'
  <2> DEFINE r == [items[k] EXCEPT !.op = o, !.form = "replaced"]
             jt == [items EXCEPT ![k] = r]
  <2>1. o \in AllOps
    BY DEF Return1, AllOps
  <2>2. /\ r \in ZItem /\ r.op = o /\ r.was = items[k].was /\ r.len = items[k].len
        /\ r.label = items[k].label /\ r.start = items[k].start /\ r.form = "replaced"
    BY <1>1, <2>1 DEF ZItem, ZForms
  <2>3. items' = jt
    <3>1. items \in [1 .. Len(items) -> ZItem]
      BY <1>1
    <3> QED
      BY <1>5, <3>1
  <2> HIDE DEF r
  <2>4. /\ jt \in Seq(ZItem) /\ Len(jt) = Len(items)
        /\ \A i \in 1 .. Len(items) : jt[i] = IF i = k THEN r ELSE items[i]
    BY <1>1, <2>2
  <2> HIDE DEF jt
  <2>5. Changed(items, items', k) /\ items'[k] = r
    BY <2>2, <2>3, <2>4 DEF Changed
  <2>6. ZRight(items'[k]) /\ items'[k].form = "replaced"
    BY <1>1, <1>2, <2>2, <2>5 DEF ZRight
  <2>7. Counted(items', use') /\ "internal" \notin errors'
    BY <1>2, <1>5, <2>5, <2>6, ZMarks
  <2> QED
    BY <2>5, <2>6, <2>7, ZGoesOn
<1>6. \/ Keep
      \/ SetForm("deleted") /\ UNCHANGED <<use, errors>>
      \/ /\ OpcodeAt(l) \in Return1
         /\ items' = [items EXCEPT ![k].op = OpcodeAt(l), ![k].form = "replaced"]
         /\ MarkUnused(l)
  <2>1. DecideJump(l)
    OBVIOUS
  <2> HIDE DEF l
  <2> QED
    BY ONLY <2>1 DEF DecideJump
<1> QED
  BY <1>3, <1>4, <1>5, <1>6

(* Pass 1 at an instruction.                                               *)
LEMMA ZDecides ==
  ASSUME ZInv, Decide
  PROVE  ZInv'
<1>1. /\ phase = "decide" /\ k <= Len(items) /\ k' = k + 1 /\ phase' = phase
      /\ size' = size /\ chain' = chain /\ place' = place /\ offset' = offset
      /\ CASE items[k].op \in {"branch", "other"} -> DecideBranch(items[k].label)
           [] items[k].op = "jump"                -> DecideJump(items[k].label)
           [] OTHER                               -> Keep
  BY DEF Decide
<1>2. k \in 1 .. Len(items)
  <2>1. Len(items) \in Nat /\ k \in 1 .. Len(items) + 1
    BY <1>1, ZBasics DEF ZInv
  <2> QED
    BY <1>1, <2>1
<1>3. CASE items[k].op \in {"branch", "other"}
  <2>1. DecideBranch(items[k].label)
    BY <1>1, <1>3
  <2> QED
    BY <1>1, <1>2, <1>3, <2>1, ZDecidesBranch
<1>4. CASE items[k].op = "jump"
  <2>1. DecideJump(items[k].label)
    BY <1>1, <1>4
  <2> QED
    BY <1>1, <1>2, <1>4, <2>1, ZDecidesJump
<1>5. CASE items[k].op \notin {"branch", "other", "jump"}
  <2>1. Keep
    BY <1>1, <1>5
  <2> QED
    BY <1>1, <1>2, <2>1, ZKeeps
<1> QED
  BY <1>3, <1>4, <1>5

\* What passes 2 and 3 find.
ZFound ==
  /\ ZHeld /\ ZDecided /\ "internal" \notin errors
  /\ ZKept(items) \in [1 .. Len(items) -> Nat]
  /\ \A i \in 1 .. Len(items) : ZKept(items)[i] <= ZLong(items)[i]

(* The invariant says more once assembly is over.                          *)
LEMMA ZFinds ==
  ASSUME ZInv, phase # "assemble"
  PROVE  ZFound
<1>1. ZHeld /\ ZDecided /\ "internal" \notin errors
  BY DEF ZInv
<1>2. items \in Seq(ZItem) /\ \A i \in 1 .. Len(items) : ZRight(items[i])
  BY <1>1, ZBasics
<1> QED
  BY <1>1, <1>2, ZLengthsHold DEF ZFound

(* The ends of passes 1, 1a and 2.                                         *)
LEMMA ZNextPass ==
  ASSUME ZInv, EndDecide \/ EndClean \/ EndRelocate
  PROVE  ZInv'
<1>1. /\ items' = items /\ size' = size /\ chain' = chain /\ place' = place /\ offset' = offset
      /\ errors' = errors /\ k' = 1 /\ label' = 1 /\ newpc' = 0
      /\ \/ phase = "decide" /\ phase' = "clean"
         \/ phase = "clean" /\ phase' = "relocate"
         \/ phase = "relocate" /\ phase' = "emit" /\ k > Len(items)
  BY DEF EndDecide, EndClean, EndRelocate, NextPass, routine, labels
<1>2. ZFound
  BY <1>1, ZFinds
<1>3. /\ items \in Seq(ZItem) /\ Len(items) \in Nat
      /\ Straight(items, size, ZLong(items)) /\ Placing(Len(items), place, offset, chain)
  BY <1>2, ZBasics DEF ZFound
<1>4. ZHeld' /\ ZDecided' /\ "internal" \notin errors'
  BY <1>1, <1>2 DEF ZFound, ZHeld, ZDecided
<1>5. CASE phase = "decide" /\ phase' = "clean"
  <2>1. Unmoved(items, size, place, offset)
    BY <1>5 DEF ZInv
  <2>2. Unmoved(items, size, place, offset)'
    BY <1>1, <2>1
  <2> QED
    BY <1>4, <1>5, <2>2 DEF ZInv
<1>6. CASE phase = "clean" /\ phase' = "relocate"
  <2>1. Unmoved(items, size, place, offset)
    BY <1>6 DEF ZInv
  <2>2. Relocating(items, size, ZKept(items), place, offset, chain, 1, 1, 0)
    BY <1>3, <2>1, RelocateBegins
  <2>3. Relocating(items, size, ZKept(items), place, offset, chain, k, label, newpc)'
    BY <1>1, <2>2
  <2> QED
    BY <1>4, <1>6, <2>3 DEF ZInv
<1>7. CASE phase = "relocate" /\ phase' = "emit" /\ k > Len(items)
  <2>1. Relocating(items, size, ZKept(items), place, offset, chain, k, label, newpc)
    BY <1>7 DEF ZInv
  <2>2. Transferring(items, size, ZKept(items), place, offset, 1, 0)
    BY <1>3, <1>7, <2>1, RelocateEnds
  <2>3. Transferring(items, size, ZKept(items), place, offset, k, newpc)'
    BY <1>1, <2>2
  <2> QED
    BY <1>4, <1>7, <2>3 DEF ZInv
<1> QED
  BY <1>1, <1>5, <1>6, <1>7

(* Pass 1a at a label: whichever return it deletes, the layout holds.      *)
LEMMA ZCleans ==
  ASSUME ZInv, Clean
  PROVE  ZInv'
<1>1. /\ phase = "clean" /\ phase' = phase /\ size' = size /\ chain' = chain /\ place' = place
      /\ offset' = offset /\ errors' = errors
      /\ \/ items' = [items EXCEPT ![ItemAt(offset[chain[k]])].form = "deleted"]
         \/ items' = items
  BY DEF Clean, labels
<1>2. ZFound /\ Unmoved(items, size, place, offset)
  BY <1>1, ZFinds DEF ZInv
<1>3. ZHeld /\ ZDecided /\ items \in Seq(ZItem) /\ \A i \in 1 .. Len(items) : ZRight(items[i])
  BY <1>2, ZBasics DEF ZFound
<1>4. CASE items' = items
  <2>1. ZHeld' /\ ZDecided' /\ "internal" \notin errors' /\ Unmoved(items, size, place, offset)'
    BY <1>1, <1>2, <1>4 DEF ZFound, ZHeld, ZDecided
  <2> QED
    BY <1>1, <2>1 DEF ZInv
<1>5. ASSUME NEW m, items' = [items EXCEPT ![m].form = "deleted"]
      PROVE  ZInv'
  <2> DEFINE jt == WithForm(items, m, "deleted")
  <2>1. /\ jt \in Seq(ZItem) /\ Len(jt) = Len(items)
        /\ \A i \in 1 .. Len(items) :
             /\ jt[i].op = items[i].op /\ jt[i].was = items[i].was /\ jt[i].len = items[i].len
             /\ jt[i].label = items[i].label /\ jt[i].start = items[i].start
             /\ jt[i].form = IF i = m THEN "deleted" ELSE items[i].form
    <3>1. "deleted" \in ZForms
      BY DEF ZForms
    <3> QED
      BY ONLY <1>3, <3>1, ZSetForm
  <2> HIDE DEF jt
  <2>2. Changed(items, jt, m)
    BY <2>1 DEF Changed
  <2>3. m \in 1 .. Len(items) => ZRight(jt[m]) /\ jt[m].form = "deleted"
    BY <1>3, <2>1 DEF ZRight
  <2>4. /\ jt \in Seq(ZItem) /\ Len(jt) = Len(items)
        /\ \A i \in 1 .. Len(jt) : ZRight(jt[i]) /\ ZFits(jt, size, place, i)
        /\ Straight(jt, size, ZLong(jt)) /\ Placing(Len(jt), place, offset, chain)
        /\ Inside(jt, place)
        /\ Unmoved(items, size, place, offset) => Unmoved(jt, size, place, offset)
    BY <1>3, <2>2, <2>3, ZChanges
  <2>5. items' = jt
    BY <1>5 DEF jt, WithForm
  <2>6. ZHeld' /\ ZDecided' /\ "internal" \notin errors' /\ Unmoved(items, size, place, offset)'
    BY <1>1, <1>2, <2>4, <2>5 DEF ZFound, ZHeld, ZDecided
  <2> QED
    BY <1>1, <2>6 DEF ZInv
<1> QED
  BY <1>1, <1>4, <1>5

(* Kept is the length in ZKept.                                            *)
LEMMA ZKeptIs ==
  ASSUME k \in 1 .. Len(items)
  PROVE  Kept(k) = ZKept(items)[k]
<1>1. Kept(k) = ZLength(items[k])
  BY Zenon DEF Kept, ZLength
<1>2. ZKept(items)[k] = ZLength(items[k])
  BY DEF ZKept
<1> QED
  BY <1>1, <1>2

(* Pass 2 at an instruction.                                               *)
LEMMA ZRelocates ==
  ASSUME ZInv, Relocate
  PROVE  ZInv'
<1> DEFINE H == Standing(offset, chain, label, items[k].start)
<1>1. Here = H
  BY DEF Here, Standing
<1>2. /\ phase = "relocate" /\ k <= Len(items) /\ phase' = phase /\ k' = k + 1
      /\ offset' = Shifted(offset, chain, H, newpc) /\ label' = label + Cardinality(H)
      /\ newpc' = newpc + Kept(k)
      /\ items' = items /\ size' = size /\ chain' = chain /\ place' = place /\ errors' = errors
  BY <1>1 DEF Relocate, routine, Shifted
<1> HIDE DEF H
<1>3. ZFound /\ Relocating(items, size, ZKept(items), place, offset, chain, k, label, newpc)
  BY <1>2, ZFinds DEF ZInv
<1>4. /\ items \in Seq(ZItem) /\ Len(items) \in Nat
      /\ Straight(items, size, ZLong(items)) /\ Placing(Len(items), place, offset, chain)
  BY <1>3, ZBasics DEF ZFound
<1>5. k \in 1 .. Len(items)
  BY <1>2, <1>3, <1>4 DEF Relocating
<1>6. Kept(k) = ZKept(items)[k]
  BY <1>5, ZKeptIs
<1>7. ZKept(items) \in [1 .. Len(items) -> Nat] /\ ZKept(items)[k] <= ZLong(items)[k]
  BY <1>3, <1>5 DEF ZFound
<1>8. /\ Placing(Len(items), place, Shifted(offset, chain, H, newpc), chain)
      /\ Relocating(items, size, ZKept(items), place, Shifted(offset, chain, H, newpc), chain,
                    k + 1, label + Cardinality(H), newpc + ZKept(items)[k])
  BY <1>2, <1>3, <1>4, <1>7, RelocateStep DEF H
<1>9. ZHeld'
  BY <1>2, <1>3, <1>8 DEF ZFound, ZHeld
<1>10. ZDecided' /\ "internal" \notin errors'
  BY <1>2, <1>3 DEF ZFound, ZDecided
<1>11. Relocating(items, size, ZKept(items), place, offset, chain, k, label, newpc)'
  BY <1>2, <1>6, <1>8
<1> QED
  BY <1>2, <1>9, <1>10, <1>11 DEF ZInv

(* The operand of a short branch is between 2 and 63.                      *)
LEMMA ZInRange ==
  ASSUME ZInv, phase = "emit", k \in 1 .. Len(items)
  PROVE  "internal" \notin OperandErrors(k)
<1>1. ZFound /\ Transferring(items, size, ZKept(items), place, offset, k, newpc)
  BY ZFinds DEF ZInv
<1>2. /\ items \in Seq(ZItem) /\ Len(items) \in Nat
      /\ Straight(items, size, ZLong(items)) /\ Placing(Len(items), place, offset, chain)
      /\ ZRight(items[k]) /\ Inside(items, place) /\ ZFits(items, size, place, k)
  BY <1>1, ZBasics DEF ZFound, ZDecided
<1>3. SUFFICES ASSUME items[k].form = "short"
               PROVE  Operand(k) \in 0 .. 63
  BY DEF OperandErrors
<1> DEFINE l == items[k].label
           x == offset[l] - (newpc + ZKept(items)[k])
<1>4. ZKept(items)[k] = 3
  <2>1. ZLength(items[k]) = HeadSize + 1
    BY <1>3 DEF ZLength
  <2> QED
    BY <2>1 DEF ZKept, HeadSize
<1>5. items[k].op \in {"branch", "other"} /\ l \in Labels
  BY <1>2, <1>3 DEF ZRight, Branching
<1>6. place[l] # 0 /\ Spot(items, size, place[l]) - Spot(items, size, k + 1) \in 0 .. 61
  BY <1>2, <1>3 DEF ZFits
<1>7. offset[l] \in Nat
  <2>1. offset[l] \in Nat \cup {-1} /\ offset[l] # -1
    BY <1>2, <1>5, <1>6 DEF Placing
  <2> QED
    BY <2>1
<1>8. newpc \in Nat
  <2>1. PICK T : Laid(items, size, T, Len(items) + 1, ZKept(items)) /\ newpc = T[k]
    BY <1>1 DEF Transferring
  <2>2. T \in [1 .. Len(items) + 1 -> Nat] /\ k \in 1 .. Len(items) + 1
    BY <1>1, <1>2, <2>1 DEF Laid, Transferring
  <2> QED
    BY <2>1, <2>2
<1>9. x \in 0 .. 61
  <2> DEFINE lo == 0
             hi == 61
  <2>1. lo \in Int /\ hi \in Int /\ lo <= 0 /\ 0 <= hi /\ k <= Len(items)
    OBVIOUS
  <2>2. Spot(items, size, place[l]) - Spot(items, size, k + 1) \in lo .. hi
    BY <1>6
  <2> HIDE DEF lo, hi, l
  <2>3. offset[l] - (newpc + ZKept(items)[k]) \in lo .. hi
    BY <1>1, <1>2, <1>5, <1>6, <2>1, <2>2, TransferDistance
  <2> QED
    BY <2>3 DEF lo, hi, l
<1>10. Operand(k) = x + 2
  <2>1. ~ (offset[l] < 0)
    BY <1>7
  <2>2. Operand(k) = BranchAddr(k)
    BY <1>3, <1>5, <2>1 DEF Operand
  <2>3. BranchAddr(k) = offset[l] - (newpc + HeadSize + 0 + 1) + 2
    BY <1>3 DEF BranchAddr
  <2> HIDE DEF l
  <2> QED
    BY <1>4, <1>7, <1>8, <2>2, <2>3 DEF HeadSize
<1> HIDE DEF x
<1> QED
  BY <1>9, <1>10

(* Pass 3 at an instruction.                                               *)
LEMMA ZEmits ==
  ASSUME ZInv, Emit
  PROVE  ZInv'
<1>1. /\ phase = "emit" /\ k <= Len(items) /\ phase' = phase /\ k' = k + 1
      /\ items' = items /\ size' = size /\ chain' = chain /\ place' = place
      /\ offset' = offset
  BY DEF Emit, routine, labels
<1>2. ZFound /\ Transferring(items, size, ZKept(items), place, offset, k, newpc)
  BY <1>1, ZFinds DEF ZInv
<1>3. items \in Seq(ZItem) /\ Len(items) \in Nat
  BY <1>2, ZBasics DEF ZFound
<1>4. k \in 1 .. Len(items)
  BY <1>1, <1>2, <1>3 DEF Transferring
<1>5. newpc \in Nat
  <2>1. PICK T : Laid(items, size, T, Len(items) + 1, ZKept(items)) /\ newpc = T[k]
    BY <1>2 DEF Transferring
  <2>2. T \in [1 .. Len(items) + 1 -> Nat] /\ k \in 1 .. Len(items) + 1
    BY <1>3, <1>4, <2>1 DEF Laid
  <2> QED
    BY <2>1, <2>2
<1>6. newpc' = newpc + ZKept(items)[k]
  <2>1. CASE items[k].form = "deleted"
    <3>1. newpc' = newpc
      BY <2>1 DEF Emit
    <3>2. ZKept(items)[k] = 0
      BY <1>4, <2>1 DEF ZKept, ZLength
    <3> QED
      BY <1>5, <3>1, <3>2
  <2>2. CASE items[k].form # "deleted"
    <3>1. newpc' = newpc + Kept(k)
      BY <2>2 DEF Emit
    <3>2. Kept(k) = ZKept(items)[k]
      BY <1>4, ZKeptIs
    <3> QED
      BY <3>1, <3>2
  <2> QED
    BY <2>1, <2>2
<1>7. "internal" \notin errors'
  <2>1. "internal" \notin OperandErrors(k)
    BY <1>1, <1>4, ZInRange
  <2>2. errors' = errors \/ errors' = errors \cup OperandErrors(k)
    BY DEF Emit
  <2> QED
    BY <1>2, <2>1, <2>2 DEF ZFound
<1>8. Transferring(items, size, ZKept(items), place, offset, k + 1, newpc + ZKept(items)[k])
  BY <1>1, <1>2, <1>3, TransferStep
<1>9. Transferring(items, size, ZKept(items), place, offset, k, newpc)'
  BY <1>1, <1>6, <1>8
<1>10. ZHeld' /\ ZDecided'
  BY <1>1, <1>2 DEF ZFound, ZHeld, ZDecided
<1> QED
  BY <1>1, <1>7, <1>9, <1>10 DEF ZInv

(* The end of pass 3.                                                      *)
LEMMA ZEnds ==
  ASSUME ZInv, EndEmit
  PROVE  ZInv'
<1>1. /\ phase = "emit" /\ k > Len(items) /\ phase' = "done"
      /\ items' = items /\ size' = size /\ chain' = chain /\ place' = place
      /\ offset' = offset
      /\ errors' = IF newpc > size THEN errors \cup {"internal"} ELSE errors
  BY DEF EndEmit, routine, labels
<1>2. ZFound /\ Transferring(items, size, ZKept(items), place, offset, k, newpc)
  BY <1>1, ZFinds DEF ZInv
<1>3. /\ items \in Seq(ZItem) /\ Len(items) \in Nat /\ size \in Nat
      /\ Straight(items, size, ZLong(items))
  BY <1>2, ZBasics DEF ZFound
<1>4. newpc <= size
  BY <1>1, <1>2, <1>3, TransferEnds
<1>5. newpc \in Nat
  <2>1. PICK T : Laid(items, size, T, Len(items) + 1, ZKept(items)) /\ newpc = T[k]
    BY <1>2 DEF Transferring
  <2>2. T \in [1 .. Len(items) + 1 -> Nat] /\ k \in 1 .. Len(items) + 1
    BY <1>2, <1>3, <2>1 DEF Laid, Transferring
  <2> QED
    BY <2>1, <2>2
<1>6. "internal" \notin errors'
  <2>1. ~ (newpc > size)
    BY <1>3, <1>4, <1>5
  <2> QED
    BY <1>1, <1>2, <2>1 DEF ZFound
<1>7. ZHeld' /\ ZDecided'
  BY <1>1, <1>2 DEF ZFound, ZHeld, ZDecided
<1> QED
  BY <1>1, <1>6, <1>7 DEF ZInv

(* The beginning.                                                          *)
LEMMA ZBegins ==
  ASSUME Init
  PROVE  ZInv
<1>1. /\ phase = "assemble" /\ items = <<>> /\ size = 0 /\ dead = FALSE
      /\ offset = [l \in Labels |-> -1] /\ place = [l \in Labels |-> 0] /\ chain = <<>>
      /\ use = [l \in Labels |-> 0]
      /\ k = 1 /\ label = 1 /\ newpc = 0 /\ errors = {}
  BY DEF Init
<1>2. items \in Seq(ZItem) /\ Len(items) = 0 /\ chain \in Seq(Labels) /\ Len(chain) = 0
  BY <1>1
<1>3. \A i : Spot(items, size, i) = 0
  BY <1>1, <1>2 DEF Spot
<1>4. ZLong(items) \in [1 .. Len(items) -> Nat \ {0}]
  BY <1>2 DEF ZLong
<1>5. Straight(items, size, ZLong(items))
  BY <1>1, <1>2, <1>3, <1>4 DEF Straight
<1>6. Placing(Len(items), place, offset, chain)
  BY <1>1, <1>2 DEF Placing
<1>7. Unmoved(items, size, place, offset)
  BY <1>1 DEF Unmoved
<1>8. ZHeld
  BY <1>2, <1>5, <1>6 DEF ZHeld
<1>9. Counted(items, use)
  <2>1. \A l : Uses(items, l) = {}
    BY <1>2 DEF Uses
  <2>2. Cardinality({}) = 0
    BY FS_EmptySet
  <2> QED
    BY <1>1, <2>1, <2>2 DEF Counted
<1> QED
  BY <1>1, <1>2, <1>7, <1>8, <1>9 DEF ZInv

(* A step of the Z-code passes.                                            *)
LEMMA ZStep ==
  ASSUME ZInv, Next
  PROVE  ZInv'
<1>1. CASE AssembleInstruction
  <2>1. phase' = phase
    BY <1>1 DEF AssembleInstruction
  <2>2. PICK op \in Ops :
          \/ op = "plain" /\ \E n \in Lengths : Assemble(op, n, NoLabel)
          \/ op \in {"branch", "other", "jump"} /\ \E l \in Labels : Assemble(op, 0, l)
          \/ op \in Return1 \cup {"ret"} /\ Assemble(op, 0, NoLabel)
    BY <1>1 DEF AssembleInstruction
  <2>3. op \in AllOps
    BY BoundsAssumption
  <2>4. Lengths \subseteq Nat \ {0}
    BY BoundsAssumption
  <2>5. CASE op = "plain" /\ \E n \in Lengths : Assemble(op, n, NoLabel)
    <3>1. PICK n \in Lengths : Assemble(op, n, NoLabel)
      BY <2>5
    <3>2. n \in Nat /\ n # 0 /\ op \notin Branching
      BY <2>4, <2>5 DEF Branching
    <3>3. phase' = "assemble"
      BY <2>1, <3>1 DEF Assemble
    <3> QED
      BY <2>3, <3>1, <3>2, <3>3, ZAssembles
  <2>6. CASE op \in {"branch", "other", "jump"} /\ \E l \in Labels : Assemble(op, 0, l)
    <3>1. PICK l \in Labels : Assemble(op, 0, l)
      BY <2>6
    <3>2. op # "plain"
      BY <2>6
    <3>3. phase' = "assemble"
      BY <2>1, <3>1 DEF Assemble
    <3> QED
      BY <2>3, <3>1, <3>2, <3>3, ZAssembles
  <2>7. CASE op \in Return1 \cup {"ret"} /\ Assemble(op, 0, NoLabel)
    <3>1. op # "plain" /\ op \notin Branching
      BY <2>7 DEF Return1, Branching
    <3>2. phase' = "assemble"
      BY <2>1, <2>7 DEF Assemble
    <3> QED
      BY <2>3, <2>7, <3>1, <3>2, ZAssembles
  <2> QED
    BY <2>2, <2>5, <2>6, <2>7
<1>2. CASE \E l \in Labels : AssembleLabel(l)
  BY <1>2, ZLabels
<1>3. CASE AssembleRoutineEnd
  BY <1>3, ZRoutineEnds
<1>4. CASE Decide
  BY <1>4, ZDecides
<1>5. CASE EndDecide \/ EndClean \/ EndRelocate
  BY <1>5, ZNextPass
<1>6. CASE Clean
  BY <1>6, ZCleans
<1>7. CASE Relocate
  BY <1>7, ZRelocates
<1>8. CASE Emit
  BY <1>8, ZEmits
<1>9. CASE EndEmit
  BY <1>9, ZEnds
<1> QED
  BY <1>1, <1>2, <1>3, <1>4, <1>5, <1>6, <1>7, <1>8, <1>9 DEF Next

---------------------------------------------------------------------------
(* Both targets.                                                           *)

ShortenInv == glulx \in BOOLEAN /\ IF glulx THEN GInv ELSE ZInv

(* A step that changes nothing.                                            *)
LEMMA ShortenRests ==
  ASSUME ShortenInv, UNCHANGED <<vars, glulx>>
  PROVE  ShortenInv'
<1>1. /\ phase' = phase /\ items' = items /\ size' = size /\ dead' = dead
      /\ offset' = offset /\ chain' = chain /\ place' = place /\ use' = use
      /\ k' = k /\ label' = label /\ newpc' = newpc /\ errors' = errors /\ glulx' = glulx
  BY DEF vars, routine, labels
<1>2. GInv => GInv'
  BY <1>1 DEF GInv, GHeld, GDecided
<1>3. ZInv => ZInv'
  BY <1>1 DEF ZInv, ZHeld, ZDecided
<1> QED
  BY <1>1, <1>2, <1>3 DEF ShortenInv

(* A branch form that transfer_routine_z or transfer_routine_g chooses on  *)
(* the old distance holds the new one, whatever the routine: the errors    *)
(* with which pass 3 would report the opposite, and the compiler_error of  *)
(* mark_label_unused, are never reported, and the code never grows.        *)
THEOREM FormsAlwaysHold == TargetSpec => []FormsHold
<1>1. TargetInit => ShortenInv
  BY GBegins, ZBegins DEF TargetInit, ShortenInv
<1>2. ShortenInv /\ [ZCode \/ Glulx]_<<vars, glulx>> => ShortenInv'
  <2> SUFFICES ASSUME ShortenInv, [ZCode \/ Glulx]_<<vars, glulx>>
               PROVE  ShortenInv'
    OBVIOUS
  <2>1. CASE ZCode
    <3>1. ~ glulx /\ glulx' = glulx /\ ZInv /\ Next
      BY <2>1 DEF ShortenInv, ZCode
    <3> QED
      BY <3>1, ZStep DEF ShortenInv
  <2>2. CASE Glulx
    <3>1. glulx /\ glulx' = glulx /\ GInv /\ G!Next
      BY <2>2 DEF ShortenInv, Glulx
    <3> QED
      BY <3>1, GStep DEF ShortenInv
  <2>3. CASE UNCHANGED <<vars, glulx>>
    BY <2>3, ShortenRests
  <2> QED
    BY <2>1, <2>2, <2>3
<1>3. ShortenInv => FormsHold
  BY DEF ShortenInv, GInv, ZInv, FormsHold, G!FormsHold, NoInternalError
<1> QED
  BY <1>1, <1>2, <1>3, PTL DEF TargetSpec

---------------------------------------------------------------------------
(* Numbers.                                                                *)

\* What holds at 0 and passes from each number to the next holds up to N.
LEMMA UpTo ==
  ASSUME NEW N \in Nat, NEW K, 0 \in K, \A n \in 1 .. N : n - 1 \in K => n \in K
  PROVE  \A n \in 0 .. N : n \in K
<1> SUFFICES ASSUME NEW m \in 0 .. N, m \notin K PROVE FALSE
  OBVIOUS
<1> DEFINE Missing == {n \in 0 .. N : n \notin K}
<1>1. PICK x \in Missing : \A y \in Missing : x <= y
  <2>1. Missing \in SUBSET Nat /\ Missing # {}
    OBVIOUS
  <2> QED
    BY <2>1, LeastNumber
<1>2. x \in 1 .. N
  BY <1>1
<1>3. x - 1 \in K
  <2>1. x - 1 \in 0 .. N /\ ~ (x <= x - 1)
    BY <1>2
  <2> QED
    BY <2>1, <1>1
<1> QED
  BY <1>1, <1>2, <1>3

\* A function that makes each of its values from the one before.
Iterated(N, a, F, f) == f = [n \in 0 .. N |-> IF n = 0 THEN a ELSE F[f[n - 1]]]

(* There is one, and it stays in the set that the step F does not leave.   *)
LEMMA Iterates ==
  ASSUME NEW N \in Nat, NEW S, NEW a \in S, NEW F \in [S -> S]
  PROVE  \E f \in [0 .. N -> S] : Iterated(N, a, F, f)
<1> DEFINE K == {m \in 0 .. N : \E f \in [0 .. m -> S] : Iterated(m, a, F, f)}
<1>1. 0 \in K
  <2> DEFINE g == [n \in 0 .. 0 |-> a]
  <2>1. g \in [0 .. 0 -> S]
    OBVIOUS
  <2>2. Iterated(0, a, F, g)
    BY DEF Iterated
  <2> HIDE DEF g
  <2> QED
    BY <2>1, <2>2
<1>2. ASSUME NEW m \in 1 .. N, m - 1 \in K
      PROVE  m \in K
  <2>1. PICK f \in [0 .. m - 1 -> S] : Iterated(m - 1, a, F, f)
    BY <1>2
  <2>2. \A n \in 0 .. m - 1 : f[n] = IF n = 0 THEN a ELSE F[f[n - 1]]
    BY <2>1 DEF Iterated
  <2> DEFINE g == [n \in 0 .. m |-> IF n = m THEN F[f[m - 1]] ELSE f[n]]
  <2>3. m - 1 \in 0 .. m - 1 /\ f[m - 1] \in S /\ F[f[m - 1]] \in S
    OBVIOUS
  <2>4. g \in [0 .. m -> S]
    BY <2>3
  <2>5. ASSUME NEW n \in 0 .. m
        PROVE  g[n] = IF n = 0 THEN a ELSE F[g[n - 1]]
    <3>1. CASE n = m
      <4>1. g[n] = F[f[m - 1]] /\ g[m - 1] = f[m - 1] /\ n # 0
        BY <3>1
      <4> HIDE DEF g
      <4> QED
        BY <3>1, <4>1
    <3>2. CASE n # m
      <4>1. n \in 0 .. m - 1 /\ g[n] = f[n] /\ (n # 0 => g[n - 1] = f[n - 1])
        BY <3>2
      <4> HIDE DEF g
      <4> QED
        BY <4>1, <2>2
    <3> QED
      BY <3>1, <3>2
  <2>6. g = [n \in 0 .. m |-> g[n]]
    OBVIOUS
  <2> HIDE DEF g
  <2>7. Iterated(m, a, F, g)
    BY <2>5, <2>6 DEF Iterated
  <2>8. m \in 0 .. N
    OBVIOUS
  <2> QED
    BY <2>4, <2>7, <2>8
<1>3. N \in K
  <2>1. N \in 0 .. N
    OBVIOUS
  <2> HIDE DEF K
  <2> QED
    BY <1>1, <1>2, <2>1, UpTo
<1> QED
  BY <1>3

---------------------------------------------------------------------------
(* Jumps followed.  N instructions; those of the set jumps go on at dest,  *)
(* 0 is nowhere.  F[f][p] is where control comes to from p with less than  *)
(* f jumps, and 0 if that is not enough.                                   *)

After(jumps, dest, way, p) == IF p = 0 THEN 0 ELSE IF p \notin jumps THEN p ELSE way[dest[p]]

Followed(N, jumps, dest, F) ==
  /\ F \in [0 .. N + 1 -> [0 .. N -> 0 .. N]]
  /\ \A p \in 0 .. N : F[0][p] = 0
  /\ \A f \in 1 .. N + 1 : \A p \in 0 .. N : F[f][p] = After(jumps, dest, F[f - 1], p)

(* There is such an F.                                                     *)
LEMMA FollowedIs ==
  ASSUME NEW N \in Nat, NEW jumps, NEW dest \in [1 .. N -> 0 .. N]
  PROVE  \E F : Followed(N, jumps, dest, F)
<1> DEFINE S == [0 .. N -> 0 .. N]
           a == [p \in 0 .. N |-> 0]
           More(g) == [p \in 0 .. N |-> After(jumps, dest, g, p)]
           E == [g \in S |-> More(g)]
<1>1. a \in S /\ N + 1 \in Nat
  OBVIOUS
<1>2. ASSUME NEW g \in S
      PROVE  More(g) \in S
  <2>1. \A p \in 0 .. N : After(jumps, dest, g, p) \in 0 .. N
    BY DEF After
  <2> QED
    BY <2>1
<1>3. E \in [S -> S] /\ \A g \in S : E[g] = More(g)
  BY <1>2
<1>4. /\ \A p \in 0 .. N : a[p] = 0
      /\ \A g : \A p \in 0 .. N : More(g)[p] = After(jumps, dest, g, p)
  OBVIOUS
<1> HIDE DEF a, More, E
<1>5. PICK F \in [0 .. N + 1 -> S] : Iterated(N + 1, a, E, F)
  BY <1>1, <1>3, Iterates
<1>6. F[0] = a /\ \A f \in 1 .. N + 1 : F[f] = More(F[f - 1])
  <2>1. F[0] = a
    BY <1>5 DEF Iterated
  <2>2. \A f \in 1 .. N + 1 : F[f] = E[F[f - 1]] /\ F[f - 1] \in S
    <3> TAKE f \in 1 .. N + 1
    <3>1. f \in 0 .. N + 1 /\ f # 0 /\ f - 1 \in 0 .. N + 1
      OBVIOUS
    <3> HIDE DEF S
    <3> QED
      BY <1>5, <3>1 DEF Iterated
  <2> QED
    BY <1>3, <2>1, <2>2
<1>7. \A p \in 0 .. N : F[0][p] = 0
  BY <1>4, <1>6
<1>8. \A f \in 1 .. N + 1 : \A p \in 0 .. N : F[f][p] = After(jumps, dest, F[f - 1], p)
  BY <1>4, <1>6
<1> QED
  BY <1>5, <1>7, <1>8 DEF Followed

(* What has arrived stays.                                                 *)
LEMMA FollowedStays ==
  ASSUME NEW N \in Nat, NEW jumps, NEW dest \in [1 .. N -> 0 .. N], NEW F,
         Followed(N, jumps, dest, F)
  PROVE  \A f \in 1 .. N + 1 : \A p \in 0 .. N : F[f - 1][p] # 0 => F[f][p] = F[f - 1][p]
<1> DEFINE Stays(f) == \A p \in 0 .. N : F[f][p] # 0 => F[f + 1][p] = F[f][p]
           K == {f \in 0 .. N : Stays(f)}
<1>1. 0 \in K
  <2>1. \A p \in 0 .. N : F[0][p] = 0
    BY DEF Followed
  <2> QED
    BY <2>1
<1>2. ASSUME NEW f \in 1 .. N, f - 1 \in K
      PROVE  f \in K
  <2> SUFFICES ASSUME NEW p \in 0 .. N, F[f][p] # 0
               PROVE  F[f + 1][p] = F[f][p]
    OBVIOUS
  <2>1. F[f][p] = After(jumps, dest, F[f - 1], p) /\ F[f + 1][p] = After(jumps, dest, F[f], p)
    <3>1. f \in 1 .. N + 1 /\ f + 1 \in 1 .. N + 1 /\ (f + 1) - 1 = f
      OBVIOUS
    <3> QED
      BY <3>1 DEF Followed
  <2>2. CASE p = 0 \/ p \notin jumps
    BY <2>1, <2>2 DEF After
  <2>3. CASE p # 0 /\ p \in jumps
    <3>1. F[f][p] = F[f - 1][dest[p]] /\ F[f + 1][p] = F[f][dest[p]]
      BY <2>1, <2>3 DEF After
    <3>2. dest[p] \in 0 .. N /\ F[f - 1][dest[p]] # 0
      BY <2>3, <3>1
    <3>3. Stays(f - 1) /\ (f - 1) + 1 = f
      BY <1>2
    <3> QED
      BY <3>1, <3>2, <3>3
  <2> QED
    BY <2>2, <2>3
<1> HIDE DEF K
<1>3. \A f \in 0 .. N : f \in K
  BY <1>1, <1>2, UpTo
<1> QED
  <2> TAKE f \in 1 .. N + 1
  <2>1. f - 1 \in 0 .. N /\ (f - 1) + 1 = f
    OBVIOUS
  <2> QED
    BY <1>3, <2>1 DEF K

(* N jumps are enough: a way with more comes by an instruction twice.      *)
LEMMA FollowedSettles ==
  ASSUME NEW N \in Nat, NEW jumps, NEW dest \in [1 .. N -> 0 .. N], NEW F,
         Followed(N, jumps, dest, F)
  PROVE  \A p \in 0 .. N : F[N + 1][p] = F[N][p]
<1> DEFINE First(f, p) == F[f][p] # 0 /\ F[f - 1][p] = 0
<1>1. SUFFICES ASSUME NEW p \in 0 .. N, F[N + 1][p] # F[N][p]
               PROVE  FALSE
  OBVIOUS
<1>2. /\ F \in [0 .. N + 1 -> [0 .. N -> 0 .. N]]
      /\ \A q \in 0 .. N : F[0][q] = 0
      /\ \A f \in 1 .. N + 1 : \A q \in 0 .. N : F[f][q] = After(jumps, dest, F[f - 1], q)
  BY DEF Followed
<1>3. \A f \in 1 .. N + 1 : \A q \in 0 .. N : F[f - 1][q] # 0 => F[f][q] # 0
  <2>1. \A f \in 1 .. N + 1 : \A q \in 0 .. N : F[f - 1][q] # 0 => F[f][q] = F[f - 1][q]
    BY FollowedStays
  <2> QED
    BY <2>1
<1>4. First(N + 1, p)
  <2>1. N + 1 \in 1 .. N + 1 /\ (N + 1) - 1 = N
    OBVIOUS
  <2>2. F[N][p] # 0 => F[N + 1][p] = F[N][p]
    <3>1. \A f \in 1 .. N + 1 : \A q \in 0 .. N : F[f - 1][q] # 0 => F[f][q] = F[f - 1][q]
      BY FollowedStays
    <3> QED
      BY <2>1, <3>1
  <2> QED
    BY <1>1, <2>1, <2>2
<1>5. \A q \in 0 .. N : \A f \in 1 .. N + 1 : First(f, q) => q # 0
  BY <1>2 DEF After
<1> DEFINE K == {d \in 0 .. N : \E q \in 1 .. N : First(N + 1 - d, q)}
<1>6. \A d \in 0 .. N : d \in K
  <2>1. 0 \in K
    <3>1. p \in 1 .. N /\ N + 1 - 0 = N + 1
      BY <1>4, <1>5
    <3> QED
      BY <1>4, <3>1
  <2>2. ASSUME NEW d \in 1 .. N, d - 1 \in K
        PROVE  d \in K
    <3>1. PICK q \in 1 .. N : First(N + 1 - (d - 1), q)
      BY <2>2
    <3> DEFINE f == N + 1 - d
    <3>2. f \in 1 .. N /\ N + 1 - (d - 1) = f + 1 /\ (f + 1) - 1 = f /\ f + 1 \in 1 .. N + 1
          /\ f \in 1 .. N + 1
      OBVIOUS
    <3> HIDE DEF f
    <3>3. F[f + 1][q] # 0 /\ F[f][q] = 0
      BY <3>1, <3>2
    <3>4. F[f + 1][q] = After(jumps, dest, F[f], q) /\ F[f][q] = After(jumps, dest, F[f - 1], q)
      <4>1. q \in 0 .. N
        OBVIOUS
      <4>2. \A g \in 1 .. N + 1 : F[g][q] = After(jumps, dest, F[g - 1], q)
        BY <1>2, <4>1
      <4>3. F[f + 1][q] = After(jumps, dest, F[(f + 1) - 1], q)
        BY <3>2, <4>2
      <4> QED
        BY <3>2, <4>2, <4>3
    <3>5. q \in jumps /\ F[f][dest[q]] # 0 /\ F[f - 1][dest[q]] = 0
      BY <3>3, <3>4 DEF After
    <3>6. dest[q] \in 1 .. N
      BY <1>5, <3>2, <3>5
    <3>7. \E r \in 1 .. N : First(f, r)
      BY <3>5, <3>6
    <3> QED
      BY <3>7 DEF f
  <2> HIDE DEF K
  <2> QED
    BY <2>1, <2>2, UpTo
<1>7. \A f \in 1 .. N + 1 : \E q \in 1 .. N : First(f, q)
  <2> TAKE f \in 1 .. N + 1
  <2>1. N + 1 - f \in 0 .. N /\ N + 1 - (N + 1 - f) = f
    OBVIOUS
  <2>2. N + 1 - f \in K
    BY <1>6, <2>1
  <2> QED
    BY <2>1, <2>2
<1> DEFINE c == [f \in 1 .. N + 1 |-> CHOOSE q \in 1 .. N : First(f, q)]
<1>8. c \in [1 .. N + 1 -> 1 .. N] /\ \A f \in 1 .. N + 1 : First(f, c[f])
  BY <1>7
<1> HIDE DEF c
<1>9. PICK x \in 1 .. N + 1, y \in 1 .. N + 1 : x # y /\ c[x] = c[y]
  <2> DEFINE V == 1 .. N + 1
             W == 1 .. N
  <2>1. IsFiniteSet(V) /\ Cardinality(V) = N + 1
    BY FS_Interval
  <2>2. IsFiniteSet(W) /\ Cardinality(W) = N
    BY FS_Interval
  <2>3. Cardinality(W) < Cardinality(V)
    BY <2>1, <2>2
  <2>4. c \in [V -> W]
    BY <1>8
  <2> HIDE DEF V, W
  <2>5. \E x, y \in V : x # y /\ c[x] = c[y]
    BY ONLY <2>1, <2>2, <2>3, <2>4, FS_PigeonHole
  <2> QED
    BY <2>5 DEF V
<1>10. ASSUME NEW v \in 1 .. N + 1, NEW w \in 1 .. N + 1, v < w, c[v] = c[w]
       PROVE  FALSE
  <2> DEFINE q == c[v]
             J == {d \in 0 .. N + 1 - v : F[v + d][q] # 0}
  <2>1. q \in 0 .. N /\ F[v][q] # 0 /\ F[w - 1][q] = 0
    <3>1. c[v] \in 1 .. N /\ First(v, c[v]) /\ First(w, c[w])
      BY <1>8
    <3> QED
      BY <3>1, <1>10
  <2> HIDE DEF q
  <2>2. 0 \in J
    BY <2>1
  <2>3. ASSUME NEW d \in 1 .. N + 1 - v, d - 1 \in J
        PROVE  d \in J
    <3>1. v + d \in 1 .. N + 1 /\ (v + d) - 1 = v + (d - 1) /\ d \in 0 .. N + 1 - v
      OBVIOUS
    <3>2. F[v + (d - 1)][q] # 0
      BY <2>3
    <3> QED
      BY <1>3, <2>1, <3>1, <3>2
  <2>4. N + 1 - v \in Nat
    OBVIOUS
  <2> HIDE DEF J
  <2>5. \A d \in 0 .. N + 1 - v : d \in J
    BY <2>2, <2>3, <2>4, UpTo
  <2>6. w - 1 - v \in 0 .. N + 1 - v /\ v + (w - 1 - v) = w - 1
    BY <1>10
  <2> QED
    BY <2>1, <2>5, <2>6 DEF J
<1> QED
  <2>1. x < y \/ y < x
    BY <1>9
  <2> QED
    BY <1>9, <1>10, <2>1

Linked(N, dest) == N \in Nat /\ dest \in [1 .. N -> 0 .. N]

Ending(N, jumps, dest, F) ==
  Followed(N, jumps, dest, F) /\ \A p \in 0 .. N : Follow(N, jumps, dest, p) = F[N][p]

(* Follow is that function at its end.                                     *)
LEMMA FollowIs ==
  ASSUME NEW N, NEW jumps, NEW dest, Linked(N, dest)
  PROVE  \E F : Ending(N, jumps, dest, F)
<1> DEFINE v(f, fuel, q) == IF fuel = 0 \/ q = 0 THEN 0
                            ELSE IF q \in jumps THEN f[fuel - 1][dest[q]]
                            ELSE q
           made(f) == [fuel \in 0 .. N |-> [q \in 0 .. N |-> v(f, fuel, q)]]
           after == CHOOSE f : f = made(f)
<1>0. N \in Nat /\ dest \in [1 .. N -> 0 .. N]
  BY DEF Linked
<1> USE <1>0
<1>1. \A p : Follow(N, jumps, dest, p) = after[N][p]
  BY DEF Follow
<1>2. PICK F : Followed(N, jumps, dest, F)
  BY <1>0, FollowedIs
<1>3. F \in [0 .. N + 1 -> [0 .. N -> 0 .. N]] /\ \A q \in 0 .. N : F[0][q] = 0
  BY <1>2 DEF Followed
<1>4. \A f \in 1 .. N : \A q \in 0 .. N : F[f][q] = After(jumps, dest, F[f - 1], q)
  BY <1>2 DEF Followed
<1>5. ASSUME NEW f, NEW fuel \in 0 .. N, fuel # 0 => \A q \in 0 .. N : f[fuel - 1][q] = F[fuel - 1][q]
      PROVE  \A q \in 0 .. N : v(f, fuel, q) = F[fuel][q]
  <2> TAKE q \in 0 .. N
  <2>1. CASE fuel = 0
    BY <1>3, <2>1
  <2>2. CASE fuel # 0
    <3>1. fuel \in 1 .. N
      BY <2>2
    <3>2. F[fuel][q] = After(jumps, dest, F[fuel - 1], q)
      BY <1>4, <3>1
    <3>3. q # 0 => dest[q] \in 0 .. N
      OBVIOUS
    <3> QED
      BY <1>5, <2>2, <3>2, <3>3 DEF After
  <2> QED
    BY <2>1, <2>2
<1>6. after = made(after)
  <2> DEFINE g == [fuel \in 0 .. N |-> F[fuel]]
  <2>1. \A fuel \in 0 .. N : g[fuel] = F[fuel] /\ F[fuel] \in [0 .. N -> 0 .. N]
    <3>1. \A fuel \in 0 .. N : fuel \in 0 .. N + 1
      OBVIOUS
    <3>2. \A fuel \in 0 .. N : F[fuel] \in [0 .. N -> 0 .. N]
      BY <1>3, <3>1
    <3> QED
      BY <3>2
  <2>2. ASSUME NEW fuel \in 0 .. N
        PROVE  [q \in 0 .. N |-> v(g, fuel, q)] = g[fuel]
    <3>1. fuel # 0 => g[fuel - 1] = F[fuel - 1]
      BY <2>1
    <3> HIDE DEF g
    <3>2. \A q \in 0 .. N : v(g, fuel, q) = F[fuel][q]
      BY <1>5, <3>1
    <3> HIDE DEF v
    <3> QED
      BY <2>1, <3>2
  <2>3. g = [fuel \in 0 .. N |-> g[fuel]]
    OBVIOUS
  <2> HIDE DEF g
  <2>4. g = made(g)
    <3> HIDE DEF v
    <3> QED
      BY <2>2, <2>3
  <2> HIDE DEF made
  <2> QED
    BY <2>4
<1> HIDE DEF after
<1>7. \A fuel \in 0 .. N : \A q \in 0 .. N : after[fuel][q] = v(after, fuel, q)
  <2>1. \A fuel \in 0 .. N : made(after)[fuel] = [q \in 0 .. N |-> v(after, fuel, q)]
    OBVIOUS
  <2>2. \A fuel \in 0 .. N : after[fuel] = [q \in 0 .. N |-> v(after, fuel, q)]
    <3> HIDE DEF made, v
    <3> QED
      BY <1>6, <2>1
  <2> HIDE DEF v
  <2> QED
    BY <2>2
<1> DEFINE K == {fuel \in 0 .. N : \A q \in 0 .. N : after[fuel][q] = F[fuel][q]}
<1>8. 0 \in K
  BY <1>5, <1>7
<1>9. ASSUME NEW n \in 1 .. N, n - 1 \in K
      PROVE  n \in K
  <2>1. \A q \in 0 .. N : after[n - 1][q] = F[n - 1][q]
    BY <1>9
  <2>2. n \in 0 .. N
    OBVIOUS
  <2>3. \A q \in 0 .. N : v(after, n, q) = F[n][q]
    <3> HIDE DEF v
    <3> QED
      BY <1>5, <2>1, <2>2
  <2> HIDE DEF v
  <2> QED
    BY <1>7, <2>2, <2>3
<1> HIDE DEF K
<1>10. N \in K
  <2>1. N \in 0 .. N
    OBVIOUS
  <2> QED
    BY <1>8, <1>9, <2>1, UpTo
<1> QED
  BY <1>1, <1>2, <1>10 DEF K, Ending

Flows(N, jumps, dest) ==
  /\ Follow(N, jumps, dest, 0) = 0
  /\ \A p \in 0 .. N : Follow(N, jumps, dest, p) \in 0 .. N
  /\ \A p \in 1 .. N : Follow(N, jumps, dest, p) =
                         IF p \in jumps THEN Follow(N, jumps, dest, dest[p]) ELSE p

(* Where control comes to is where it comes to from the next instruction.  *)
LEMMA FollowStep ==
  ASSUME NEW N, NEW jumps, NEW dest, Linked(N, dest)
  PROVE  Flows(N, jumps, dest)
<1>0. N \in Nat /\ dest \in [1 .. N -> 0 .. N]
  BY DEF Linked
<1> USE <1>0
<1>1. PICK F : Ending(N, jumps, dest, F)
  BY FollowIs
<1>2. \A p \in 0 .. N : F[N + 1][p] = F[N][p]
  <2>1. Followed(N, jumps, dest, F)
    BY <1>1 DEF Ending
  <2> QED
    BY <2>1, FollowedSettles
<1>3. \A p \in 0 .. N : F[N + 1][p] = After(jumps, dest, F[N], p) /\ F[N][p] \in 0 .. N
  <2>1. N + 1 \in 1 .. N + 1 /\ (N + 1) - 1 = N /\ N \in 0 .. N + 1
    OBVIOUS
  <2> QED
    BY <1>1, <2>1 DEF Followed, Ending
<1>4. 0 \in 0 .. N
  OBVIOUS
<1>5. \A p \in 0 .. N : Follow(N, jumps, dest, p) = After(jumps, dest, F[N], p)
  BY <1>1, <1>2, <1>3 DEF Ending
<1>6. \A p \in 1 .. N :
        Follow(N, jumps, dest, p) = IF p \in jumps THEN Follow(N, jumps, dest, dest[p]) ELSE p
  <2> TAKE p \in 1 .. N
  <2>1. p \in 0 .. N /\ p # 0 /\ dest[p] \in 0 .. N
    OBVIOUS
  <2>2. Follow(N, jumps, dest, p) = IF p \in jumps THEN F[N][dest[p]] ELSE p
    BY <1>5, <2>1 DEF After
  <2>3. Follow(N, jumps, dest, dest[p]) = F[N][dest[p]]
    BY <1>1, <2>1 DEF Ending
  <2> QED
    BY <2>2, <2>3
<1>7. Follow(N, jumps, dest, 0) = 0
  BY <1>4, <1>5 DEF After
<1>8. \A p \in 0 .. N : Follow(N, jumps, dest, p) \in 0 .. N
  BY <1>1, <1>3 DEF Ending
<1> QED
  BY <1>6, <1>7, <1>8 DEF Flows

(* Two codes.  Instructions L of the one of N go over into those of the    *)
(* other of M: at[i] is where i begins in it.  A jump of the one is a jump *)
(* of the other, or it is left out since it goes to the next instruction.  *)
(* From any other instruction control comes to what W pairs with it.       *)
Skips(L, aj, ad, at, i) == i \in aj /\ ad[i] = i + 1 /\ i + 1 \in L /\ at[i + 1] = at[i]

Goes(L, aj, ad, at, oj, od, i) ==
  i \in aj /\ at[i] # 0 /\ at[i] \in oj /\ ad[i] \in L /\ od[at[i]] = at[ad[i]]

Stops(at, oj, a, W, i) == at[i] # 0 /\ at[i] \notin oj /\ a # 0 /\ <<a, at[i]>> \in W

(* So control comes in the two to what W pairs.                            *)
LEMMA FlowsAlike ==
  ASSUME NEW N \in Nat, NEW aj, NEW ad \in [1 .. N -> 0 .. N],
         NEW M \in Nat, NEW oj, NEW od \in [1 .. M -> 0 .. M],
         NEW L \in SUBSET (1 .. N), NEW at \in [L -> 0 .. M], NEW W,
         \A i \in L : \/ Skips(L, aj, ad, at, i)
                      \/ Goes(L, aj, ad, at, oj, od, i)
                      \/ Stops(at, oj, Follow(N, aj, ad, i), W, i)
  PROVE  \A i \in L :
           LET a == Follow(N, aj, ad, i)
               o == Follow(M, oj, od, at[i])
           IN  \/ a = 0 /\ o = 0
               \/ a # 0 /\ o # 0 /\ <<a, o>> \in W
<1> DEFINE A(i) == Follow(N, aj, ad, i)
           O(i) == Follow(M, oj, od, at[i])
<1>a. Linked(N, ad)
  BY DEF Linked
<1>b. Linked(M, od)
  BY DEF Linked
<1>c. Flows(N, aj, ad) /\ Flows(M, oj, od)
  BY <1>a, <1>b, FollowStep
<1>1. PICK F : Ending(N, aj, ad, F)
  BY ONLY <1>a, FollowIs
<1>2. PICK H : Ending(M, oj, od, H)
  BY ONLY <1>b, FollowIs
<1>3. ASSUME NEW i \in L
      PROVE  A(i) = IF i \in aj THEN Follow(N, aj, ad, ad[i]) ELSE i
  <2>1. \A p \in 1 .. N : Follow(N, aj, ad, p) = IF p \in aj THEN Follow(N, aj, ad, ad[p]) ELSE p
    BY <1>c DEF Flows
  <2> QED
    BY <2>1
<1>4. ASSUME NEW i \in L, at[i] # 0
      PROVE  O(i) = IF at[i] \in oj THEN Follow(M, oj, od, od[at[i]]) ELSE at[i]
  <2>1. at[i] \in 1 .. M
    BY <1>4
  <2>2. \A p \in 1 .. M : Follow(M, oj, od, p) = IF p \in oj THEN Follow(M, oj, od, od[p]) ELSE p
    BY <1>c DEF Flows
  <2> QED
    BY <2>1, <2>2
<1>5. ASSUME NEW i \in L, Skips(L, aj, ad, at, i)
      PROVE  A(i) = A(i + 1) /\ O(i) = O(i + 1) /\ i + 1 \in L
  BY <1>3, <1>5 DEF Skips
<1>6. ASSUME NEW i \in L, Goes(L, aj, ad, at, oj, od, i)
      PROVE  A(i) = A(ad[i]) /\ O(i) = O(ad[i]) /\ ad[i] \in L
  BY <1>3, <1>4, <1>6 DEF Goes
<1>7. ASSUME NEW i \in L, Stops(at, oj, A(i), W, i)
      PROVE  A(i) # 0 /\ O(i) # 0 /\ <<A(i), O(i)>> \in W
  <2>1. O(i) = at[i]
    BY <1>4, <1>7 DEF Stops
  <2> HIDE DEF A, O
  <2> QED
    BY <1>7, <2>1 DEF Stops
<1>8. \A i \in L : \/ Skips(L, aj, ad, at, i)
                   \/ Goes(L, aj, ad, at, oj, od, i)
                   \/ Stops(at, oj, A(i), W, i)
  OBVIOUS
<1>9. \A i \in L : A(i) = F[N][i] /\ O(i) = H[M][at[i]]
  <2> TAKE i \in L
  <2>1. i \in 0 .. N /\ at[i] \in 0 .. M
    OBVIOUS
  <2> QED
    BY <1>1, <1>2, <2>1 DEF Ending
<1> HIDE DEF A, O
\* What A comes to, O comes to.
<1> DEFINE Right(i) == A(i) # 0 /\ O(i) # 0 /\ <<A(i), O(i)>> \in W
           K == {f \in 0 .. N : \A i \in L : F[f][i] # 0 => Right(i)}
<1>10. N \in K
  <2>1. 0 \in K
    <3>1. \A i \in L : F[0][i] = 0
      BY <1>1 DEF Followed, Ending
    <3> QED
      BY <3>1
  <2>2. ASSUME NEW f \in 1 .. N, f - 1 \in K
        PROVE  f \in K
    <3> SUFFICES ASSUME NEW i \in L, F[f][i] # 0
                 PROVE  Right(i)
      OBVIOUS
    <3>1. i \in 0 .. N /\ f \in 1 .. N + 1
      OBVIOUS
    <3>2. F[f][i] = After(aj, ad, F[f - 1], i)
      BY <1>1, <3>1 DEF Followed, Ending
    <3>3. CASE Skips(L, aj, ad, at, i)
      <4>1. F[f - 1][i + 1] # 0
        BY <3>2, <3>3 DEF After, Skips
      <4>2. A(i) = A(i + 1) /\ O(i) = O(i + 1) /\ i + 1 \in L
        BY <1>5, <3>3
      <4> QED
        BY <2>2, <4>1, <4>2
    <3>4. CASE Goes(L, aj, ad, at, oj, od, i)
      <4>1. F[f - 1][ad[i]] # 0
        BY <3>2, <3>4 DEF After, Goes
      <4>2. A(i) = A(ad[i]) /\ O(i) = O(ad[i]) /\ ad[i] \in L
        BY <1>6, <3>4
      <4> QED
        BY <2>2, <4>1, <4>2
    <3>5. CASE Stops(at, oj, A(i), W, i)
      BY <1>7, <3>5
    <3> QED
      BY <1>8, <3>3, <3>4, <3>5
  <2>3. N \in 0 .. N
    OBVIOUS
  <2> HIDE DEF K
  <2> QED
    BY <2>1, <2>2, <2>3, UpTo
\* And the other way round.
<1> DEFINE J == {f \in 0 .. M : \A i \in L : H[f][at[i]] # 0 => A(i) # 0}
<1>11. M \in J
  <2>1. 0 \in J
    <3>1. \A i \in L : H[0][at[i]] = 0
      BY <1>2 DEF Followed, Ending
    <3> QED
      BY <3>1
  <2>2. ASSUME NEW f \in 1 .. M, f - 1 \in J
        PROVE  f \in J
    <3> DEFINE C(i) == H[f][at[i]] # 0 => A(i) # 0
               D == {d \in 0 .. N : \A i \in L : i = N - d => C(i)}
    <3>1. ASSUME NEW i \in L, i + 1 \in L => C(i + 1)
          PROVE  C(i)
      <4>1. CASE Skips(L, aj, ad, at, i)
        <5>1. A(i) = A(i + 1) /\ i + 1 \in L /\ at[i + 1] = at[i]
          BY <1>5, <4>1 DEF Skips
        <5> QED
          BY <3>1, <5>1
      <4>2. CASE Goes(L, aj, ad, at, oj, od, i)
        <5>1. A(i) = A(ad[i]) /\ ad[i] \in L
          BY <1>6, <4>2
        <5>2. at[i] \in 0 .. M /\ f \in 1 .. M + 1
          OBVIOUS
        <5>3. H[f][at[i]] = After(oj, od, H[f - 1], at[i])
          BY <1>2, <5>2 DEF Followed, Ending
        <5>4. H[f][at[i]] = H[f - 1][at[ad[i]]]
          BY <4>2, <5>3 DEF After, Goes
        <5> QED
          BY <2>2, <5>1, <5>4
      <4>3. CASE Stops(at, oj, A(i), W, i)
        BY <1>7, <4>3
      <4> QED
        BY <1>8, <4>1, <4>2, <4>3
    <3> HIDE DEF C
    <3>2. 0 \in D
      <4>1. ASSUME NEW i \in L, i = N - 0
            PROVE  C(i)
        <5>1. i + 1 \notin L
          BY <4>1
        <5> QED
          BY <3>1, <5>1
      <4> QED
        BY <4>1
    <3>3. ASSUME NEW d \in 1 .. N, d - 1 \in D
          PROVE  d \in D
      <4>1. ASSUME NEW i \in L, i = N - d
            PROVE  C(i)
        <5>1. i + 1 = N - (d - 1)
          BY <4>1
        <5>2. i + 1 \in L => C(i + 1)
          BY <3>3, <5>1
        <5> QED
          BY <3>1, <5>2
      <4> QED
        BY <4>1
    <3> HIDE DEF D
    <3>4. \A d \in 0 .. N : d \in D
      BY <3>2, <3>3, UpTo
    <3>5. ASSUME NEW i \in L
          PROVE  C(i)
      <4>1. N - i \in 0 .. N /\ i = N - (N - i)
        OBVIOUS
      <4>2. N - i \in D
        BY <3>4, <4>1
      <4> QED
        BY <4>1, <4>2 DEF D
    <3> QED
      BY <3>5 DEF C
  <2>3. M \in 0 .. M
    OBVIOUS
  <2> HIDE DEF J
  <2> QED
    BY <2>1, <2>2, <2>3, UpTo
<1>12. ASSUME NEW i \in L
       PROVE  \/ A(i) = 0 /\ O(i) = 0
              \/ A(i) # 0 /\ O(i) # 0 /\ <<A(i), O(i)>> \in W
  <2>1. A(i) # 0 => Right(i)
    BY <1>9, <1>10
  <2>2. O(i) # 0 => A(i) # 0
    BY <1>9, <1>11
  <2> QED
    BY <2>1, <2>2
<1> QED
  BY <1>12 DEF A, O

---------------------------------------------------------------------------
(* What pass 3 has written.                                                *)

OutRec == [op : AllOps \cup G!AllOps, addr : Nat, size : Nat, operand : Int, src : Nat]

\* The first m - 1 instructions of it that are kept, at their new addresses
\* and with their operands.
Sent(it, kept, T, oper, m, os) ==
  /\ os \in Seq(OutRec)
  /\ \A j \in 1 .. Len(os) :
       /\ os[j].src \in 1 .. m - 1 /\ it[os[j].src].form # "deleted"
       /\ os[j].op = it[os[j].src].op /\ os[j].addr = T[os[j].src]
       /\ os[j].size = kept[os[j].src] /\ os[j].operand = oper[os[j].src]
  /\ \A i \in 1 .. m - 1 : it[i].form # "deleted" => \E j \in 1 .. Len(os) : os[j].src = i

\* The whole of the new layout, and the labels in it.
Mapped(it, sz, kept, p, o, T) ==
  Laid(it, sz, T, Len(it) + 1, kept) /\ Moved(it, sz, p, o, T, Len(it) + 1)

(* A deleted instruction is not written.                                   *)
LEMMA SentNot ==
  ASSUME NEW it, NEW kept, NEW T, NEW oper, NEW m \in Nat \ {0}, NEW os,
         Sent(it, kept, T, oper, m, os), it[m].form = "deleted"
  PROVE  Sent(it, kept, T, oper, m + 1, os)
<1>1. /\ 1 .. m - 1 \subseteq 1 .. (m + 1) - 1
      /\ \A i \in 1 .. (m + 1) - 1 : i # m => i \in 1 .. m - 1
  OBVIOUS
<1> QED
  BY <1>1 DEF Sent

(* Another one is.                                                         *)
LEMMA SentMore ==
  ASSUME NEW it, NEW kept, NEW T, NEW oper, NEW m \in Nat \ {0}, NEW os,
         Sent(it, kept, T, oper, m, os), it[m].form # "deleted",
         NEW r \in OutRec, r.src = m, r.op = it[m].op, r.addr = T[m], r.size = kept[m],
         r.operand = oper[m]
  PROVE  Sent(it, kept, T, oper, m + 1, Append(os, r))
<1> DEFINE new == Append(os, r)
           n == Len(os)
<1>1. os \in Seq(OutRec) /\ n \in Nat
  BY DEF Sent
<1>2. new \in Seq(OutRec) /\ Len(new) = n + 1 /\ new[n + 1] = r /\ \A j \in 1 .. n : new[j] = os[j]
  BY <1>1
<1> HIDE DEF new
<1>3. /\ 1 .. m - 1 \subseteq 1 .. (m + 1) - 1
      /\ \A i \in 1 .. (m + 1) - 1 : i # m => i \in 1 .. m - 1
      /\ m \in 1 .. (m + 1) - 1
  OBVIOUS
<1>4. ASSUME NEW j \in 1 .. Len(new)
      PROVE  /\ new[j].src \in 1 .. (m + 1) - 1 /\ it[new[j].src].form # "deleted"
             /\ new[j].op = it[new[j].src].op /\ new[j].addr = T[new[j].src]
             /\ new[j].size = kept[new[j].src] /\ new[j].operand = oper[new[j].src]
  <2>1. CASE j = n + 1
    BY <1>2, <1>3, <2>1
  <2>2. CASE j # n + 1
    <3>1. j \in 1 .. n /\ new[j] = os[j]
      BY <1>1, <1>2, <2>2
    <3> HIDE DEF n
    <3> QED
      BY <1>3, <3>1 DEF Sent, n
  <2> QED
    BY <2>1, <2>2
<1>5. ASSUME NEW i \in 1 .. (m + 1) - 1, it[i].form # "deleted"
      PROVE  \E j \in 1 .. Len(new) : new[j].src = i
  <2>1. CASE i = m
    BY <1>1, <1>2, <2>1
  <2>2. CASE i # m
    <3>1. PICK j \in 1 .. n : os[j].src = i
      BY <1>3, <1>5, <2>2 DEF Sent
    <3>2. j \in 1 .. Len(new) /\ new[j] = os[j]
      BY <1>1, <1>2
    <3> QED
      BY <3>1, <3>2
  <2> QED
    BY <2>1, <2>2
<1> QED
  BY <1>2, <1>4, <1>5 DEF Sent

(* Pass 3 begins with the layout that pass 2 has made.                     *)
LEMMA RelocateMaps ==
  ASSUME NEW R, NEW it \in Seq(R), NEW sz, NEW kept, NEW p, NEW o, NEW c, NEW m, NEW lab, NEW pc,
         Relocating(it, sz, kept, p, o, c, m, lab, pc), m > Len(it)
  PROVE  \E T : Mapped(it, sz, kept, p, o, T) /\ T[1] = 0
<1>1. Len(it) \in Nat /\ m = Len(it) + 1
  BY DEF Relocating
<1>2. PICK T : Laid(it, sz, T, m, kept) /\ Moved(it, sz, p, o, T, m)
  BY DEF Relocating
<1>3. T[1] = 0
  BY <1>2 DEF Laid
<1> QED
  BY <1>1, <1>2, <1>3 DEF Mapped

(* The new addresses grow by what is kept.                                 *)
LEMMA MappedFacts ==
  ASSUME NEW it, Len(it) \in Nat, NEW sz, NEW kept, NEW p, NEW o, NEW T,
         Mapped(it, sz, kept, p, o, T)
  PROVE  /\ T \in [1 .. Len(it) + 1 -> Nat] /\ T[1] = 0
         /\ \A i \in 1 .. Len(it) : T[i + 1] = T[i] + kept[i]
         /\ \A i \in 1 .. Len(it) + 1, j \in 1 .. Len(it) + 1 : i <= j => T[i] <= T[j]
         /\ \A l \in Labels : p[l] # 0 /\ p[l] < Len(it) + 1 => o[l] = T[p[l]]
<1>1. Len(it) \in Nat /\ (Len(it) + 1) - 1 = Len(it)
  OBVIOUS
<1>2. /\ T \in [1 .. Len(it) + 1 -> Nat] /\ T[1] = 0
      /\ \A i \in 1 .. (Len(it) + 1) - 1 : T[i + 1] = T[i] + kept[i]
      /\ \A i \in 1 .. Len(it) + 1, j \in 1 .. Len(it) + 1 : i <= j => T[i] <= T[j]
  BY DEF Mapped, Laid
<1>3. \A l \in Labels : p[l] # 0 /\ p[l] < Len(it) + 1 => o[l] = T[p[l]]
  BY DEF Mapped, Moved
<1> QED
  BY <1>1, <1>2, <1>3

---------------------------------------------------------------------------
(* Glulx: what is left out, and what is written.                           *)

\* Only a jump to the next instruction is left out.
GChosen ==
  \A i \in 1 .. Len(items) :
    items[i].form = "deleted" => items[i].op = "jump" /\ place[items[i].label] = i + 1

\* The operand of a branch, from the new addresses.
GOperands(it, o, T) ==
  [i \in 1 .. Len(it) |->
    IF it[i].op \notin G!Transfers \/ o[it[i].label] < 0 THEN 0
    ELSE o[it[i].label] - T[i + 1] + 2]

\* A branch to a label that is nowhere.
GLost(it, o, i) ==
  it[i].form # "deleted" /\ it[i].op \in G!Transfers /\ o[it[i].label] < 0

GSentTo(m) ==
  \E T : /\ Mapped(items, size, GKept(items), place, offset, T) /\ newpc = T[m]
         /\ Sent(items, GKept(items), T, GOperands(items, offset, T), m, out)
         /\ errors = {} => \A i \in 1 .. m - 1 : ~ GLost(items, offset, i)

GFlow ==
  /\ GChosen
  /\ phase \notin {"emit", "done"} => out = <<>>
  /\ phase = "emit" => GSentTo(k)
  /\ phase = "done" => GSentTo(Len(items) + 1)

(* Pass 1 leaves out no other.                                             *)
LEMMA GFlowDecides ==
  ASSUME GInv, GFlow, G!Decide
  PROVE  GFlow'
<1> DEFINE f == G!Form(k)
           jt == [items EXCEPT ![k].form = f]
<1>1. /\ phase = "decide" /\ k <= Len(items) /\ items' = jt
      /\ phase' = phase /\ place' = place /\ out' = out
  BY DEF G!Decide
<1>2. GFound /\ k \in 1 .. Len(items) + 1 /\ Unmoved(items, size, place, offset)
  BY <1>1, GFinds DEF GInv
<1>3. /\ GHeld /\ items \in Seq(GItem) /\ Len(items) \in Nat /\ size \in Nat
      /\ (\A i \in 1 .. Len(items) : GRight(items[i]))
      /\ Straight(items, size, GLong(items)) /\ Placing(Len(items), place, offset, chain)
      /\ Inside(items, place)
  BY <1>2, GBasics DEF GFound, GDecided
<1>4. k \in 1 .. Len(items)
  BY <1>1, <1>2, <1>3
<1>5. f \in GForms
  BY <1>2, <1>3, <1>4, GFormFits
<1>6. ASSUME f = "deleted"
      PROVE  items[k].op = "jump" /\ place[items[k].label] = k + 1
  <2> DEFINE l == items[k].label
  <2>1. items[k].op = "jump" /\ G!OldAddr(k) = 2
    BY <1>6 DEF G!Form
  <2>2. l \in Labels
    <3>1. GRight(items[k])
      BY <1>3, <1>4
    <3> QED
      BY <2>1, <3>1 DEF GRight, G!Transfers
  <2>3. offset[l] = items[k].start + G!Front(items[k].op) + 4 /\ items[k].start \in Nat
    <3>1. items[k] \in GItem
      BY <1>3, <1>4
    <3>2. items[k].start \in Nat /\ G!Front(items[k].op) \in Nat
      BY <3>1 DEF GItem, G!Front
    <3>3. offset[l] \in Int
      BY <1>3, <2>2 DEF Placing
    <3>4. offset[l] - (items[k].start + G!Front(items[k].op) + 4) + 2 = 2
      BY <2>1 DEF G!OldAddr
    <3> QED
      BY <3>2, <3>3, <3>4
  <2>4. GLong(items)[k] = G!Front(items[k].op) + 4 /\ G!Front(items[k].op) \in Nat
    BY <1>3, <1>4, <2>1, GLengthsHold DEF G!Transfers, G!Front
  <2>5. Spot(items, size, k + 1) = offset[l]
    <3>1. Spot(items, size, k + 1) = Spot(items, size, k) + GLong(items)[k]
      BY <1>3, <1>4 DEF Straight
    <3>2. Spot(items, size, k) = items[k].start
      BY <1>4 DEF Spot
    <3> QED
      BY <2>3, <2>4, <3>1, <3>2
  <2>6. place[l] # 0
    <3>1. offset[l] # -1
      BY <2>3, <2>4
    <3> QED
      BY <1>3, <2>2, <3>1 DEF Placing
  <2>7. place[l] \in 1 .. Len(items) + 1
    BY <1>3, <2>2, <2>6 DEF Placing
  <2>8. Spot(items, size, place[l]) = Spot(items, size, k + 1)
    BY <1>2, <2>2, <2>5, <2>6 DEF Unmoved
  <2>9. k + 1 \in 1 .. Len(items) + 1
    BY <1>3, <1>4
  <2>10. /\ Spot(items, size, k + 1) \in Nat
         /\ \A i \in 1 .. Len(items) + 1, j \in 1 .. Len(items) + 1 :
              i < j => Spot(items, size, i) < Spot(items, size, j)
    BY <1>3, <2>9 DEF Straight
  <2>11. ~ (place[l] < k + 1) /\ ~ (k + 1 < place[l])
    BY <2>7, <2>8, <2>9, <2>10
  <2>12. place[l] = k + 1
    BY <1>3, <2>7, <2>9, <2>11
  <2> QED
    BY <2>1, <2>12
<1> HIDE DEF f
<1>7. /\ Len(jt) = Len(items)
      /\ \A i \in 1 .. Len(items) :
           /\ jt[i].op = items[i].op /\ jt[i].label = items[i].label
           /\ jt[i].form = IF i = k THEN f ELSE items[i].form
  BY <1>3, <1>4, <1>5, GSetForm
<1> HIDE DEF jt
<1>8. \A i \in 1 .. Len(jt) :
        jt[i].form = "deleted" => jt[i].op = "jump" /\ place[jt[i].label] = i + 1
  BY <1>6, <1>7 DEF GFlow, GChosen
<1>9. GChosen'
  BY <1>1, <1>8 DEF GChosen
<1> QED
  BY <1>1, <1>9 DEF GFlow

(* Pass 3 writes an instruction.                                           *)
LEMMA GFlowEmits ==
  ASSUME GInv, GFlow, G!Emit
  PROVE  GFlow'
<1>1. /\ phase = "emit" /\ k <= Len(items) /\ phase' = phase /\ k' = k + 1
      /\ items' = items /\ size' = size /\ place' = place /\ offset' = offset
  BY DEF G!Emit, G!routine
<1>2. GFound /\ Transferring(items, size, GKept(items), place, offset, k, newpc)
  BY <1>1, GFinds DEF GInv
<1>3. /\ items \in Seq(GItem) /\ Len(items) \in Nat /\ \A i \in 1 .. Len(items) : GRight(items[i])
      /\ GKept(items) \in [1 .. Len(items) -> Nat] /\ Placing(Len(items), place, offset, chain)
  BY <1>2, GBasics DEF GFound
<1>4. k \in 1 .. Len(items) /\ k \in Nat \ {0}
  BY <1>1, <1>2, <1>3 DEF Transferring
<1> DEFINE kept == GKept(items)
           oper(T) == GOperands(items, offset, T)
<1>5. PICK T : /\ Mapped(items, size, kept, place, offset, T) /\ newpc = T[k]
               /\ Sent(items, kept, T, oper(T), k, out)
               /\ errors = {} => \A i \in 1 .. k - 1 : ~ GLost(items, offset, i)
  BY <1>1 DEF GFlow, GSentTo
<1>6. T \in [1 .. Len(items) + 1 -> Nat] /\ T[k + 1] = T[k] + kept[k]
  BY <1>3, <1>4, <1>5, MappedFacts
<1>7. T[k] \in Nat /\ T[k + 1] \in Nat /\ kept[k] \in Nat
  BY <1>3, <1>4, <1>6
<1>8. CASE items[k].form = "deleted"
  <2>1. out' = out /\ newpc' = newpc /\ errors' = errors
    BY <1>8 DEF G!Emit
  <2>2. kept[k] = 0
    BY <1>4, <1>8 DEF GKept
  <2>3. newpc' = T[k + 1]
    BY <1>5, <1>6, <1>7, <2>1, <2>2
  <2>4. Sent(items, kept, T, oper(T), k + 1, out)
    BY <1>4, <1>5, <1>8, SentNot
  <2>5. errors' = {} => \A i \in 1 .. (k + 1) - 1 : ~ GLost(items, offset, i)
    <3>1. ~ GLost(items, offset, k)
      BY <1>8 DEF GLost
    <3>2. \A i \in 1 .. (k + 1) - 1 : i = k \/ i \in 1 .. k - 1
      BY <1>4
    <3> QED
      BY <1>5, <2>1, <3>1, <3>2
  <2> HIDE DEF kept, oper
  <2>6. \E U : /\ Mapped(items, size, kept, place, offset, U) /\ newpc' = U[k + 1]
               /\ Sent(items, kept, U, oper(U), k + 1, out)
               /\ errors' = {} => \A i \in 1 .. (k + 1) - 1 : ~ GLost(items, offset, i)
    BY <1>5, <2>3, <2>4, <2>5
  <2>7. GSentTo(k)'
    BY <1>1, <2>1, <2>6 DEF GSentTo, kept, oper
  <2>8. GChosen'
    BY <1>1 DEF GFlow, GChosen
  <2> QED
    BY <1>1, <2>7, <2>8 DEF GFlow
<1>9. CASE items[k].form # "deleted"
  <2> DEFINE r == [ op |-> items[k].op, addr |-> newpc, size |-> G!Kept(k),
                    operand |-> G!Operand(k), src |-> k ]
  <2>1. /\ out' = Append(out, r) /\ newpc' = newpc + G!Kept(k)
        /\ errors' = errors \cup (IF G!Unplaced(k) THEN {"unreachable"} ELSE {})
                            \cup (IF G!OutOfRange(k) THEN {"range"} ELSE {})
    BY <1>9 DEF G!Emit
  <2>2. G!Kept(k) = kept[k]
    BY <1>4 DEF G!Kept, GKept
  <2>3. newpc' = T[k + 1]
    BY <1>5, <1>6, <2>1, <2>2
  <2>4. items[k].op \in G!Transfers => offset[items[k].label] \in Int
    <3>1. items[k].op \in G!Transfers => items[k].label \in Labels
      BY <1>3, <1>4 DEF GRight
    <3>2. \A l \in Labels : offset[l] \in Int
      BY <1>3 DEF Placing
    <3> QED
      BY <3>1, <3>2
  <2>5. G!Operand(k) = oper(T)[k] /\ G!Operand(k) \in Int
    <3>1. oper(T)[k] = IF items[k].op \notin G!Transfers \/ offset[items[k].label] < 0 THEN 0
                       ELSE offset[items[k].label] - T[k + 1] + 2
      BY <1>4 DEF GOperands
    <3>2. G!Operand(k) = IF items[k].op \notin G!Transfers \/ G!Unplaced(k) THEN 0
                         ELSE offset[items[k].label] - T[k + 1] + 2
      BY <1>5, <1>6, <2>2 DEF G!Operand
    <3>3. items[k].op \in G!Transfers => (G!Unplaced(k) <=> offset[items[k].label] < 0)
      BY DEF G!Unplaced
    <3> HIDE DEF oper
    <3> QED
      BY <1>7, <2>4, <3>1, <3>2, <3>3
  <2>6. r \in OutRec
    <3>1. items[k] \in GItem
      BY <1>3, <1>4
    <3>2. items[k].op \in AllOps \cup G!AllOps /\ newpc \in Nat /\ G!Kept(k) \in Nat
      BY <1>5, <1>7, <2>2, <3>1 DEF GItem
    <3> QED
      BY <1>4, <2>5, <3>2 DEF OutRec
  <2>7. /\ r.src = k /\ r.op = items[k].op /\ r.addr = T[k] /\ r.size = kept[k]
        /\ r.operand = oper(T)[k]
    BY <1>5, <2>2, <2>5
  <2> HIDE DEF r, kept, oper
  <2>8. Sent(items, kept, T, oper(T), k + 1, Append(out, r))
    BY <1>4, <1>5, <1>9, <2>6, <2>7, SentMore
  <2>9. errors' = {} => \A i \in 1 .. (k + 1) - 1 : ~ GLost(items, offset, i)
    <3>1. errors' = {} => errors = {} /\ ~ G!Unplaced(k)
      BY <2>1
    <3>2. ~ G!Unplaced(k) => ~ GLost(items, offset, k)
      BY DEF G!Unplaced, GLost
    <3>3. \A i \in 1 .. (k + 1) - 1 : i = k \/ i \in 1 .. k - 1
      BY <1>4
    <3> QED
      BY <1>5, <3>1, <3>2, <3>3
  <2>10. \E U : /\ Mapped(items, size, kept, place, offset, U) /\ newpc' = U[k + 1]
                /\ Sent(items, kept, U, oper(U), k + 1, out')
                /\ errors' = {} => \A i \in 1 .. (k + 1) - 1 : ~ GLost(items, offset, i)
    BY <1>5, <2>1, <2>3, <2>8, <2>9
  <2>11. GSentTo(k)'
    BY <1>1, <2>10 DEF GSentTo, kept, oper
  <2>12. GChosen'
    BY <1>1 DEF GFlow, GChosen
  <2> QED
    BY <1>1, <2>11, <2>12 DEF GFlow
<1> QED
  BY <1>8, <1>9

(* Assembly leaves nothing out.                                            *)
LEMMA GFlowAssembles ==
  ASSUME GInv, GFlow, NEW op, NEW n, NEW l, G!Assemble(op, n, l), phase' \in {"assemble", "decide"}
  PROVE  GFlow'
<1> DEFINE r == [op |-> op, len |-> n, label |-> l, start |-> size, form |-> "long"]
           jt == Append(items, r)
<1>1. phase = "assemble" /\ items' = jt /\ out' = out
  BY DEF G!Assemble
<1>2. items \in Seq(GItem) /\ Len(items) \in Nat /\ \A i \in 1 .. Len(items) : items[i].form = "long"
  BY <1>1, GBasics DEF GInv
<1>3. r.form = "long"
  OBVIOUS
<1> HIDE DEF r
<1>4. Len(jt) = Len(items) + 1 /\ jt[Len(items) + 1] = r /\ \A i \in 1 .. Len(items) : jt[i] = items[i]
  BY <1>2
<1> HIDE DEF jt
<1>5. \A i \in 1 .. Len(jt) : jt[i].form = "long"
  BY <1>2, <1>3, <1>4
<1>6. GChosen'
  BY <1>1, <1>5 DEF GChosen
<1> QED
  BY <1>1, <1>6 DEF GFlow

(* A step of the Glulx passes.                                             *)
LEMMA GFlowStep ==
  ASSUME GInv, GFlow, G!Next
  PROVE  GFlow'
<1>1. CASE G!AssembleInstruction
  <2>1. \E op, n, l : G!Assemble(op, n, l)
    BY <1>1 DEF G!AssembleInstruction
  <2>2. phase' = "assemble"
    BY <1>1, <2>1 DEF G!AssembleInstruction, G!Assemble
  <2> QED
    BY <2>1, <2>2, GFlowAssembles
<1>2. CASE \E l \in Labels : G!AssembleLabel(l)
  <2>1. phase = "assemble" /\ phase' = phase /\ items' = items /\ out' = out
    BY <1>2 DEF G!AssembleLabel
  <2>2. \A i \in 1 .. Len(items) : items[i].form = "long"
    BY <2>1 DEF GInv
  <2>3. GChosen'
    BY <2>1, <2>2 DEF GChosen
  <2> QED
    BY <2>1, <2>3 DEF GFlow
<1>3. CASE G!AssembleRoutineEnd
  <2>1. CASE G!Assemble("return", 0, G!NoLabel) /\ phase' = "decide"
    BY <2>1, GFlowAssembles
  <2>2. CASE /\ phase = "assemble" /\ dead /\ phase' = "decide"
             /\ UNCHANGED <<G!routine, offset, k, label, newpc, out, errors>>
    <3>1. items' = items /\ place' = place /\ out' = out
      BY <2>2 DEF G!routine
    <3> QED
      BY <2>2, <3>1 DEF GFlow, GChosen
  <2> QED
    BY <1>3, <2>1, <2>2 DEF G!AssembleRoutineEnd
<1>4. CASE G!Decide
  BY <1>4, GFlowDecides
<1>5. CASE G!EndDecide
  <2>1. phase = "decide" /\ phase' = "relocate" /\ items' = items /\ place' = place /\ out' = out
    BY <1>5 DEF G!EndDecide, G!NextPass, G!routine
  <2> QED
    BY <2>1 DEF GFlow, GChosen
<1>6. CASE G!EndRelocate
  <2>1. /\ phase = "relocate" /\ phase' = "emit" /\ items' = items /\ place' = place /\ out' = out
        /\ size' = size /\ offset' = offset /\ k' = 1 /\ newpc' = 0 /\ k > Len(items)
    BY <1>6 DEF G!EndRelocate, G!NextPass, G!routine
  <2>2. items \in Seq(GItem)
    BY GBasics DEF GInv
  <2>3. PICK T : Mapped(items, size, GKept(items), place, offset, T) /\ T[1] = 0
    <3>1. Relocating(items, size, GKept(items), place, offset, chain, k, label, newpc)
      BY <2>1 DEF GInv
    <3> QED
      BY <2>1, <2>2, <3>1, RelocateMaps
  <2>4. 1 .. 1 - 1 = {} /\ out = <<>>
    BY <2>1 DEF GFlow
  <2>5. Sent(items, GKept(items), T, GOperands(items, offset, T), 1, <<>>)
    BY <2>4 DEF Sent
  <2>6. GSentTo(k)'
    <3>1. \E U : /\ Mapped(items, size, GKept(items), place, offset, U) /\ 0 = U[1]
                 /\ Sent(items, GKept(items), U, GOperands(items, offset, U), 1, out)
                 /\ errors' = {} => \A i \in 1 .. 1 - 1 : ~ GLost(items, offset, i)
      BY <2>3, <2>4, <2>5
    <3> QED
      BY <2>1, <3>1 DEF GSentTo
  <2> QED
    BY <2>1, <2>6 DEF GFlow, GChosen
<1>7. CASE G!Relocate
  <2>1. phase = "relocate" /\ phase' = phase /\ items' = items /\ place' = place /\ out' = out
    BY <1>7 DEF G!Relocate, G!routine
  <2> QED
    BY <2>1 DEF GFlow, GChosen
<1>8. CASE G!Emit
  BY <1>8, GFlowEmits
<1>9. CASE G!EndEmit
  <2>1. /\ phase = "emit" /\ phase' = "done" /\ items' = items /\ place' = place /\ out' = out
        /\ size' = size /\ offset' = offset /\ newpc' = newpc /\ k > Len(items)
        /\ errors' = {} => errors = {}
    BY <1>9 DEF G!EndEmit, G!routine
  <2>2. k = Len(items) + 1
    <3>1. items \in Seq(GItem) /\ Len(items) \in Nat
      BY GBasics DEF GInv
    <3>2. k \in 1 .. Len(items) + 1
      BY <2>1 DEF GInv, Transferring
    <3> QED
      BY <2>1, <3>1, <3>2
  <2>3. GSentTo(Len(items) + 1)
    BY <2>1, <2>2 DEF GFlow
  <2>4. GSentTo(Len(items) + 1)'
    BY <2>1, <2>3 DEF GSentTo
  <2> QED
    BY <2>1, <2>4 DEF GFlow, GChosen
<1> QED
  BY <1>1, <1>2, <1>3, <1>4, <1>5, <1>6, <1>7, <1>8, <1>9 DEF G!Next

---------------------------------------------------------------------------
(* The code written: where in it an instruction begins.                    *)

(* An instruction that is kept is the one at its new address.              *)
LEMMA OutItemIs ==
  ASSUME NEW R, items \in Seq(R), NEW kept \in [1 .. Len(items) -> Nat], NEW T, NEW oper,
         Mapped(items, size, kept, place, offset, T),
         Sent(items, kept, T, oper, Len(items) + 1, out),
         \A i \in 1 .. Len(items) : items[i].form # "deleted" => kept[i] # 0
  PROVE  /\ Len(out) \in Nat
         /\ \A x : OutItem(x) \in 0 .. Len(out)
         /\ \A i \in 1 .. Len(items) : items[i].form # "deleted" =>
              OutItem(T[i]) # 0 /\ out[OutItem(T[i])].src = i
         /\ OutItem(T[Len(items) + 1]) = 0
<1> DEFINE N == Len(items)
           M == Len(out)
<1>1. N \in Nat /\ M \in Nat /\ (N + 1) - 1 = N
  BY DEF Sent
<1>2. /\ T \in [1 .. N + 1 -> Nat]
      /\ \A i \in 1 .. N : T[i + 1] = T[i] + kept[i]
      /\ \A i \in 1 .. N + 1, j \in 1 .. N + 1 : i <= j => T[i] <= T[j]
  BY <1>1, MappedFacts
<1>3. /\ \A j \in 1 .. M : /\ out[j].src \in 1 .. N /\ items[out[j].src].form # "deleted"
                           /\ out[j].addr = T[out[j].src]
      /\ \A i \in 1 .. N : items[i].form # "deleted" => \E j \in 1 .. M : out[j].src = i
  BY <1>1 DEF Sent
<1>4. ASSUME NEW x
      PROVE  /\ OutItem(x) \in 0 .. M
             /\ OutItem(x) # 0 => out[OutItem(x)].addr = x
             /\ OutItem(x) = 0 => \A j \in 1 .. M : out[j].addr # x
  <2>1. CASE \E j \in 1 .. M : out[j].addr = x
    BY <1>1, <2>1 DEF OutItem
  <2>2. CASE ~ \E j \in 1 .. M : out[j].addr = x
    BY <1>1, <2>2 DEF OutItem
  <2> QED
    BY <2>1, <2>2
<1>5. ASSUME NEW i \in 1 .. N, items[i].form # "deleted", NEW h \in 1 .. N + 1, i < h
      PROVE  T[i] < T[h]
  <2>0. i \in 1 .. N + 1 /\ i + 1 \in 1 .. N + 1 /\ i + 1 <= h
    BY <1>1, <1>5
  <2>a. T[i] \in Nat /\ T[i + 1] \in Nat /\ T[h] \in Nat
    BY <1>2, <2>0
  <2>b. kept[i] \in Nat
    OBVIOUS
  <2>c. kept[i] # 0
    BY <1>5
  <2>1. T[i] \in Nat /\ T[i + 1] \in Nat /\ T[h] \in Nat /\ kept[i] \in Nat \ {0}
        /\ i + 1 \in 1 .. N + 1 /\ i + 1 <= h
    BY ONLY <2>0, <2>a, <2>b, <2>c
  <2>2. T[i + 1] = T[i] + kept[i] /\ T[i + 1] <= T[h]
    BY <1>2, <2>1
  <2> QED
    BY <2>1, <2>2
<1>6. ASSUME NEW i \in 1 .. N, items[i].form # "deleted"
      PROVE  OutItem(T[i]) # 0 /\ out[OutItem(T[i])].src = i
  <2>1. PICK j \in 1 .. M : out[j].src = i
    BY <1>3, <1>6
  <2>2. OutItem(T[i]) # 0
    <3>1. out[j].addr = T[i]
      BY <1>3, <2>1
    <3> QED
      BY <1>4, <2>1, <3>1
  <2> DEFINE h == out[OutItem(T[i])].src
  <2>3. OutItem(T[i]) \in 1 .. M
    BY <1>1, <1>4, <2>2
  <2>4. h \in 1 .. N /\ items[h].form # "deleted" /\ T[h] = T[i]
    BY <1>3, <1>4, <2>2, <2>3
  <2>5. T[i] \in Nat
    BY <1>2
  <2> HIDE DEF h
  <2>6. ~ (i < h) /\ ~ (h < i)
    <3>1. i \in 1 .. N + 1 /\ h \in 1 .. N + 1
      BY <2>4
    <3> QED
      BY <1>5, <1>6, <2>4, <2>5, <3>1
  <2> QED
    BY <2>2, <2>4, <2>6 DEF h
<1>7. OutItem(T[N + 1]) = 0
  <2> SUFFICES ASSUME OutItem(T[N + 1]) # 0
               PROVE  FALSE
    OBVIOUS
  <2> DEFINE j == OutItem(T[N + 1])
  <2>1. j \in 1 .. M /\ out[j].addr = T[N + 1]
    BY <1>1, <1>4
  <2> HIDE DEF j
  <2>2. out[j].src \in 1 .. N /\ items[out[j].src].form # "deleted" /\ T[out[j].src] = T[N + 1]
    BY <1>3, <2>1
  <2>3. N + 1 \in 1 .. N + 1 /\ out[j].src < N + 1 /\ T[N + 1] \in Nat
    BY <1>1, <1>2, <2>2
  <2>4. T[out[j].src] < T[N + 1]
    BY <1>5, <2>2, <2>3
  <2> QED
    BY <2>2, <2>3, <2>4
<1> QED
  BY <1>1, <1>4, <1>6, <1>7

(* An operand of 0 or 1 would lead into the branch itself.                 *)
LEMMA NotInside ==
  ASSUME NEW N \in Nat, NEW T \in [1 .. N + 1 -> Nat],
         \A i \in 1 .. N + 1, j \in 1 .. N + 1 : i <= j => T[i] <= T[j],
         NEW i \in 1 .. N, T[i + 1] >= T[i] + 3, NEW p \in 1 .. N
  PROVE  T[p] - T[i + 1] + 2 \notin {0, 1}
<1>1. i + 1 \in 1 .. N + 1 /\ i \in 1 .. N + 1 /\ p \in 1 .. N + 1
  OBVIOUS
<1>2. T[i] \in Nat /\ T[i + 1] \in Nat /\ T[p] \in Nat
  BY <1>1
<1>3. CASE p <= i
  <2>1. T[p] <= T[i]
    BY <1>1, <1>3
  <2> QED
    BY <1>2, <2>1
<1>4. CASE i + 1 <= p
  <2>1. T[i + 1] <= T[p]
    BY <1>1, <1>4
  <2> QED
    BY <1>2, <2>1
<1> QED
  BY <1>3, <1>4

---------------------------------------------------------------------------
(* Glulx: the code written does what the code assembled does.              *)

\* Pass 3 has written all, and found no label missing.
GWritten(T) ==
  /\ GFound /\ GChosen
  /\ Mapped(items, size, GKept(items), place, offset, T)
  /\ Sent(items, GKept(items), T, GOperands(items, offset, T), Len(items) + 1, out)
  /\ \A i \in 1 .. Len(items) : ~ GLost(items, offset, i)

(* The lengths of what is kept.                                            *)
LEMMA GKeptIs ==
  ASSUME NEW it \in Seq(GItem), NEW i \in 1 .. Len(it), GRight(it[i])
  PROVE  /\ it[i].form = "deleted" => GKept(it)[i] = 0
         /\ it[i].form # "deleted" => GKept(it)[i] # 0
         /\ it[i].form # "deleted" /\ it[i].op \in G!Transfers => GKept(it)[i] >= 3
<1>1. it[i] \in GItem
  OBVIOUS
<1>2. /\ it[i].op \in {"plain", "branch", "jump", "return"} /\ it[i].len \in Nat
      /\ it[i].form \in GForms
  BY <1>1 DEF GItem, G!AllOps
<1>3. GKept(it)[i] = IF it[i].form = "deleted" THEN 0 ELSE G!Size(it[i].op, it[i].len, it[i].form)
  BY DEF GKept
<1>4. CASE it[i].form = "deleted"
  BY <1>3, <1>4
<1>5. CASE it[i].form # "deleted" /\ it[i].op \in G!Transfers
  <2>1. G!Size(it[i].op, it[i].len, it[i].form) = G!Front(it[i].op) + G!FormLength(it[i].form)
    BY <1>5 DEF G!Size, G!Transfers
  <2>2. G!Front(it[i].op) \in {2, 3}
    BY DEF G!Front
  <2>3. G!FormLength(it[i].form) \in {1, 2, 4}
    BY <1>2, <1>5 DEF G!FormLength, GForms
  <2> QED
    BY <1>3, <1>5, <2>1, <2>2, <2>3
<1>6. CASE it[i].form # "deleted" /\ it[i].op \notin G!Transfers
  BY <1>2, <1>3, <1>6 DEF G!Size, G!Transfers, GRight
<1> QED
  BY <1>4, <1>5, <1>6

(* Where an operand leads.                                                 *)
LEMMA GLeads ==
  ASSUME NEW T, GWritten(T), NEW i \in 1 .. Len(items), items[i].op \in G!Transfers,
         items[i].form # "deleted", NEW j \in 1 .. Len(out), out[j].src = i
  PROVE  /\ place[items[i].label] \in 1 .. Len(items)
         /\ out[j].operand \notin {0, 1}
         /\ G!Destination(out[j]) = T[place[items[i].label]]
<1> DEFINE N == Len(items)
           l == items[i].label
           p == place[l]
           kept == GKept(items)
<1>1. /\ items \in Seq(GItem) /\ N \in Nat /\ GRight(items[i])
      /\ Placing(N, place, offset, chain) /\ Inside(items, place)
      /\ kept \in [1 .. N -> Nat]
  BY GBasics DEF GWritten, GFound, GDecided
<1>2. l \in Labels
  BY <1>1 DEF GRight
<1>3. ~ (offset[l] < 0)
  BY DEF GWritten, GLost
<1>4. p \in 1 .. N
  <2>1. p \in 0 .. N + 1 /\ p <= N /\ offset[l] \in Nat \cup {-1} /\ (offset[l] = -1) = (p = 0)
    BY <1>1, <1>2 DEF Placing, Inside
  <2> QED
    BY <1>1, <1>3, <2>1
<1> HIDE DEF p
<1>5. /\ T \in [1 .. N + 1 -> Nat]
      /\ \A h \in 1 .. N : T[h + 1] = T[h] + kept[h]
      /\ \A h \in 1 .. N + 1, x \in 1 .. N + 1 : h <= x => T[h] <= T[x]
      /\ \A h \in Labels : place[h] # 0 /\ place[h] < N + 1 => offset[h] = T[place[h]]
  <2>1. Mapped(items, size, kept, place, offset, T)
    BY DEF GWritten
  <2> HIDE DEF kept
  <2> QED
    BY ONLY <1>1, <2>1, MappedFacts
<1>6. offset[l] = T[p]
  <2>1. place[l] # 0 /\ place[l] < N + 1
    BY <1>1, <1>4 DEF p
  <2> QED
    BY <1>2, <1>5, <2>1 DEF p
<1>7. out[j].addr = T[i] /\ out[j].size = kept[i] /\ out[j].operand = GOperands(items, offset, T)[i]
  BY DEF GWritten, Sent
<1>8. GOperands(items, offset, T)[i] = T[p] - T[i + 1] + 2
  BY <1>3, <1>6 DEF GOperands
<1>9. T[i] \in Nat /\ T[i + 1] \in Nat /\ T[p] \in Nat /\ kept[i] \in Nat /\ T[i + 1] = T[i] + kept[i]
  <2>1. i \in 1 .. N + 1 /\ i + 1 \in 1 .. N + 1 /\ p \in 1 .. N + 1
    BY <1>1, <1>4
  <2>2. T[i] \in Nat /\ T[i + 1] \in Nat /\ T[p] \in Nat
    BY ONLY <1>5, <2>1
  <2>3. kept[i] \in Nat
    BY <1>1
  <2> QED
    BY <1>5, <2>2, <2>3
<1>10. kept[i] >= 3
  BY <1>1, GKeptIs
<1> HIDE DEF kept
<1>11. T[p] - T[i + 1] + 2 \notin {0, 1}
  <2>1. T[i + 1] >= T[i] + 3
    BY <1>9, <1>10
  <2> QED
    BY ONLY <1>1, <1>4, <1>5, <2>1, NotInside, i \in 1 .. N
<1>12. G!Destination(out[j]) = T[p]
  <2>1. G!Destination(out[j]) = T[i] + kept[i] + (T[p] - T[i + 1] + 2) - 2
    BY <1>7, <1>8 DEF G!Destination
  <2> QED
    BY <1>9, <2>1
<1> QED
  BY <1>4, <1>7, <1>8, <1>11, <1>12 DEF p

(* Jumps are followed in both modules alike.                               *)
LEMMA GNames ==
  /\ \A n, j, d, p : G!Follow(n, j, d, p) = Follow(n, j, d, p)
  /\ \A x : G!OutItem(x) = OutItem(x)
BY DEF G!Follow, Follow, G!OutItem, OutItem


(* Where the code written and the code assembled are taken up, they come   *)
(* to the same.                                                            *)
LEMMA GArrivesAlike ==
  ASSUME NEW T, GWritten(T)
  PROVE  \A i \in 1 .. Len(items) + 1 : G!OutArrives(T[i]) = G!Arrives(i)
<1> DEFINE N == Len(items)
           M == Len(out)
           aj == G!CodeJumps
           ad == G!CodeDest
           oj == G!OutJumps
           od == G!OutDest
           L == 1 .. N
           at == [i \in L |-> OutItem(T[i])]
           W == {w \in L \X (1 .. M) : out[w[2]].src = w[1]}
           kept == GKept(items)
<1>1. /\ items \in Seq(GItem) /\ N \in Nat /\ (\A i \in 1 .. N : GRight(items[i]))
      /\ Placing(N, place, offset, chain) /\ Inside(items, place)
      /\ kept \in [1 .. N -> Nat]
  BY GBasics DEF GWritten, GFound, GDecided
<1>2. /\ \A i \in 1 .. N : items[i].form # "deleted" => kept[i] # 0
      /\ \A i \in 1 .. N : items[i].form = "deleted" => kept[i] = 0
  BY <1>1, GKeptIs
<1>3. /\ M \in Nat /\ \A x : OutItem(x) \in 0 .. M
      /\ \A i \in 1 .. N : items[i].form # "deleted" =>
           OutItem(T[i]) # 0 /\ out[OutItem(T[i])].src = i
      /\ OutItem(T[N + 1]) = 0
  <2>1. /\ Mapped(items, size, kept, place, offset, T)
        /\ Sent(items, kept, T, GOperands(items, offset, T), N + 1, out)
    BY DEF GWritten
  <2> HIDE DEF kept
  <2> QED
    BY ONLY <1>1, <1>2, <2>1, OutItemIs
<1>4. /\ T \in [1 .. N + 1 -> Nat]
      /\ \A i \in 1 .. N : T[i + 1] = T[i] + kept[i]
  BY <1>1, MappedFacts DEF GWritten
<1>5. \A i \in 1 .. N : items[i].form = "deleted" =>
        items[i].op = "jump" /\ place[items[i].label] = i + 1
  BY DEF GWritten, GChosen
<1>6. \A j \in 1 .. M : out[j].src \in 1 .. N /\ out[j].op = items[out[j].src].op
  <2>1. (N + 1) - 1 = N
    BY <1>1
  <2>2. Sent(items, kept, T, GOperands(items, offset, T), N + 1, out)
    BY DEF GWritten
  <2> QED
    BY <2>1, <2>2 DEF Sent
<1> HIDE DEF kept
<1>7. ad \in [1 .. N -> 0 .. N]
  <2>1. \A x : G!Within(x) \in 0 .. N
    BY <1>1 DEF G!Within
  <2> QED
    BY <1>1, <2>1 DEF G!CodeDest
<1>8. od \in [1 .. M -> 0 .. M]
  <2>1. \A x : G!OutItem(x) \in 0 .. M
    BY <1>3, GNames
  <2> QED
    BY <1>3, <2>1 DEF G!OutDest
<1>9. at \in [L -> 0 .. M] /\ \A i \in L : at[i] = OutItem(T[i])
  BY <1>3
<1>10. \A i \in L : i \in aj <=> items[i].op = "jump"
  BY DEF G!CodeJumps
<1>11. \A i \in L : i \in aj =>
         ad[i] = IF place[items[i].label] \in 1 .. N THEN place[items[i].label] ELSE 0
  BY DEF G!CodeDest, G!Within
<1>12. \A j \in 1 .. M : j \in oj <=> out[j].op = "jump"
  BY DEF G!OutJumps
<1>13. \A j \in 1 .. M : j \in oj /\ out[j].operand \notin {0, 1} =>
         od[j] = OutItem(G!Destination(out[j]))
  BY GNames DEF G!OutDest
<1> HIDE DEF at, aj, ad, oj, od, W
<1>14. ASSUME NEW i \in L
       PROVE  \/ Skips(L, aj, ad, at, i)
              \/ Goes(L, aj, ad, at, oj, od, i)
              \/ Stops(at, oj, Follow(N, aj, ad, i), W, i)
  <2> DEFINE p == place[items[i].label]
  <2>1. CASE items[i].form = "deleted"
    <3>1. i \in aj /\ p = i + 1
      BY <1>5, <1>10, <2>1
    <3>2. p \in 1 .. N
      <4>1. items[i].label \in Labels
        BY <1>1, <1>5, <2>1 DEF GRight, G!Transfers
      <4>2. p <= N
        BY <1>1, <4>1 DEF Inside
      <4> QED
        BY <1>1, <3>1, <4>2
    <3>3. ad[i] = i + 1 /\ i + 1 \in L
      BY <1>11, <3>1, <3>2
    <3>4. T[i + 1] = T[i]
      <4>1. T[i + 1] = T[i] + kept[i] /\ kept[i] = 0
        BY <1>2, <1>4, <2>1
      <4>2. T[i] \in Nat
        BY <1>1, <1>4
      <4> QED
        BY <4>1, <4>2
    <3>5. at[i + 1] = at[i]
      BY <1>9, <3>3, <3>4
    <3> QED
      BY <3>1, <3>3, <3>5 DEF Skips
  <2>2. CASE items[i].form # "deleted" /\ items[i].op = "jump"
    <3>1. i \in aj /\ at[i] # 0 /\ out[at[i]].src = i /\ at[i] \in 1 .. M
      BY <1>3, <1>9, <1>10, <2>2
    <3>2. out[at[i]].op = "jump" /\ at[i] \in oj
      BY <1>6, <1>12, <2>2, <3>1
    <3>3. /\ p \in 1 .. N /\ out[at[i]].operand \notin {0, 1}
          /\ G!Destination(out[at[i]]) = T[p]
      BY <2>2, <3>1, GLeads DEF G!Transfers
    <3>4. ad[i] = p /\ p \in L
      BY <1>11, <3>1, <3>3
    <3>5. od[at[i]] = OutItem(T[p])
      BY <1>13, <3>1, <3>2, <3>3
    <3>6. od[at[i]] = at[ad[i]]
      BY <1>9, <3>4, <3>5
    <3> QED
      BY <3>1, <3>2, <3>4, <3>6 DEF Goes
  <2>3. CASE items[i].form # "deleted" /\ items[i].op # "jump"
    <3>1. i \notin aj /\ at[i] # 0 /\ out[at[i]].src = i /\ at[i] \in 1 .. M
      BY <1>3, <1>9, <1>10, <2>3
    <3>2. at[i] \notin oj
      BY <1>6, <1>12, <2>3, <3>1
    <3>3. Follow(N, aj, ad, i) = i
      <4>1. Linked(N, ad)
        BY <1>1, <1>7 DEF Linked
      <4>2. Flows(N, aj, ad)
        BY <4>1, FollowStep
      <4> QED
        BY <3>1, <4>2 DEF Flows
    <3>4. <<i, at[i]>> \in W /\ i # 0
      BY <3>1 DEF W
    <3> QED
      BY <3>1, <3>2, <3>3, <3>4 DEF Stops
  <2> QED
    BY <1>5, <2>1, <2>2, <2>3
<1>15. \A i \in L :
         LET a == Follow(N, aj, ad, i)
             o == Follow(M, oj, od, at[i])
         IN  \/ a = 0 /\ o = 0
             \/ a # 0 /\ o # 0 /\ <<a, o>> \in W
  <2>1. L \in SUBSET (1 .. N)
    OBVIOUS
  <2> HIDE DEF L, N, M
  <2> QED
    BY ONLY <1>1, <1>3, <1>7, <1>8, <1>9, <1>14, <2>1, FlowsAlike DEF N
<1>16. \A i \in L : G!OutArrives(T[i]) = G!Arrives(i)
  <2> TAKE i \in L
  <2> DEFINE a == Follow(N, aj, ad, i)
             o == Follow(M, oj, od, at[i])
  <2>1. \/ a = 0 /\ o = 0
        \/ a # 0 /\ o # 0 /\ <<a, o>> \in W
    BY <1>15
  <2>2. G!Arrives(i) = IF a = 0 THEN G!Nowhere ELSE <<"item", a>>
    <3>1. G!Within(i) = i
      BY DEF G!Within
    <3> QED
      BY <3>1, GNames DEF G!Arrives, aj, ad
  <2>3. G!OutArrives(T[i]) = IF o = 0 THEN G!Nowhere ELSE <<"item", out[o].src>>
    <3>1. G!OutItem(T[i]) = at[i]
      BY <1>9, GNames
    <3> QED
      BY <3>1, GNames DEF G!OutArrives, oj, od
  <2>4. <<a, o>> \in W => out[o].src = a
    BY DEF W
  <2> HIDE DEF a, o
  <2> QED
    BY <2>1, <2>2, <2>3, <2>4
<1>17. G!OutArrives(T[N + 1]) = G!Arrives(N + 1)
  <2>1. G!OutItem(T[N + 1]) = 0 /\ G!Within(N + 1) = 0
    BY <1>1, <1>3, GNames DEF G!Within
  <2>2. Flows(N, aj, ad) /\ Flows(M, oj, od)
    <3>1. Linked(N, ad) /\ Linked(M, od)
      BY <1>1, <1>3, <1>7, <1>8 DEF Linked
    <3> QED
      BY <3>1, FollowStep
  <2>3. Follow(N, aj, ad, 0) = 0 /\ Follow(M, oj, od, 0) = 0
    BY <2>2 DEF Flows
  <2> QED
    BY <2>1, <2>3, GNames DEF G!Arrives, G!OutArrives, aj, ad, oj, od
<1> QED
  <2>1. \A i \in 1 .. N + 1 : i \in L \/ i = N + 1
    BY <1>1
  <2> QED
    BY <1>16, <1>17, <2>1


(* So the Glulx code written does what the code assembled does.            *)
LEMMA GFlowHolds ==
  ASSUME GInv, GFlow
  PROVE  G!FlowPreserved
<1>1. SUFFICES ASSUME phase = "done", errors = {}
               PROVE  /\ G!OutArrives(0) = G!Arrives(1)
                      /\ \A j \in DOMAIN out :
                           /\ out[j].op \in {"plain", "branch"} =>
                                G!OutArrives(out[j].addr + out[j].size) = G!Arrives(out[j].src + 1)
                           /\ out[j].op = "branch" =>
                                /\ out[j].operand \notin {0, 1}
                                /\ G!OutArrives(G!Destination(out[j])) =
                                     G!Arrives(place[items[out[j].src].label])
  BY DEF G!FlowPreserved
<1> DEFINE N == Len(items)
<1>2. N \in Nat /\ (N + 1) - 1 = N /\ items \in Seq(GItem) /\ GFound
  BY <1>1, GFinds, GBasics DEF GInv
<1>3. PICK T : GWritten(T)
  BY <1>1, <1>2 DEF GFlow, GSentTo, GWritten
<1>4. /\ T \in [1 .. N + 1 -> Nat] /\ T[1] = 0
      /\ \A i \in 1 .. N : T[i + 1] = T[i] + GKept(items)[i]
  BY <1>2, <1>3, MappedFacts DEF GWritten
<1>5. /\ out \in Seq(OutRec)
      /\ \A j \in 1 .. Len(out) :
           /\ out[j].src \in 1 .. N /\ items[out[j].src].form # "deleted"
           /\ out[j].op = items[out[j].src].op /\ out[j].addr = T[out[j].src]
           /\ out[j].size = GKept(items)[out[j].src]
  BY <1>2, <1>3 DEF GWritten, Sent
<1>6. \A i \in 1 .. N + 1 : G!OutArrives(T[i]) = G!Arrives(i)
  BY <1>3, GArrivesAlike
<1>7. ASSUME NEW j \in DOMAIN out
      PROVE  /\ G!OutArrives(out[j].addr + out[j].size) = G!Arrives(out[j].src + 1)
             /\ out[j].op = "branch" =>
                  /\ out[j].operand \notin {0, 1}
                  /\ G!OutArrives(G!Destination(out[j])) =
                       G!Arrives(place[items[out[j].src].label])
  <2> DEFINE i == out[j].src
  <2>1. j \in 1 .. Len(out)
    BY <1>5
  <2>2. i \in 1 .. N /\ i + 1 \in 1 .. N + 1
    BY <1>2, <1>5, <2>1
  <2>3. out[j].addr + out[j].size = T[i + 1]
    BY <1>4, <1>5, <2>1, <2>2
  <2>4. G!OutArrives(T[i + 1]) = G!Arrives(i + 1)
    BY <1>6, <2>2
  <2>5. ASSUME out[j].op = "branch"
        PROVE  /\ out[j].operand \notin {0, 1}
               /\ G!OutArrives(G!Destination(out[j])) = G!Arrives(place[items[i].label])
    <3>1. items[i].op \in G!Transfers /\ items[i].form # "deleted"
      BY <1>5, <2>1, <2>5 DEF G!Transfers
    <3>2. /\ place[items[i].label] \in 1 .. N /\ out[j].operand \notin {0, 1}
          /\ G!Destination(out[j]) = T[place[items[i].label]]
      BY <1>3, <2>1, <2>2, <3>1, GLeads
    <3>3. place[items[i].label] \in 1 .. N + 1
      BY <1>2, <3>2
    <3> QED
      BY <1>6, <3>2, <3>3
  <2> QED
    BY <2>3, <2>4, <2>5
<1>8. G!OutArrives(0) = G!Arrives(1)
  <2>1. 1 \in 1 .. N + 1
    BY <1>2
  <2> QED
    BY <1>4, <1>6, <2>1
<1> QED
  BY <1>7, <1>8

(* The Glulx passes begin with nothing written.                            *)
LEMMA GFlowBegins ==
  ASSUME Init
  PROVE  GFlow
<1>1. phase = "assemble" /\ items = <<>> /\ out = <<>> /\ Len(items) = 0
  BY DEF Init
<1> QED
  BY <1>1 DEF GFlow, GChosen


---------------------------------------------------------------------------
(* Z-code: what is left out or made into something else, and what is       *)
(* written.                                                                *)

\* A return that pass 1a has deleted.
Cleaned(i) == items[i].form = "deleted" /\ items[i].op # "jump"

\* The forms of a branch or jump that goes to no label any more.
Settled == {"rtrue", "rfalse", "replaced"}

\* A jump becomes the return it goes to, that may have been such a jump
\* itself; a branch to a return takes its value.
ZChosen(i) ==
  LET r == items[i]
      t == place[r.label]
  IN  /\ r.op # r.was =>
           /\ r.was = "jump" /\ r.op \in Return1
           /\ t \in 1 .. Len(items) /\ items[t].op = r.op
           /\ items[t].was = r.op \/ (items[t].was = "jump" /\ t < i)
      /\ r.form \in {"rtrue", "rfalse"} => t \in 1 .. Len(items) /\ items[t].op = r.form
      /\ r.form = "deleted" => IF r.op = "jump" THEN t = i + 1 ELSE r.op \in Return1

\* Control does not fall into instruction i.
ZCutOff(i) == i > 1 /\ EndsFlow(items[i - 1].was)

\* Of the instructions that are left none goes to instruction i.
ZLeft(i) ==
  \A h \in 1 .. Len(items) :
    items[h].was \in Branching /\ place[items[h].label] = i /\ ~ Cleaned(h) =>
      items[h].form \in Settled

\* Pass 1a has the uses of a label right, if they are none.
ZUsed ==
  \A l \in Labels : use[l] = 0 =>
    \A i \in 1 .. Len(items) : items[i].label = l /\ ~ Cleaned(i) => items[i].form \in Settled

\* The operand of a branch or jump, from the new addresses.
ZOperands(it, o, T) ==
  [i \in 1 .. Len(it) |->
    IF it[i].op \notin Branching THEN 0
    ELSE IF it[i].form \in {"long", "short"} /\ o[it[i].label] < 0 THEN 0
    ELSE IF it[i].op = "jump" THEN o[it[i].label] - (T[i] + 1)
    ELSE IF it[i].form = "rtrue" THEN 1
    ELSE IF it[i].form = "rfalse" THEN 0
    ELSE o[it[i].label] - T[i + 1] + 2]

\* A branch or jump to a label that is nowhere.
ZLost(it, o, i) ==
  it[i].op \in Branching /\ it[i].form \in {"long", "short"} /\ o[it[i].label] < 0

ZSentTo(m) ==
  \E T : /\ Mapped(items, size, ZKept(items), place, offset, T) /\ newpc = T[m]
         /\ Sent(items, ZKept(items), T, ZOperands(items, offset, T), m, out)
         /\ errors = {} => \A i \in 1 .. m - 1 : ~ ZLost(items, offset, i)

ZMade ==
  /\ \A i \in 1 .. Len(items) : ZChosen(i)
  /\ \A i \in 1 .. Len(items) : Cleaned(i) => ZCutOff(i) /\ ZLeft(i)
  /\ \A l \in Labels : never[l] => ZCutOff(place[l])

ZFlow ==
  /\ ZMade
  /\ phase = "assemble" /\ dead => ZCutOff(Len(items) + 1)
  /\ phase = "assemble" => DOMAIN never = Labels
  /\ phase \in {"assemble", "decide"} => \A i \in 1 .. Len(items) : ~ Cleaned(i)
  /\ phase = "clean" => ZUsed /\ \E m \in Nat : Passed(place, chain, k, m)
  /\ phase \notin {"emit", "done"} => out = <<>>
  /\ phase = "emit" => ZSentTo(k)
  /\ phase = "done" => ZSentTo(Len(items) + 1)


(* The instruction at a label.                                             *)
LEMMA ZAtLabel ==
  ASSUME ZHeld, Unmoved(items, size, place, offset), NEW l \in Labels, InRoutine(l)
  PROVE  place[l] \in 1 .. Len(items) /\ ItemAt(offset[l]) = place[l]
<1> DEFINE N == Len(items)
           p == place[l]
<1>1. /\ items \in Seq(ZItem) /\ N \in Nat /\ size \in Nat
      /\ Straight(items, size, ZLong(items)) /\ Placing(N, place, offset, chain)
  BY ZBasics
<1>2. offset[l] \in Nat /\ offset[l] < size
  <2>1. offset[l] \in Nat \cup {-1} /\ offset[l] >= 0 /\ offset[l] < size
    BY <1>1 DEF Placing, InRoutine
  <2> QED
    BY <2>1
<1>3. p \in 1 .. N + 1
  <2>1. p \in 0 .. N + 1 /\ (offset[l] = -1) = (p = 0)
    BY <1>1 DEF Placing
  <2> QED
    BY <1>1, <1>2, <2>1
<1>4. offset[l] = Spot(items, size, p)
  BY <1>3 DEF Unmoved
<1>5. p \in 1 .. N
  <2>1. p # N + 1
    <3>1. Spot(items, size, N + 1) = size
      BY <1>1 DEF Spot
    <3> QED
      BY <1>1, <1>2, <1>4, <3>1
  <2> QED
    BY <1>1, <1>3, <2>1
<1>6. \A i \in 1 .. N : Spot(items, size, i) = items[i].start
  BY DEF Spot
<1>7. \A i \in 1 .. N : items[i].start = offset[l] => i = p
  <2> TAKE i \in 1 .. N
  <2> HAVE items[i].start = offset[l]
  <2>1. i \in 1 .. N + 1 /\ Spot(items, size, i) = Spot(items, size, p)
    BY <1>1, <1>4, <1>6
  <2>2. Spot(items, size, p) \in Nat
    BY <1>2, <1>4
  <2>3. ~ (i < p) /\ ~ (p < i)
    BY <1>1, <1>3, <2>1, <2>2 DEF Straight
  <2> QED
    BY <1>3, <2>1, <2>3
<1>8. items[p].start = offset[l]
  BY <1>4, <1>5, <1>6
<1>9. DOMAIN items = 1 .. N
  BY <1>1
<1>10. ItemAt(offset[l]) = p
  <2>1. ItemAt(offset[l]) \in 1 .. N /\ items[ItemAt(offset[l])].start = offset[l]
    BY <1>5, <1>8, <1>9 DEF ItemAt
  <2> QED
    BY <1>7, <2>1
<1> QED
  BY <1>5, <1>10

\* Before pass 1 all is as assembled.
ZRaw ==
  /\ \A i \in 1 .. Len(items) : items[i].form = "long" /\ items[i].op = items[i].was
  /\ \A l \in Labels : never[l] => ZCutOff(place[l])

(* Then nothing has been chosen or left out.                               *)
LEMMA ZRawMade == ZRaw => ZMade /\ \A i \in 1 .. Len(items) : ~ Cleaned(i)
<1> HAVE ZRaw
<1>1. \A i \in 1 .. Len(items) : ~ Cleaned(i)
  BY DEF ZRaw, Cleaned
<1>2. \A i \in 1 .. Len(items) : ZChosen(i)
  BY DEF ZRaw, ZChosen
<1> QED
  BY <1>1, <1>2 DEF ZRaw, ZMade

(* So it is while the routine is assembled.                                *)
LEMMA ZRaws ==
  ASSUME ZInv, ZFlow, phase = "assemble"
  PROVE  /\ ZRaw /\ items \in Seq(ZItem) /\ Len(items) \in Nat
         /\ place \in [Labels -> 0 .. Len(items) + 1]
<1>1. /\ items \in Seq(ZItem) /\ Len(items) \in Nat /\ (\A i \in 1 .. Len(items) : ZRight(items[i]))
      /\ Placing(Len(items), place, offset, chain)
  BY ZBasics DEF ZInv
<1>2. \A i \in 1 .. Len(items) : items[i].form = "long"
  BY DEF ZInv
<1>3. \A i \in 1 .. Len(items) : items[i].op = items[i].was
  BY <1>1, <1>2 DEF ZRight
<1> QED
  BY <1>1, <1>2, <1>3 DEF ZRaw, ZFlow, ZMade, Placing

(* Assembly.                                                               *)
LEMMA ZFlowAssembles ==
  ASSUME ZInv, ZFlow, NEW op, NEW n, NEW l, Assemble(op, n, l),
         phase' \in {"assemble", "decide"}
  PROVE  ZFlow'
<1> DEFINE r == Item(op, n, l)
           jt == Append(items, r)
           N == Len(items)
<1>1. /\ phase = "assemble" /\ items' = jt /\ out' = out /\ dead' = EndsFlow(op)
      /\ never' = never /\ place' = place
  BY DEF Assemble
<1>2. ZRaw /\ items \in Seq(ZItem) /\ N \in Nat /\ place \in [Labels -> 0 .. N + 1]
  BY <1>1, ZRaws
<1>3. r.form = "long" /\ r.op = op /\ r.was = op
  BY DEF Item
<1> HIDE DEF r
<1>4. Len(jt) = N + 1 /\ jt[N + 1] = r /\ \A i \in 1 .. N : jt[i] = items[i]
  BY <1>2
<1> HIDE DEF jt
<1>5. \A i \in 1 .. Len(jt) : jt[i].form = "long" /\ jt[i].op = jt[i].was
  <2> TAKE i \in 1 .. Len(jt)
  <2>1. i = N + 1 \/ i \in 1 .. N
    BY <1>2, <1>4
  <2> QED
    BY <1>2, <1>3, <1>4, <2>1 DEF ZRaw
<1>6. \A h \in Labels : never[h] => place[h] > 1 /\ EndsFlow(jt[place[h] - 1].was)
  <2> TAKE h \in Labels
  <2> HAVE never[h]
  <2>1. place[h] > 1 /\ EndsFlow(items[place[h] - 1].was)
    BY <1>2 DEF ZRaw, ZCutOff
  <2>2. place[h] \in 0 .. N + 1
    BY <1>2
  <2>3. place[h] - 1 \in 1 .. N
    BY <1>2, <2>1, <2>2
  <2> QED
    BY <1>4, <2>1, <2>3
<1>7. ZRaw'
  BY <1>1, <1>5, <1>6 DEF ZRaw, ZCutOff
<1>8. ZMade' /\ (\A i \in 1 .. Len(items) : ~ Cleaned(i))'
  BY <1>7, ZRawMade, PTL
<1>9. (dead => ZCutOff(Len(items) + 1))'
  <2>1. (N + 1) + 1 > 1 /\ ((N + 1) + 1) - 1 = N + 1
    BY <1>2
  <2> QED
    BY <1>1, <1>3, <1>4, <2>1 DEF ZCutOff
<1>10. out' = <<>> /\ DOMAIN never' = Labels
  BY <1>1 DEF ZFlow
<1> QED
  BY <1>1, <1>8, <1>9, <1>10 DEF ZFlow


(* A label is placed: control does not fall into what follows it, if it is *)
(* placed where control cannot come.                                       *)
LEMMA ZFlowLabels ==
  ASSUME ZInv, ZFlow, NEW l \in Labels, AssembleLabel(l)
  PROVE  ZFlow'
<1> DEFINE N == Len(items)
           q == [place EXCEPT ![l] = N + 1]
           nv == [never EXCEPT ![l] = dead]
<1>1. /\ phase = "assemble" /\ phase' = phase /\ items' = items /\ out' = out /\ dead' = FALSE
      /\ place' = q /\ never' = nv
  BY DEF AssembleLabel
<1>2. ZRaw /\ items \in Seq(ZItem) /\ N \in Nat /\ place \in [Labels -> 0 .. N + 1]
  BY <1>1, ZRaws
<1>3. \A h \in Labels : q[h] = IF h = l THEN N + 1 ELSE place[h]
  BY <1>2
<1>4. \A h \in Labels : nv[h] => IF h = l THEN dead ELSE never[h]
  <2>1. DOMAIN never = Labels
    BY <1>1 DEF ZFlow
  <2> QED
    BY <2>1
<1> HIDE DEF q, nv
<1>5. \A h \in Labels : nv[h] => ZCutOff(q[h])
  <2> TAKE h \in Labels
  <2> HAVE nv[h]
  <2>1. CASE h = l
    <3>1. ZCutOff(N + 1)
      BY <1>1, <1>4, <2>1 DEF ZFlow
    <3> QED
      BY <1>3, <2>1, <3>1
  <2>2. CASE h # l
    BY <1>2, <1>3, <1>4, <2>2 DEF ZRaw
  <2> QED
    BY <2>1, <2>2
<1>6. ZRaw'
  BY <1>1, <1>2, <1>5 DEF ZRaw, ZCutOff
<1>7. ZMade' /\ (\A i \in 1 .. Len(items) : ~ Cleaned(i))'
  BY <1>6, ZRawMade, PTL
<1>8. DOMAIN never' = Labels
  BY <1>1 DEF nv, ZFlow
<1> QED
  BY <1>1, <1>7, <1>8 DEF ZFlow

(* Pass 1 goes on with one instruction changed.                            *)
LEMMA ZFlowGoesOn ==
  ASSUME ZInv, ZFlow, phase = "decide", k \in 1 .. Len(items), Changed(items, items', k),
         LET r == items'[k]
             t == place[items[k].label]
         IN  /\ r.form = "deleted" => r.op = "jump" /\ t = k + 1
             /\ r.form \in {"rtrue", "rfalse"} => t \in 1 .. Len(items) /\ items[t].op = r.form
             /\ items[k].op \in Return1 => r.op = items[k].op
             /\ r.op # items[k].op =>
                  /\ items[k].op = "jump" /\ r.op \in Return1
                  /\ t \in 1 .. Len(items) /\ items[t].op = r.op,
         phase' = phase, never' = never, place' = place, out' = out
  PROVE  ZFlow'
<1> DEFINE N == Len(items)
           jt == items'
           r == jt[k]
           t == place[items[k].label]
<1>1. /\ N \in Nat /\ (\A i \in 1 .. N : ZRight(items[i]))
      /\ \A i \in k .. N : items[i].form = "long"
  BY ZBasics DEF ZInv
<1>2. Len(jt) = N /\ \A i \in 1 .. N :
        /\ jt[i].was = items[i].was /\ jt[i].label = items[i].label
        /\ i # k => jt[i].op = items[i].op /\ jt[i].form = items[i].form
  BY DEF Changed
<1>3. /\ r.form = "deleted" => r.op = "jump" /\ t = k + 1
      /\ r.form \in {"rtrue", "rfalse"} => t \in 1 .. N /\ items[t].op = r.form
      /\ items[k].op \in Return1 => r.op = items[k].op
      /\ r.op # items[k].op =>
           items[k].op = "jump" /\ r.op \in Return1 /\ t \in 1 .. N /\ items[t].op = r.op
  OBVIOUS
<1>4. /\ \A i \in 1 .. N : ZChosen(i)
      /\ \A i \in 1 .. N : ~ Cleaned(i)
      /\ \A l \in Labels : never[l] => ZCutOff(place[l])
      /\ out = <<>>
  BY DEF ZFlow, ZMade
<1> HIDE DEF jt
<1>5. \A i \in 1 .. N : items[i].op \in Return1 => jt[i].op = items[i].op
  <2> TAKE i \in 1 .. N
  <2>1. CASE i = k
    BY <1>3, <2>1
  <2>2. CASE i # k
    BY <1>2, <2>2
  <2> QED
    BY <2>1, <2>2
<1>6. \A i \in k .. N : items[i].op = items[i].was
  <2> TAKE i \in k .. N
  <2>1. i \in 1 .. N /\ items[i].form = "long"
    BY <1>1
  <2> QED
    BY <1>1, <2>1 DEF ZRight
<1>7. \A o \in Return1 : o # "jump"
  BY DEF Return1
\* What a jump or a branch has become, by the code as it was.
<1> DEFINE Chosen(i, c) ==
      LET s == c[i]
          h == place[s.label]
      IN  /\ s.op # s.was =>
               /\ s.was = "jump" /\ s.op \in Return1
               /\ h \in 1 .. N /\ items[h].op = s.op
               /\ items[h].was = s.op \/ (items[h].was = "jump" /\ h < i)
          /\ s.form \in {"rtrue", "rfalse"} => h \in 1 .. N /\ items[h].op = s.form
          /\ s.form = "deleted" => IF s.op = "jump" THEN h = i + 1 ELSE s.op \in Return1
<1>8. ASSUME NEW i \in 1 .. N
      PROVE  Chosen(i, jt)
  <2>1. CASE i # k
    <3>1. Chosen(i, items)
      BY <1>4 DEF ZChosen
    <3>2. /\ jt[i].was = items[i].was /\ jt[i].label = items[i].label
          /\ jt[i].op = items[i].op /\ jt[i].form = items[i].form
      BY <1>2, <2>1
    <3> QED
      BY <3>1, <3>2
  <2>2. CASE i = k
    <3>1. jt[k].was = items[k].was /\ jt[k].label = items[k].label /\ items[k].op = items[k].was
      BY <1>1, <1>2, <1>6
    <3>2. r.op # items[k].op => items[t].was = r.op \/ (items[t].was = "jump" /\ t < k)
      <4> HAVE r.op # items[k].op
      <4>1. t \in 1 .. N /\ items[t].op = r.op /\ r.op \in Return1
        BY <1>3
      <4>2. CASE t \in k .. N
        BY <1>6, <4>1, <4>2
      <4>3. CASE t \notin k .. N
        <5>1. t < k
          BY <1>1, <4>1, <4>3
        <5>2. ZChosen(t)
          BY <1>4, <4>1
        <5>3. items[t].op # items[t].was => items[t].was = "jump"
          BY <5>2 DEF ZChosen
        <5> QED
          BY <4>1, <5>1, <5>3
      <4> QED
        BY <4>2, <4>3
    <3> HIDE DEF t
    <3>3. place[jt[k].label] = t
      BY <3>1 DEF t
    <3> HIDE DEF r
    <3>4. jt[k] = r
      BY DEF r
    <3> QED
      BY <1>3, <2>2, <3>1, <3>2, <3>3, <3>4
  <2> QED
    BY <2>1, <2>2
<1>9. \A i \in 1 .. N : jt[i].form = "deleted" => jt[i].op = "jump"
  <2> TAKE i \in 1 .. N
  <2>1. CASE i = k
    BY <1>3, <2>1
  <2>2. CASE i # k
    BY <1>2, <1>4, <2>2 DEF Cleaned
  <2> QED
    BY <2>1, <2>2
<1>10. \A i \in 1 .. N : ZChosen(i)'
  <2> TAKE i \in 1 .. N
  <2> DEFINE s == jt[i]
             h == place[s.label]
  <2>1. Chosen(i, jt)
    BY <1>8
  <2>2. h \in 1 .. N /\ items[h].op \in Return1 =>
          jt[h].op = items[h].op /\ jt[h].was = items[h].was
    BY <1>2, <1>5
  <2>3. /\ s.op # s.was =>
             /\ s.was = "jump" /\ s.op \in Return1
             /\ h \in 1 .. N /\ jt[h].op = s.op
             /\ jt[h].was = s.op \/ (jt[h].was = "jump" /\ h < i)
        /\ s.form \in {"rtrue", "rfalse"} => h \in 1 .. N /\ jt[h].op = s.form
        /\ s.form = "deleted" => IF s.op = "jump" THEN h = i + 1 ELSE s.op \in Return1
    <3>1. {"rtrue", "rfalse"} \subseteq Return1
      BY DEF Return1
    <3> HIDE DEF h, s
    <3> QED
      BY <2>1, <2>2, <3>1 DEF h, s
  <2> HIDE DEF h, s
  <2>4. items' = jt /\ place' = place /\ Len(jt) = N
    BY <1>2 DEF jt
  <2> QED
    BY <2>3, <2>4 DEF ZChosen, h, s
<1>11. \A l \in Labels : never[l] => ZCutOff(place[l])'
  <2> TAKE l \in Labels
  <2> HAVE never[l]
  <2>1. place[l] > 1 /\ EndsFlow(items[place[l] - 1].was)
    BY <1>4 DEF ZCutOff
  <2>2. place[l] - 1 \in 1 .. N
    <3>1. Placing(N, place, offset, chain)
      BY ZBasics DEF ZInv
    <3>2. place[l] \in 0 .. N + 1
      BY <3>1 DEF Placing
    <3> QED
      BY <1>1, <2>1, <3>2
  <2>3. jt[place[l] - 1].was = items[place[l] - 1].was
    BY <1>2, <2>2
  <2> QED
    BY <2>1, <2>3 DEF ZCutOff, jt
<1>12. ZMade' /\ (\A i \in 1 .. Len(items) : ~ Cleaned(i))'
  <2>1. \A i \in 1 .. N : ~ Cleaned(i)'
    BY <1>9 DEF Cleaned, jt
  <2> QED
    BY <1>2, <1>10, <1>11, <2>1 DEF ZMade, jt
<1> QED
  BY <1>4, <1>12 DEF ZFlow


(* Pass 1 at an instruction.                                               *)
LEMMA ZFlowDecides ==
  ASSUME ZInv, ZFlow, Decide
  PROVE  ZFlow'
<1> DEFINE l == items[k].label
           pc == items[k].start + 1
<1>1. /\ phase = "decide" /\ k <= Len(items) /\ phase' = phase
      /\ never' = never /\ place' = place /\ out' = out
      /\ CASE items[k].op \in {"branch", "other"} -> DecideBranch(items[k].label)
           [] items[k].op = "jump"                -> DecideJump(items[k].label)
           [] OTHER                               -> Keep
  BY DEF Decide
<1>2. /\ ZHeld /\ Unmoved(items, size, place, offset)
      /\ k \in 1 .. Len(items) + 1 /\ \A i \in k .. Len(items) : items[i].form = "long"
      /\ Inside(items, place)
  BY <1>1 DEF ZInv, ZDecided
<1>3. /\ items \in Seq(ZItem) /\ Len(items) \in Nat /\ (\A i \in 1 .. Len(items) : ZRight(items[i]))
      /\ Straight(items, size, ZLong(items)) /\ Placing(Len(items), place, offset, chain)
  BY <1>2, ZBasics
<1>4. k \in 1 .. Len(items) /\ items[k].form = "long" /\ items[k].op = items[k].was
  <2>1. k \in 1 .. Len(items) /\ items[k].form = "long"
    BY <1>1, <1>2, <1>3
  <2> QED
    BY <1>3, <2>1 DEF ZRight
<1>5. items[k].op \in Branching => l \in Labels
  BY <1>3, <1>4 DEF ZRight
<1>6. CASE Keep
  <2>1. items' = items
    BY <1>6 DEF Keep
  <2>2. Changed(items, items', k)
    BY <1>3, <2>1 DEF Changed
  <2>3. items'[k] = items[k] /\ items[k].form \notin {"deleted", "rtrue", "rfalse"}
    BY <1>4, <2>1
  <2> QED
    BY <1>1, <1>4, <2>2, <2>3, ZFlowGoesOn
<1>7. ASSUME items[k].op = "branch", InRoutine(l), OpcodeAt(l) \in {"rtrue", "rfalse"},
             SetForm(OpcodeAt(l))
      PROVE  ZFlow'
  <2> DEFINE f == OpcodeAt(l)
  <2>1. f \in ZForms
    BY <1>7 DEF ZForms
  <2>2. Changed(items, items', k) /\ items'[k].form = f /\ items'[k].op = items[k].op
    BY <1>4, <1>7, <2>1, ZSets
  <2>3. place[l] \in 1 .. Len(items) /\ items[place[l]].op = f
    <3>1. l \in Labels
      BY <1>5, <1>7 DEF Branching
    <3> QED
      BY <1>2, <1>7, <3>1, ZAtLabel DEF OpcodeAt
  <2> HIDE DEF f
  <2>4. items'[k].form # "deleted"
    BY <1>7, <2>2 DEF f
  <2> QED
    BY <1>1, <1>4, <2>2, <2>3, <2>4, ZFlowGoesOn
<1>8. ASSUME SetForm("short")
      PROVE  ZFlow'
  <2>1. Changed(items, items', k) /\ items'[k].form = "short" /\ items'[k].op = items[k].op
    BY <1>4, <1>8, ZSets DEF ZForms
  <2>2. items'[k].form \notin {"deleted", "rtrue", "rfalse"}
    BY <2>1
  <2> QED
    BY <1>1, <1>4, <2>1, <2>2, ZFlowGoesOn
<1>9. ASSUME items[k].op = "jump", InRoutine(l), offset[l] - pc = 2, SetForm("deleted")
      PROVE  ZFlow'
  <2>1. Changed(items, items', k) /\ items'[k].form = "deleted" /\ items'[k].op = items[k].op
    BY <1>4, <1>9, ZSets DEF ZForms
  <2>2. l \in Labels /\ place[l] \in 1 .. Len(items)
    <3>1. l \in Labels
      BY <1>5, <1>9 DEF Branching
    <3> QED
      BY <1>2, <1>9, <3>1, ZAtLabel
  <2>3. offset[l] = items[k].start + 3 /\ items[k].start \in Nat
    <3>1. items[k] \in ZItem
      BY <1>3, <1>4
    <3>2. items[k].start \in Nat
      BY <3>1 DEF ZItem
    <3>3. offset[l] \in Int
      BY <1>3, <2>2 DEF Placing
    <3> QED
      BY <1>9, <3>2, <3>3
  <2>4. ZLong(items)[k] = 3
    BY <1>4, <1>9 DEF ZLong, Size, Return1
  <2>5. Spot(items, size, k + 1) = offset[l]
    <3>1. Spot(items, size, k + 1) = Spot(items, size, k) + ZLong(items)[k]
      BY <1>3, <1>4 DEF Straight
    <3>2. Spot(items, size, k) = items[k].start
      BY <1>4 DEF Spot
    <3> QED
      BY <2>3, <2>4, <3>1, <3>2
  <2>6. Spot(items, size, place[l]) = Spot(items, size, k + 1)
    <3>1. place[l] # 0
      BY <2>2
    <3> QED
      BY <1>2, <2>2, <2>5, <3>1 DEF Unmoved
  <2>7. k + 1 \in 1 .. Len(items) + 1 /\ place[l] \in 1 .. Len(items) + 1
    BY <1>3, <1>4, <2>2
  <2>8. /\ Spot(items, size, k + 1) \in Nat
        /\ \A i \in 1 .. Len(items) + 1, j \in 1 .. Len(items) + 1 :
             i < j => Spot(items, size, i) < Spot(items, size, j)
    BY <1>3, <2>7 DEF Straight
  <2>9. ~ (place[l] < k + 1) /\ ~ (k + 1 < place[l])
    BY <2>6, <2>7, <2>8
  <2>10. place[l] = k + 1
    BY <1>3, <2>7, <2>9
  <2>11. items'[k].form \notin {"rtrue", "rfalse"} /\ items'[k].op = "jump"
    BY <1>9, <2>1
  <2> QED
    BY <1>1, <1>4, <2>1, <2>10, <2>11, ZFlowGoesOn
<1>10. ASSUME items[k].op = "jump", InRoutine(l), OpcodeAt(l) \in Return1,
              items' = [items EXCEPT ![k].op = OpcodeAt(l), ![k].form = "replaced"]
       PROVE  ZFlow'
  <2> DEFINE o == OpcodeAt(l)
             r == [items[k] EXCEPT !.op = o, !.form = "replaced"]
             jt == [items EXCEPT ![k] = r]
  <2>1. o \in Return1 /\ o \in AllOps /\ items[k] \in ZItem
    BY <1>3, <1>4, <1>10 DEF Return1, AllOps
  <2>2. place[l] \in 1 .. Len(items) /\ items[place[l]].op = o
    <3>1. l \in Labels
      BY <1>5, <1>10 DEF Branching
    <3> QED
      BY <1>2, <1>10, <3>1, ZAtLabel DEF OpcodeAt
  <2>3. items' = jt
    <3>1. items \in [1 .. Len(items) -> ZItem]
      BY <1>3
    <3> QED
      BY <1>4, <1>10, <3>1
  <2> HIDE DEF o
  <2>4. /\ r \in ZItem /\ r.op = o /\ r.was = items[k].was /\ r.len = items[k].len
        /\ r.label = items[k].label /\ r.start = items[k].start /\ r.form = "replaced"
    BY <2>1 DEF ZItem, ZForms
  <2> HIDE DEF r
  <2>5. /\ jt \in Seq(ZItem) /\ Len(jt) = Len(items)
        /\ \A i \in 1 .. Len(items) : jt[i] = IF i = k THEN r ELSE items[i]
    BY <1>3, <1>4, <2>4
  <2> HIDE DEF jt
  <2>6. Changed(items, items', k) /\ items'[k].op = o /\ items'[k].form = "replaced"
    BY <1>4, <2>3, <2>4, <2>5 DEF Changed
  <2>7. items'[k].form \notin {"deleted", "rtrue", "rfalse"} /\ items[k].op \notin Return1
    BY <1>10, <2>6 DEF Return1
  <2> QED
    BY <1>1, <1>4, <1>10, <2>1, <2>2, <2>6, <2>7, ZFlowGoesOn
<1>11. CASE items[k].op \in {"branch", "other"}
  <2>1. DecideBranch(l)
    BY <1>1, <1>11
  <2> HIDE DEF l
  <2>2. \/ Keep
        \/ /\ InRoutine(l) /\ items[k].op = "branch" /\ OpcodeAt(l) \in {"rtrue", "rfalse"}
           /\ SetForm(OpcodeAt(l))
        \/ SetForm("short")
    BY ONLY <2>1 DEF DecideBranch
  <2> QED
    BY <1>6, <1>7, <1>8, <2>2
<1>12. CASE items[k].op = "jump"
  <2>1. DecideJump(l)
    BY <1>1, <1>12
  <2> HIDE DEF l
  <2>2. \/ Keep
        \/ InRoutine(l) /\ offset[l] - pc = 2 /\ SetForm("deleted")
        \/ /\ InRoutine(l) /\ OpcodeAt(l) \in Return1
           /\ items' = [items EXCEPT ![k].op = OpcodeAt(l), ![k].form = "replaced"]
    BY ONLY <2>1 DEF DecideJump
  <2> QED
    BY <1>6, <1>9, <1>10, <1>12, <2>2
<1>13. CASE items[k].op \notin {"branch", "other", "jump"}
  <2>1. Keep
    BY <1>1, <1>13
  <2> QED
    BY <1>6, <2>1
<1> QED
  BY <1>11, <1>12, <1>13


(* Pass 1 ends with the uses of every label counted.                       *)
LEMMA ZFlowDecided ==
  ASSUME ZInv, ZFlow, EndDecide
  PROVE  ZFlow'
<1>1. /\ phase = "decide" /\ phase' = "clean" /\ items' = items /\ place' = place /\ out' = out
      /\ never' = never /\ use' = use /\ chain' = chain /\ k' = 1
  BY DEF EndDecide, NextPass, routine, labels
<1>2. /\ items \in Seq(ZItem) /\ Counted(items, use) /\ Placing(Len(items), place, offset, chain)
      /\ Len(items) \in Nat
  BY <1>1, ZBasics DEF ZInv
<1>3. ZUsed
  <2> SUFFICES ASSUME NEW l \in Labels, use[l] = 0, NEW i \in 1 .. Len(items),
                      items[i].label = l, items[i].form \notin Settled
               PROVE  FALSE
    BY DEF ZUsed
  <2>1. i \in Uses(items, l)
    BY DEF Uses, Settled
  <2>2. Cardinality(Uses(items, l)) # 0
    BY <1>2, <2>1, UsesCount
  <2> QED
    BY <1>2, <2>2 DEF Counted
<1>4. Passed(place, chain, 1, 1)
  <2>1. /\ chain \in Seq(Labels) /\ Len(chain) \in Nat
        /\ place \in [Labels -> 0 .. Len(items) + 1]
        /\ \A i \in 1 .. Len(chain) : place[chain[i]] # 0
    BY <1>2 DEF Placing
  <2>2. \A i \in 1 .. Len(chain) : chain[i] \in Labels
    BY <2>1
  <2>3. \A i \in 1 .. Len(chain) : ~ (i < 1) /\ ~ (place[chain[i]] < 1)
    BY <1>2, <2>1, <2>2
  <2>4. 1 \in 1 .. Len(chain) + 1
    BY <2>1
  <2> QED
    BY <2>3, <2>4 DEF Passed
<1>5. (ZUsed /\ \E m \in Nat : Passed(place, chain, k, m))'
  <2>1. ZUsed'
    BY <1>1, <1>3 DEF ZUsed, Cleaned
  <2>2. \E m \in Nat : Passed(place, chain, 1, m)
    BY <1>4
  <2> QED
    BY <1>1, <2>1, <2>2
<1>6. ZMade'
  BY <1>1 DEF ZFlow, ZMade, ZChosen, Cleaned, ZCutOff, ZLeft
<1> QED
  BY <1>1, <1>5, <1>6 DEF ZFlow

(* The chain at the labels before one instruction: they are all that stand *)
(* there, and the pass goes on behind them.                                *)
LEMMA ZGroupIs ==
  ASSUME ZInv, ZFlow, phase = "clean", k <= Len(chain)
  PROVE  /\ chain[k] \in Labels /\ place[chain[k]] \in 1 .. Len(items)
         /\ \A l \in Labels : place[l] = place[chain[k]] => \E i \in Group : chain[i] = l
         /\ Passed(place, chain, k + Cardinality(Group), place[chain[k]] + 1)
<1> DEFINE N == Len(items)
           m == place[chain[k]]
           T == [i \in 1 .. N + 1 |-> Spot(items, size, i)]
<1>1. /\ items \in Seq(ZItem) /\ N \in Nat /\ Straight(items, size, ZLong(items))
      /\ Placing(N, place, offset, chain) /\ Inside(items, place)
      /\ Unmoved(items, size, place, offset)
  BY ZBasics DEF ZInv, ZDecided
<1>2. PICK q \in Nat : Passed(place, chain, k, q)
  BY DEF ZFlow
<1>3. /\ chain \in Seq(Labels) /\ Len(chain) \in Nat /\ place \in [Labels -> 0 .. N + 1]
      /\ (\A l \in Labels : place[l] # 0 => \E i \in 1 .. Len(chain) : chain[i] = l)
      /\ (\A i \in 1 .. Len(chain) : place[chain[i]] # 0)
      /\ \A i \in 1 .. Len(chain), j \in 1 .. Len(chain) : i <= j => place[chain[i]] <= place[chain[j]]
  <2>1. chain \in Seq(Labels) /\ place \in [Labels -> 0 .. N + 1]
    BY <1>1 DEF Placing
  <2>2. Len(chain) \in Nat
    BY <2>1
  <2>3. \A l \in Labels : place[l] # 0 => \E i \in 1 .. Len(chain) : chain[i] = l
    BY <1>1 DEF Placing
  <2>4. /\ \A i \in 1 .. Len(chain) : place[chain[i]] # 0
        /\ \A i \in 1 .. Len(chain), j \in 1 .. Len(chain) : i <= j => place[chain[i]] <= place[chain[j]]
    BY <1>1 DEF Placing
  <2> QED
    BY <2>1, <2>2, <2>3, <2>4
<1>4. k \in 1 .. Len(chain)
  BY <1>2, <1>3 DEF Passed
<1>5. \A i \in 1 .. Len(chain) : chain[i] \in Labels
  BY <1>3
<1>6. m \in 1 .. N
  <2>1. m # 0 /\ m <= N /\ m \in 0 .. N + 1
    BY <1>1, <1>3, <1>4, <1>5 DEF Inside
  <2> QED
    BY <1>1, <2>1
<1>7. Passed(place, chain, k, m)
  <2>1. \A i \in 1 .. Len(chain) : (i < k) = (place[chain[i]] < q)
    BY <1>2 DEF Passed
  <2>2. ~ (m < q)
    BY <1>4, <2>1
  <2>3. \A i \in 1 .. Len(chain) : (i < k) = (place[chain[i]] < m)
    <3> TAKE i \in 1 .. Len(chain)
    <3>1. place[chain[i]] \in Nat
      BY <1>3, <1>5
    <3>2. CASE i < k
      <4>1. place[chain[i]] < q
        BY <2>1, <3>2
      <4> HIDE DEF m
      <4>2. place[chain[i]] < m
        BY <1>1, <1>6, <2>2, <3>1, <4>1
      <4> QED
        BY <3>2, <4>2
    <3>3. CASE ~ (i < k)
      <4>1. m <= place[chain[i]]
        BY <1>3, <1>4, <3>3
      <4> HIDE DEF m
      <4>2. ~ (place[chain[i]] < m)
        BY <1>1, <1>6, <3>1, <4>1
      <4> QED
        BY <3>3, <4>2
    <3> QED
      BY <3>2, <3>3
  <2>4. k \in 1 .. Len(chain) + 1
    BY <1>3, <1>4
  <2> QED
    BY <2>3, <2>4 DEF Passed
<1>8. Moved(items, size, place, offset, T, m)
  <2>1. \A l \in Labels : place[l] # 0 => place[l] \in 1 .. N + 1
    BY <1>1, <1>3
  <2>2. \A l \in Labels : place[l] # 0 => T[place[l]] = Spot(items, size, place[l])
    BY <2>1
  <2> HIDE DEF T
  <2> QED
    BY <1>1, <2>2 DEF Moved, Unmoved
<1> HIDE DEF T
<1>9. offset[chain[k]] = items[m].start
  <2>1. offset[chain[k]] = Spot(items, size, m)
    BY <1>1, <1>3, <1>4, <1>5 DEF Unmoved
  <2> QED
    BY <1>6, <2>1 DEF Spot
<1>10. Group = Standing(offset, chain, k, items[m].start)
  BY <1>9 DEF Group, Standing
<1> HIDE DEF m
<1>11. \A i \in k .. Len(chain) : (i \in Group) = (place[chain[i]] = m)
  BY <1>1, <1>6, <1>7, <1>8, <1>10, StandingIs
<1>12. Passed(place, chain, k + Cardinality(Group), m + 1)
  BY <1>1, <1>6, <1>7, <1>8, <1>10, PassesOn
<1>13. ASSUME NEW l \in Labels, place[l] = m
       PROVE  \E i \in Group : chain[i] = l
  <2>1. PICK i \in 1 .. Len(chain) : chain[i] = l
    <3>1. place[l] # 0
      BY <1>1, <1>6, <1>13
    <3> QED
      BY <1>3, <3>1
  <2>2. ~ (i < k)
    <3>1. ~ (place[chain[i]] < m)
      BY <1>1, <1>6, <1>13, <2>1
    <3> QED
      BY <1>7, <3>1 DEF Passed
  <2>3. i \in k .. Len(chain)
    BY <1>3, <1>4, <2>2
  <2> QED
    BY <1>11, <1>13, <2>1, <2>3
<1> QED
  BY <1>4, <1>5, <1>6, <1>12, <1>13 DEF m


(* Pass 1a deletes a return that nothing goes to and control does not fall *)
(* into.                                                                   *)
LEMMA ZFlowCleans ==
  ASSUME ZInv, ZFlow, Clean
  PROVE  ZFlow'
<1> DEFINE N == Len(items)
           l == chain[k]
           c == place[l]
<1>1. /\ phase = "clean" /\ k <= Len(chain) /\ phase' = phase /\ use' = use /\ never' = never
      /\ place' = place /\ chain' = chain /\ out' = out /\ k' = k + Cardinality(Group)
      /\ \/ items' = items
         \/ /\ Unused /\ Unreached /\ InRoutine(l) /\ OpcodeAt(l) \in Return1
            /\ items' = [items EXCEPT ![ItemAt(offset[l])].form = "deleted"]
  BY DEF Clean, labels
<1>2. /\ ZHeld /\ Unmoved(items, size, place, offset)
  BY <1>1 DEF ZInv
<1>3. items \in Seq(ZItem) /\ N \in Nat /\ \A i \in 1 .. N : ZRight(items[i])
  BY <1>2, ZBasics
<1>4. /\ l \in Labels /\ c \in 1 .. N
      /\ \A h \in Labels : place[h] = c => \E i \in Group : chain[i] = h
      /\ Passed(place, chain, k + Cardinality(Group), c + 1)
  BY <1>1, ZGroupIs
<1>5. /\ ZMade /\ ZUsed /\ out = <<>>
  BY <1>1 DEF ZFlow
<1>6. (\E m \in Nat : Passed(place, chain, k, m))'
  <2>1. c + 1 \in Nat
    BY <1>4
  <2> HIDE DEF c
  <2>2. \E m \in Nat : Passed(place, chain, k + Cardinality(Group), m)
    BY <1>4, <2>1
  <2> QED
    BY <1>1, <2>2
<1>7. CASE items' = items
  <2>1. ZMade' /\ ZUsed'
    BY <1>1, <1>5, <1>7 DEF ZMade, ZUsed, ZChosen, Cleaned, ZCutOff, ZLeft
  <2> QED
    BY <1>1, <1>5, <1>6, <2>1 DEF ZFlow
<1>8. ASSUME Unused, Unreached, InRoutine(l), OpcodeAt(l) \in Return1,
             items' = [items EXCEPT ![ItemAt(offset[l])].form = "deleted"]
      PROVE  ZFlow'
  <2> DEFINE jt == WithForm(items, c, "deleted")
  <2>1. ItemAt(offset[l]) = c
    BY <1>2, <1>4, <1>8, ZAtLabel
  <2>2. items' = jt /\ items[c].op \in Return1
    BY <1>8, <2>1 DEF WithForm, OpcodeAt
  <2> HIDE DEF c
  <2>3. /\ jt \in Seq(ZItem) /\ Len(jt) = N
        /\ \A i \in 1 .. N :
             /\ jt[i].op = items[i].op /\ jt[i].was = items[i].was /\ jt[i].len = items[i].len
             /\ jt[i].label = items[i].label /\ jt[i].start = items[i].start
             /\ jt[i].form = IF i = c THEN "deleted" ELSE items[i].form
    <3>1. "deleted" \in ZForms
      BY DEF ZForms
    <3> QED
      BY ONLY <1>3, <3>1, ZSetForm
  <2> HIDE DEF jt
  <2>4. \A i \in 1 .. N : Cleaned(i)' <=> i = c \/ Cleaned(i)
    <3>1. items[c].op # "jump"
      BY <2>2 DEF Return1
    <3> QED
      BY <1>4, <2>2, <2>3, <3>1 DEF Cleaned
  <2>5. \A i : i - 1 \in 1 .. N => (ZCutOff(i)' <=> ZCutOff(i))
    BY <2>2, <2>3 DEF ZCutOff
  <2>6. \A i \in 1 .. N : ZChosen(i)'
    <3> TAKE i \in 1 .. N
    <3> DEFINE t == place[items[i].label]
    <3>1. /\ items[i].op # items[i].was =>
               /\ items[i].was = "jump" /\ items[i].op \in Return1
               /\ t \in 1 .. N /\ items[t].op = items[i].op
               /\ items[t].was = items[i].op \/ (items[t].was = "jump" /\ t < i)
          /\ items[i].form \in {"rtrue", "rfalse"} => t \in 1 .. N /\ items[t].op = items[i].form
          /\ items[i].form = "deleted" =>
               IF items[i].op = "jump" THEN t = i + 1 ELSE items[i].op \in Return1
      BY <1>5 DEF ZMade, ZChosen
    <3>2. t \in 1 .. N => jt[t].op = items[t].op /\ jt[t].was = items[t].was
      BY <2>3
    <3>3. /\ jt[i].op = items[i].op /\ jt[i].was = items[i].was /\ place[jt[i].label] = t
          /\ jt[i].form = IF i = c THEN "deleted" ELSE items[i].form
      BY <2>3
    <3>4. i = c => items[i].op \in Return1 /\ items[i].op # "jump"
      BY <2>2 DEF Return1
    <3> HIDE DEF t
    <3>5. /\ jt[i].op # jt[i].was =>
               /\ jt[i].was = "jump" /\ jt[i].op \in Return1
               /\ t \in 1 .. N /\ jt[t].op = jt[i].op
               /\ jt[t].was = jt[i].op \/ (jt[t].was = "jump" /\ t < i)
          /\ jt[i].form \in {"rtrue", "rfalse"} => t \in 1 .. N /\ jt[t].op = jt[i].form
          /\ jt[i].form = "deleted" =>
               IF jt[i].op = "jump" THEN t = i + 1 ELSE jt[i].op \in Return1
      BY <3>1, <3>2, <3>3, <3>4
    <3> QED
      BY <1>1, <2>2, <2>3, <3>3, <3>5 DEF ZChosen
  <2>7. \A h \in Labels : never[h] => ZCutOff(place[h])'
    <3> TAKE h \in Labels
    <3> HAVE never[h]
    <3>1. ZCutOff(place[h])
      BY <1>5 DEF ZMade
    <3>2. place[h] \in 0 .. N + 1
      <4>1. Placing(N, place, offset, chain)
        BY <1>2, ZBasics
      <4> QED
        BY <4>1 DEF Placing
    <3>3. place[h] - 1 \in 1 .. N
      BY <1>3, <3>1, <3>2 DEF ZCutOff
    <3>4. EndsFlow(items'[place[h] - 1].was) /\ place[h] > 1
      BY <2>2, <2>3, <3>1, <3>3 DEF ZCutOff
    <3> QED
      BY <1>1, <3>4 DEF ZCutOff
  <2>8. \A h \in Labels : place[h] = c => use[h] = 0
    BY <1>4, <1>8 DEF Unused
  <2>9. ASSUME NEW i \in 1 .. N, Cleaned(i)'
        PROVE  ZCutOff(i)' /\ ZLeft(i)'
    <3>1. ZCutOff(i)
      <4>1. CASE i = c
        BY <1>4, <1>5, <1>8, <4>1 DEF ZMade, Unreached, c
      <4>2. CASE Cleaned(i)
        BY <1>5, <4>2 DEF ZMade
      <4> QED
        BY <2>4, <2>9, <4>1, <4>2
    <3>2. i - 1 \in 1 .. N
      BY <1>3, <3>1 DEF ZCutOff
    <3>3. ZCutOff(i)'
      BY <2>5, <3>1, <3>2
    <3>4. ASSUME NEW h \in 1 .. N, items[h].was \in Branching, place[items[h].label] = i,
                 ~ Cleaned(h)'
          PROVE  jt[h].form \in Settled
      <4>1. h # c /\ ~ Cleaned(h)
        BY <2>4, <3>4
      <4>2. items[h].form \in Settled
        <5>1. CASE i = c
          <6>1. items[h].label \in Labels
            BY <1>3, <3>4 DEF ZRight
          <6> QED
            BY <1>5, <2>8, <3>4, <4>1, <5>1, <6>1 DEF ZUsed
        <5>2. CASE Cleaned(i)
          BY <1>5, <3>4, <4>1, <5>2 DEF ZMade, ZLeft
        <5> QED
          BY <2>4, <2>9, <5>1, <5>2
      <4> QED
        BY <2>3, <4>1, <4>2
    <3>5. ZLeft(i)'
      BY <1>1, <2>2, <2>3, <3>4 DEF ZLeft
    <3> QED
      BY <3>3, <3>5
  <2>10. ZUsed'
    <3> SUFFICES ASSUME NEW h \in Labels, use[h] = 0, NEW i \in 1 .. N,
                        items[i].label = h, ~ Cleaned(i)'
                 PROVE  jt[i].form \in Settled
      BY <1>1, <2>2, <2>3 DEF ZUsed
    <3>1. i # c /\ ~ Cleaned(i)
      BY <2>4
    <3>2. items[i].form \in Settled
      BY <1>5, <3>1 DEF ZUsed
    <3> QED
      BY <2>3, <3>1, <3>2
  <2>11. ZMade'
    BY <1>1, <2>2, <2>3, <2>6, <2>7, <2>9 DEF ZMade
  <2> QED
    BY <1>1, <1>5, <1>6, <2>10, <2>11 DEF ZFlow
<1> QED
  BY <1>1, <1>7, <1>8


(* Pass 3 writes an instruction.                                           *)
LEMMA ZFlowEmits ==
  ASSUME ZInv, ZFlow, Emit
  PROVE  ZFlow'
<1>1. /\ phase = "emit" /\ k <= Len(items) /\ phase' = phase /\ k' = k + 1
      /\ items' = items /\ size' = size /\ place' = place /\ offset' = offset /\ never' = never
  BY DEF Emit, routine, labels
<1>2. ZFound /\ Transferring(items, size, ZKept(items), place, offset, k, newpc)
  BY <1>1, ZFinds DEF ZInv
<1>3. /\ items \in Seq(ZItem) /\ Len(items) \in Nat /\ (\A i \in 1 .. Len(items) : ZRight(items[i]))
      /\ ZKept(items) \in [1 .. Len(items) -> Nat] /\ Placing(Len(items), place, offset, chain)
  BY <1>2, ZBasics DEF ZFound
<1>4. k \in 1 .. Len(items) /\ k \in Nat \ {0}
  BY <1>1, <1>2, <1>3 DEF Transferring
<1> DEFINE kept == ZKept(items)
           oper(T) == ZOperands(items, offset, T)
<1>5. PICK T : /\ Mapped(items, size, kept, place, offset, T) /\ newpc = T[k]
               /\ Sent(items, kept, T, oper(T), k, out)
               /\ errors = {} => \A i \in 1 .. k - 1 : ~ ZLost(items, offset, i)
  BY <1>1 DEF ZFlow, ZSentTo
<1>6. T \in [1 .. Len(items) + 1 -> Nat] /\ T[k + 1] = T[k] + kept[k]
  BY <1>3, <1>4, <1>5, MappedFacts
<1>7. T[k] \in Nat /\ T[k + 1] \in Nat /\ kept[k] \in Nat
  BY <1>3, <1>4, <1>6
<1>8. ZMade'
  BY <1>1 DEF ZFlow, ZMade, ZChosen, Cleaned, ZCutOff, ZLeft
<1>9. CASE items[k].form = "deleted"
  <2>1. out' = out /\ newpc' = newpc /\ errors' = errors
    BY <1>9 DEF Emit
  <2>2. kept[k] = 0
    BY <1>4, <1>9 DEF ZKept, ZLength
  <2>3. newpc' = T[k + 1]
    BY <1>5, <1>6, <1>7, <2>1, <2>2
  <2>4. Sent(items, kept, T, oper(T), k + 1, out)
    BY <1>4, <1>5, <1>9, SentNot
  <2>5. errors' = {} => \A i \in 1 .. (k + 1) - 1 : ~ ZLost(items, offset, i)
    <3>1. ~ ZLost(items, offset, k)
      BY <1>9 DEF ZLost
    <3>2. \A i \in 1 .. (k + 1) - 1 : i = k \/ i \in 1 .. k - 1
      BY <1>4
    <3> QED
      BY <1>5, <2>1, <3>1, <3>2
  <2> HIDE DEF kept, oper
  <2>6. \E U : /\ Mapped(items, size, kept, place, offset, U) /\ newpc' = U[k + 1]
               /\ Sent(items, kept, U, oper(U), k + 1, out)
               /\ errors' = {} => \A i \in 1 .. (k + 1) - 1 : ~ ZLost(items, offset, i)
    BY <1>5, <2>3, <2>4, <2>5
  <2>7. ZSentTo(k)'
    BY <1>1, <2>1, <2>6 DEF ZSentTo, kept, oper
  <2> QED
    BY <1>1, <1>8, <2>1, <2>7 DEF ZFlow
<1>10. CASE items[k].form # "deleted"
  <2> DEFINE r == [ op |-> items[k].op, addr |-> newpc, size |-> Kept(k),
                    operand |-> Operand(k), src |-> k ]
             l == items[k].label
  <2>1. /\ out' = Append(out, r) /\ newpc' = newpc + Kept(k)
        /\ errors' = errors \cup OperandErrors(k)
    BY <1>10 DEF Emit
  <2>2. Kept(k) = kept[k]
    BY <1>4, ZKeptIs
  <2>3. newpc' = T[k + 1]
    BY <1>5, <1>6, <2>1, <2>2
  <2>4. items[k] \in ZItem /\ ZRight(items[k]) /\ ZChosen(k)
    BY <1>3, <1>4 DEF ZFlow, ZMade
  <2>5. items[k].op \in Branching =>
          items[k].was = items[k].op /\ items[k].form \in {"long", "short", "rtrue", "rfalse"}
    <3>1. items[k].op \in Branching => items[k].op \notin Return1
      BY DEF Branching, Return1
    <3>2. items[k].form \in ZForms
      BY <2>4 DEF ZItem
    <3> QED
      BY <1>10, <2>4, <3>1, <3>2 DEF ZRight, ZForms
  <2>6. items[k].op \in Branching => offset[l] \in Int
    <3>1. items[k].op \in Branching => l \in Labels
      BY <2>4, <2>5 DEF ZRight
    <3>2. \A h \in Labels : offset[h] \in Int
      BY <1>3 DEF Placing
    <3> QED
      BY <3>1, <3>2
  <2>7. Operand(k) = oper(T)[k] /\ Operand(k) \in Int
    <3>1. oper(T)[k] = IF items[k].op \notin Branching THEN 0
                       ELSE IF items[k].form \in {"long", "short"} /\ offset[l] < 0 THEN 0
                       ELSE IF items[k].op = "jump" THEN offset[l] - (T[k] + 1)
                       ELSE IF items[k].form = "rtrue" THEN 1
                       ELSE IF items[k].form = "rfalse" THEN 0
                       ELSE offset[l] - T[k + 1] + 2
      BY <1>4 DEF ZOperands
    <3>2. Operand(k) = IF items[k].op \notin Branching THEN 0
                       ELSE IF items[k].form \in {"long", "short"} /\ offset[l] < 0 THEN 0
                       ELSE IF items[k].op = "jump" THEN offset[l] - (newpc + 1)
                       ELSE BranchAddr(k)
      BY DEF Operand, Branching, JumpAddr
    <3>3. items[k].form = "rtrue" => BranchAddr(k) = 1
      BY DEF BranchAddr
    <3>4. items[k].form = "rfalse" => BranchAddr(k) = 0
      BY DEF BranchAddr
    <3>5. items[k].op \in Branching /\ items[k].op # "jump" /\ items[k].form = "long" =>
            BranchAddr(k) = offset[l] - (newpc + 4) + 2 /\ kept[k] = 4
      <4> HAVE items[k].op \in Branching /\ items[k].op # "jump" /\ items[k].form = "long"
      <4>1. BranchAddr(k) = offset[l] - (newpc + HeadSize + 1 + 1) + 2
        BY DEF BranchAddr
      <4>2. ZLength(items[k]) = 4
        <5>1. items[k].op \in {"branch", "other"}
          BY DEF Branching
        <5>2. Size(items[k].op, items[k].len) = 4
          BY <5>1 DEF Size, HeadSize, Return1
        <5> QED
          BY <5>2 DEF ZLength
      <4> QED
        BY <1>4, <1>5, <1>7, <4>1, <4>2 DEF HeadSize, ZKept
    <3>6. items[k].op \in Branching /\ items[k].op # "jump" /\ items[k].form = "short" =>
            BranchAddr(k) = offset[l] - (newpc + 3) + 2 /\ kept[k] = 3
      <4> HAVE items[k].op \in Branching /\ items[k].op # "jump" /\ items[k].form = "short"
      <4>1. BranchAddr(k) = offset[l] - (newpc + HeadSize + 0 + 1) + 2
        BY DEF BranchAddr
      <4>2. ZLength(items[k]) = 3
        BY DEF ZLength, HeadSize
      <4> QED
        BY <1>4, <1>5, <1>7, <4>1, <4>2 DEF HeadSize, ZKept
    <3> HIDE DEF oper, kept, l
    <3>7. CASE items[k].op \notin Branching
      BY <3>1, <3>2, <3>7
    <3>8. CASE items[k].op \in Branching /\ items[k].form \in {"long", "short"} /\ offset[l] < 0
      BY <3>1, <3>2, <3>8
    <3>9. CASE items[k].op = "jump" /\ ~ (items[k].form \in {"long", "short"} /\ offset[l] < 0)
      <4>1. items[k].op \in Branching
        BY <3>9 DEF Branching
      <4> QED
        BY <1>5, <1>7, <2>6, <3>1, <3>2, <3>9, <4>1
    <3>10. CASE /\ items[k].op \in Branching /\ items[k].op # "jump"
                /\ ~ (items[k].form \in {"long", "short"} /\ offset[l] < 0)
      <4>1. CASE items[k].form \in {"rtrue", "rfalse"}
        BY <3>1, <3>2, <3>3, <3>4, <3>10, <4>1
      <4>2. CASE items[k].form = "long"
        <5>1. Operand(k) = offset[l] - (newpc + 4) + 2 /\ kept[k] = 4
          BY <3>2, <3>5, <3>10, <4>2
        <5>2. oper(T)[k] = offset[l] - T[k + 1] + 2
          BY <3>1, <3>10, <4>2
        <5>3. offset[l] \in Int /\ newpc \in Int /\ T[k + 1] = newpc + kept[k]
          BY <1>5, <1>6, <1>7, <2>6, <3>10
        <5> QED
          BY ONLY <5>1, <5>2, <5>3
      <4>3. CASE items[k].form = "short"
        <5>1. Operand(k) = offset[l] - (newpc + 3) + 2 /\ kept[k] = 3
          BY <3>2, <3>6, <3>10, <4>3
        <5>2. oper(T)[k] = offset[l] - T[k + 1] + 2
          BY <3>1, <3>10, <4>3
        <5>3. offset[l] \in Int /\ newpc \in Int /\ T[k + 1] = newpc + kept[k]
          BY <1>5, <1>6, <1>7, <2>6, <3>10
        <5> QED
          BY ONLY <5>1, <5>2, <5>3
      <4> QED
        BY <2>5, <3>10, <4>1, <4>2, <4>3
    <3> QED
      BY <3>7, <3>8, <3>9, <3>10
  <2>8. r \in OutRec
    <3>1. items[k].op \in AllOps \cup G!AllOps /\ newpc \in Nat /\ Kept(k) \in Nat
      BY <1>5, <1>7, <2>2, <2>4 DEF ZItem
    <3> QED
      BY <1>4, <2>7, <3>1 DEF OutRec
  <2>9. /\ r.src = k /\ r.op = items[k].op /\ r.addr = T[k] /\ r.size = kept[k]
        /\ r.operand = oper(T)[k]
    BY <1>5, <2>2, <2>7
  <2> HIDE DEF r, kept, oper
  <2>10. Sent(items, kept, T, oper(T), k + 1, Append(out, r))
    BY <1>4, <1>5, <1>10, <2>8, <2>9, SentMore
  <2>11. errors' = {} => \A i \in 1 .. (k + 1) - 1 : ~ ZLost(items, offset, i)
    <3>1. errors' = {} => errors = {} /\ OperandErrors(k) = {}
      BY <2>1
    <3>2. OperandErrors(k) = {} => ~ ZLost(items, offset, k)
      BY DEF OperandErrors, ZLost, Branching
    <3>3. \A i \in 1 .. (k + 1) - 1 : i = k \/ i \in 1 .. k - 1
      BY <1>4
    <3> QED
      BY <1>5, <3>1, <3>2, <3>3
  <2>12. \E U : /\ Mapped(items, size, kept, place, offset, U) /\ newpc' = U[k + 1]
                /\ Sent(items, kept, U, oper(U), k + 1, out')
                /\ errors' = {} => \A i \in 1 .. (k + 1) - 1 : ~ ZLost(items, offset, i)
    BY <1>5, <2>1, <2>3, <2>10, <2>11
  <2>13. ZSentTo(k)'
    BY <1>1, <2>12 DEF ZSentTo, kept, oper
  <2> QED
    BY <1>1, <1>8, <2>13 DEF ZFlow
<1> QED
  BY <1>9, <1>10


(* A step of the Z-code passes.                                            *)
LEMMA ZFlowStep ==
  ASSUME ZInv, ZFlow, Next
  PROVE  ZFlow'
<1>1. CASE AssembleInstruction
  <2>1. \E op, n, l : Assemble(op, n, l)
    BY <1>1 DEF AssembleInstruction
  <2>2. phase' = "assemble"
    BY <1>1, <2>1 DEF AssembleInstruction, Assemble
  <2> QED
    BY <2>1, <2>2, ZFlowAssembles
<1>2. CASE \E l \in Labels : AssembleLabel(l)
  BY <1>2, ZFlowLabels
<1>3. CASE AssembleRoutineEnd
  <2>1. CASE Assemble("rtrue", 0, NoLabel) /\ phase' = "decide"
    BY <2>1, ZFlowAssembles
  <2>2. CASE /\ phase = "assemble" /\ dead /\ phase' = "decide"
             /\ UNCHANGED <<routine, labels, chain, k, label, newpc, out, errors>>
    <3>1. items' = items /\ place' = place /\ out' = out /\ never' = never
      BY <2>2 DEF routine, labels
    <3>2. ZMade' /\ (\A i \in 1 .. Len(items) : ~ Cleaned(i))'
      BY <2>2, <3>1 DEF ZFlow, ZMade, ZChosen, Cleaned, ZCutOff, ZLeft
    <3> QED
      BY <2>2, <3>1, <3>2 DEF ZFlow
  <2> QED
    BY <1>3, <2>1, <2>2 DEF AssembleRoutineEnd
<1>4. CASE Decide
  BY <1>4, ZFlowDecides
<1>5. CASE EndDecide
  BY <1>5, ZFlowDecided
<1>6. CASE Clean
  BY <1>6, ZFlowCleans
<1>7. CASE EndClean
  <2>1. /\ phase = "clean" /\ phase' = "relocate" /\ items' = items /\ place' = place
        /\ out' = out /\ never' = never
    BY <1>7 DEF EndClean, NextPass, routine, labels
  <2>2. ZMade'
    BY <2>1 DEF ZFlow, ZMade, ZChosen, Cleaned, ZCutOff, ZLeft
  <2> QED
    BY <2>1, <2>2 DEF ZFlow
<1>8. CASE Relocate
  <2>1. /\ phase = "relocate" /\ phase' = phase /\ items' = items /\ place' = place
        /\ out' = out /\ never' = never
    BY <1>8 DEF Relocate, routine
  <2>2. ZMade'
    BY <2>1 DEF ZFlow, ZMade, ZChosen, Cleaned, ZCutOff, ZLeft
  <2> QED
    BY <2>1, <2>2 DEF ZFlow
<1>9. CASE EndRelocate
  <2>1. /\ phase = "relocate" /\ phase' = "emit" /\ items' = items /\ place' = place /\ out' = out
        /\ size' = size /\ offset' = offset /\ never' = never
        /\ k' = 1 /\ newpc' = 0 /\ k > Len(items)
    BY <1>9 DEF EndRelocate, NextPass, routine, labels
  <2>2. items \in Seq(ZItem)
    BY ZBasics DEF ZInv
  <2>3. PICK T : Mapped(items, size, ZKept(items), place, offset, T) /\ T[1] = 0
    <3>1. Relocating(items, size, ZKept(items), place, offset, chain, k, label, newpc)
      BY <2>1 DEF ZInv
    <3> QED
      BY <2>1, <2>2, <3>1, RelocateMaps
  <2>4. 1 .. 1 - 1 = {} /\ out = <<>>
    BY <2>1 DEF ZFlow
  <2>5. Sent(items, ZKept(items), T, ZOperands(items, offset, T), 1, <<>>)
    BY <2>4 DEF Sent
  <2>6. ZSentTo(k)'
    <3>1. \E U : /\ Mapped(items, size, ZKept(items), place, offset, U) /\ 0 = U[1]
                 /\ Sent(items, ZKept(items), U, ZOperands(items, offset, U), 1, out)
                 /\ errors' = {} => \A i \in 1 .. 1 - 1 : ~ ZLost(items, offset, i)
      BY <2>3, <2>4, <2>5
    <3> QED
      BY <2>1, <3>1 DEF ZSentTo
  <2>7. ZMade'
    BY <2>1 DEF ZFlow, ZMade, ZChosen, Cleaned, ZCutOff, ZLeft
  <2> QED
    BY <2>1, <2>6, <2>7 DEF ZFlow
<1>10. CASE Emit
  BY <1>10, ZFlowEmits
<1>11. CASE EndEmit
  <2>1. /\ phase = "emit" /\ phase' = "done" /\ items' = items /\ place' = place /\ out' = out
        /\ size' = size /\ offset' = offset /\ newpc' = newpc /\ never' = never /\ k > Len(items)
        /\ errors' = {} => errors = {}
    BY <1>11 DEF EndEmit, routine, labels
  <2>2. k = Len(items) + 1
    <3>1. items \in Seq(ZItem) /\ Len(items) \in Nat
      BY ZBasics DEF ZInv
    <3>2. k \in 1 .. Len(items) + 1
      BY <2>1 DEF ZInv, Transferring
    <3> QED
      BY <2>1, <3>1, <3>2
  <2>3. ZSentTo(Len(items) + 1)
    BY <2>1, <2>2 DEF ZFlow
  <2>4. ZSentTo(Len(items) + 1)'
    BY <2>1, <2>3 DEF ZSentTo
  <2>5. ZMade'
    BY <2>1 DEF ZFlow, ZMade, ZChosen, Cleaned, ZCutOff, ZLeft
  <2> QED
    BY <2>1, <2>4, <2>5 DEF ZFlow
<1> QED
  BY <1>1, <1>2, <1>3, <1>4, <1>5, <1>6, <1>7, <1>8, <1>9, <1>10, <1>11 DEF Next

(* The Z-code passes begin with nothing assembled and nothing written.     *)
LEMMA ZFlowBegins ==
  ASSUME Init
  PROVE  ZFlow
<1>1. /\ phase = "assemble" /\ items = <<>> /\ out = <<>> /\ Len(items) = 0 /\ dead = FALSE
      /\ never = [l \in Labels |-> FALSE]
  BY DEF Init
<1>2. \A l \in Labels : ~ never[l]
  BY <1>1
<1>3. ZMade /\ DOMAIN never = Labels
  BY <1>1, <1>2 DEF ZMade
<1> QED
  BY <1>1, <1>3 DEF ZFlow


---------------------------------------------------------------------------
(* Z-code: the code written does what the code assembled does.             *)

\* Pass 3 has written all, and found no label missing.
ZWritten(T) ==
  /\ ZFound /\ ZMade
  /\ Mapped(items, size, ZKept(items), place, offset, T)
  /\ Sent(items, ZKept(items), T, ZOperands(items, offset, T), Len(items) + 1, out)
  /\ \A i \in 1 .. Len(items) : ~ ZLost(items, offset, i)

(* The code as assembled is a graph of jumps.                              *)
LEMMA CodeFlows ==
  ASSUME Len(items) \in Nat
  PROVE  /\ CodeDest \in [1 .. Len(items) -> 0 .. Len(items)]
         /\ Linked(Len(items), CodeDest) /\ Flows(Len(items), CodeJumps, CodeDest)
         /\ \A i \in 1 .. Len(items) :
              /\ i \in CodeJumps <=> items[i].was = "jump"
              /\ i \in CodeJumps /\ place[items[i].label] \in 1 .. Len(items) =>
                   CodeDest[i] = place[items[i].label]
<1> DEFINE N == Len(items)
<1>1. \A x : Within(x) \in 0 .. N /\ (x \in 1 .. N => Within(x) = x)
  BY DEF Within
<1>2. CodeDest \in [1 .. N -> 0 .. N]
  BY <1>1 DEF CodeDest
<1>3. Linked(N, CodeDest)
  BY <1>2 DEF Linked
<1>4. Flows(N, CodeJumps, CodeDest)
  BY <1>3, FollowStep
<1>5. \A i \in 1 .. N : i \in CodeJumps <=> items[i].was = "jump"
  BY DEF CodeJumps
<1>6. \A i \in 1 .. N : i \in CodeJumps /\ place[items[i].label] \in 1 .. N =>
        CodeDest[i] = place[items[i].label]
  BY <1>1 DEF CodeDest
<1> QED
  BY <1>2, <1>3, <1>4, <1>5, <1>6

(* What has become a return comes to such a return, in the code assembled. *)
LEMMA ZValues ==
  ASSUME Len(items) \in Nat, \A i \in 1 .. Len(items) : ZChosen(i)
  PROVE  \A i \in 1 .. Len(items) : items[i].op \in Return1 =>
           /\ Follow(Len(items), CodeJumps, CodeDest, i) \in 1 .. Len(items)
           /\ items[Follow(Len(items), CodeJumps, CodeDest, i)].was = items[i].op
<1> DEFINE N == Len(items)
           A(i) == Follow(N, CodeJumps, CodeDest, i)
           Right(i) == items[i].op \in Return1 => A(i) \in 1 .. N /\ items[A(i)].was = items[i].op
           K == {n \in 0 .. N : \A i \in 1 .. n : Right(i)}
<1>1. /\ \A i \in 1 .. N : i \in CodeJumps <=> items[i].was = "jump"
      /\ \A i \in 1 .. N : i \in CodeJumps /\ place[items[i].label] \in 1 .. N =>
           CodeDest[i] = place[items[i].label]
      /\ Flows(N, CodeJumps, CodeDest)
  BY CodeFlows
<1>2. \A i \in 1 .. N : A(i) = IF i \in CodeJumps THEN A(CodeDest[i]) ELSE i
  BY <1>1 DEF Flows
<1> HIDE DEF A
<1>3. 0 \in K
  OBVIOUS
<1>4. ASSUME NEW n \in 1 .. N, n - 1 \in K
      PROVE  n \in K
  <2>1. \A i \in 1 .. n - 1 : Right(i)
    BY <1>4
  <2>2. ASSUME items[n].op \in Return1
        PROVE  A(n) \in 1 .. N /\ items[A(n)].was = items[n].op
    <3> DEFINE t == place[items[n].label]
    <3>1. \A o \in Return1 : o # "jump"
      BY DEF Return1
    <3>2. CASE items[n].op = items[n].was
      BY <1>1, <1>2, <2>2, <3>1, <3>2
    <3>3. CASE items[n].op # items[n].was
      <4>1. /\ items[n].was = "jump" /\ t \in 1 .. N /\ items[t].op = items[n].op
            /\ items[t].was = items[n].op \/ (items[t].was = "jump" /\ t < n)
        BY <3>3 DEF ZChosen
      <4>2. A(n) = A(t)
        BY <1>1, <1>2, <4>1
      <4>3. CASE items[t].was = items[n].op
        <5>1. A(t) = t
          BY <1>1, <1>2, <2>2, <3>1, <4>1, <4>3
        <5> QED
          BY <4>1, <4>2, <4>3, <5>1
      <4>4. CASE t < n
        <5>1. t \in 1 .. n - 1
          BY <4>1, <4>4
        <5>2. Right(t)
          BY <2>1, <5>1
        <5> QED
          BY <2>2, <4>1, <4>2, <5>2
      <4> QED
        BY <4>1, <4>3, <4>4
    <3> QED
      BY <3>2, <3>3
  <2>3. \A i \in 1 .. n : i = n \/ i \in 1 .. n - 1
    OBVIOUS
  <2>4. \A i \in 1 .. n : Right(i)
    BY <2>1, <2>2, <2>3
  <2>5. n \in 0 .. N
    OBVIOUS
  <2> QED
    BY <2>4, <2>5
<1> HIDE DEF K
<1>5. \A n \in 0 .. N : n \in K
  BY <1>3, <1>4, UpTo
<1>6. N \in K
  <2>1. N \in 0 .. N
    OBVIOUS
  <2> QED
    BY <1>5, <2>1
<1>7. \A i \in 1 .. N : Right(i)
  BY <1>6 DEF K
<1> QED
  BY <1>7 DEF A

(* The lengths of what is kept.                                            *)
LEMMA ZKeptSizes ==
  ASSUME NEW it \in Seq(ZItem), NEW i \in 1 .. Len(it), ZRight(it[i])
  PROVE  /\ it[i].form = "deleted" => ZKept(it)[i] = 0
         /\ it[i].form # "deleted" => ZKept(it)[i] # 0
         /\ it[i].form = "long" /\ it[i].op = "jump" => ZKept(it)[i] = 3
         /\ it[i].form = "long" /\ it[i].op \in {"branch", "other"} => ZKept(it)[i] = 4
         /\ it[i].form = "short" => ZKept(it)[i] = 3
<1>1. it[i] \in ZItem
  OBVIOUS
<1>2. /\ it[i].was \in {"plain", "branch", "other", "jump", "rtrue", "rfalse", "ret_popped", "ret"}
      /\ it[i].len \in Nat /\ it[i].form \in ZForms
  BY <1>1 DEF ZItem, AllOps
<1>3. ZKept(it)[i] = ZLength(it[i])
  BY DEF ZKept
<1>4. /\ it[i].form = "long" => ZLength(it[i]) = Size(it[i].op, it[i].len) /\ it[i].op = it[i].was
      /\ it[i].form \in {"short", "rtrue", "rfalse"} => ZLength(it[i]) = 3
      /\ it[i].form = "replaced" => ZLength(it[i]) = 1
      /\ it[i].form = "deleted" => ZLength(it[i]) = 0
  BY DEF ZLength, HeadSize, ZRight
<1>5. /\ it[i].was = "plain" => Size(it[i].was, it[i].len) = it[i].len
      /\ it[i].was \in {"branch", "other"} => Size(it[i].was, it[i].len) = 4
      /\ it[i].was = "jump" => Size(it[i].was, it[i].len) = 3
      /\ it[i].was = "ret" => Size(it[i].was, it[i].len) = 2
      /\ it[i].was \in Return1 => Size(it[i].was, it[i].len) = 1
  BY DEF Size, HeadSize, Return1
<1>6. it[i].was = "plain" => it[i].len # 0
  BY DEF ZRight
<1>7. it[i].form # "deleted" => ZLength(it[i]) # 0
  BY <1>2, <1>4, <1>5, <1>6 DEF ZForms, Return1
<1> QED
  BY <1>3, <1>4, <1>5, <1>7


(* Where an operand leads.                                                 *)
LEMMA ZLeads ==
  ASSUME NEW T, ZWritten(T), NEW i \in 1 .. Len(items), items[i].op \in Branching,
         items[i].form \in {"long", "short"}, NEW j \in 1 .. Len(out), out[j].src = i
  PROVE  /\ place[items[i].label] \in 1 .. Len(items) /\ ~ Cleaned(place[items[i].label])
         /\ items[i].op # "jump" => out[j].operand \notin {0, 1}
         /\ Destination(out[j]) = T[place[items[i].label]]
<1> DEFINE N == Len(items)
           l == items[i].label
           p == place[l]
           kept == ZKept(items)
<1>1. /\ items \in Seq(ZItem) /\ N \in Nat /\ ZRight(items[i])
      /\ Placing(N, place, offset, chain) /\ Inside(items, place)
      /\ kept \in [1 .. N -> Nat]
  BY ZBasics DEF ZWritten, ZFound, ZDecided
<1>2. l \in Labels /\ items[i].was = items[i].op
  BY <1>1 DEF ZRight
<1>3. ~ (offset[l] < 0)
  BY DEF ZWritten, ZLost
<1>4. p \in 1 .. N
  <2>1. p \in 0 .. N + 1 /\ p <= N /\ offset[l] \in Nat \cup {-1} /\ (offset[l] = -1) = (p = 0)
    BY <1>1, <1>2 DEF Placing, Inside
  <2> QED
    BY <1>1, <1>3, <2>1
<1>5. ~ Cleaned(p)
  <2>1. Cleaned(p) => ZLeft(p)
    BY <1>4 DEF ZWritten, ZMade
  <2>2. ~ Cleaned(i) /\ items[i].form \notin Settled
    BY DEF Cleaned, Settled
  <2> QED
    BY <1>2, <2>1, <2>2 DEF ZLeft
<1> HIDE DEF p
<1>6. /\ T \in [1 .. N + 1 -> Nat]
      /\ \A h \in 1 .. N : T[h + 1] = T[h] + kept[h]
      /\ \A h \in 1 .. N + 1, x \in 1 .. N + 1 : h <= x => T[h] <= T[x]
      /\ \A h \in Labels : place[h] # 0 /\ place[h] < N + 1 => offset[h] = T[place[h]]
  BY <1>1, MappedFacts DEF ZWritten
<1>7. offset[l] = T[p]
  <2>1. place[l] # 0 /\ place[l] < N + 1
    BY <1>1, <1>4 DEF p
  <2> QED
    BY <1>2, <1>6, <2>1 DEF p
<1>8. out[j].addr = T[i] /\ out[j].size = kept[i] /\ out[j].operand = ZOperands(items, offset, T)[i]
  BY DEF ZWritten, Sent
<1>9. ZOperands(items, offset, T)[i] =
        IF items[i].op = "jump" THEN T[p] - (T[i] + 1) ELSE T[p] - T[i + 1] + 2
  <2>1. ~ (items[i].form = "rtrue") /\ ~ (items[i].form = "rfalse")
    OBVIOUS
  <2> QED
    BY <1>3, <1>7, <2>1 DEF ZOperands
<1>10. T[i] \in Nat /\ T[i + 1] \in Nat /\ T[p] \in Nat /\ kept[i] \in Nat /\ T[i + 1] = T[i] + kept[i]
  <2>1. i \in 1 .. N + 1 /\ i + 1 \in 1 .. N + 1 /\ p \in 1 .. N + 1
    BY <1>1, <1>4
  <2>2. T[i] \in Nat /\ T[i + 1] \in Nat /\ T[p] \in Nat
    BY ONLY <1>6, <2>1
  <2>3. kept[i] \in Nat
    BY <1>1
  <2> QED
    BY <1>6, <2>2, <2>3
<1>11. IF items[i].op = "jump" THEN kept[i] = 3 ELSE kept[i] >= 3
  <2>1. /\ items[i].form = "long" /\ items[i].op = "jump" => kept[i] = 3
        /\ items[i].form = "long" /\ items[i].op \in {"branch", "other"} => kept[i] = 4
        /\ items[i].form = "short" => kept[i] = 3
    BY <1>1, ZKeptSizes
  <2> HIDE DEF kept
  <2> QED
    BY <1>10, <2>1 DEF Branching
<1> HIDE DEF kept
<1>12. T[p] - T[i + 1] + 2 \notin {0, 1}
  <2>1. T[i + 1] >= T[i] + 3
    BY <1>10, <1>11
  <2>2. i \in 1 .. N
    OBVIOUS
  <2> QED
    BY ONLY <1>1, <1>4, <1>6, <2>1, <2>2, NotInside
<1>13. Destination(out[j]) = T[p]
  <2>1. CASE items[i].op = "jump"
    <3>1. Destination(out[j]) = T[i] + 3 + (T[p] - (T[i] + 1)) - 2
      BY <1>8, <1>9, <1>11, <2>1 DEF Destination
    <3> QED
      <4> DEFINE a == T[i]  b == T[p]  d == Destination(out[j])
      <4>1. a \in Nat /\ b \in Nat /\ d = a + 3 + (b - (a + 1)) - 2
        BY <1>10, <3>1
      <4> HIDE DEF a, b, d
      <4>2. d = b
        BY ONLY <4>1
      <4> QED
        BY <4>2 DEF b, d
  <2>2. CASE items[i].op # "jump"
    <3>1. Destination(out[j]) = T[i] + kept[i] + (T[p] - T[i + 1] + 2) - 2
      BY <1>8, <1>9, <2>2 DEF Destination
    <3> QED
      BY <1>10, <3>1
  <2> QED
    BY <2>1, <2>2
<1> QED
  BY <1>4, <1>5, <1>8, <1>9, <1>12, <1>13 DEF p

(* Where the code written and the code assembled are taken up, at an       *)
(* instruction that is not a deleted return, they come to the same.        *)
LEMMA ZArrivesAlike ==
  ASSUME NEW T, ZWritten(T)
  PROVE  \A i \in 1 .. Len(items) + 1 :
           (i \in 1 .. Len(items) => ~ Cleaned(i)) => OutArrives(T[i]) = Arrives(i)
<1> DEFINE N == Len(items)
           M == Len(out)
           aj == CodeJumps
           ad == CodeDest
           oj == OutJumps
           od == OutDest
           L == {i \in 1 .. N : ~ Cleaned(i)}
           at == [i \in L |-> OutItem(T[i])]
           W == {w \in (1 .. N) \X (1 .. M) :
                   Known(items[w[1]].was, w[1]) = Known(out[w[2]].op, out[w[2]].src)}
           kept == ZKept(items)
<1>1. /\ items \in Seq(ZItem) /\ N \in Nat /\ (\A i \in 1 .. N : ZRight(items[i]))
      /\ Placing(N, place, offset, chain) /\ Inside(items, place)
      /\ kept \in [1 .. N -> Nat]
  BY ZBasics DEF ZWritten, ZFound, ZDecided
<1>2. /\ \A i \in 1 .. N : items[i].form # "deleted" => kept[i] # 0
      /\ \A i \in 1 .. N : items[i].form = "deleted" => kept[i] = 0
  BY <1>1, ZKeptSizes
<1>3. /\ M \in Nat /\ \A x : OutItem(x) \in 0 .. M
      /\ \A i \in 1 .. N : items[i].form # "deleted" =>
           OutItem(T[i]) # 0 /\ out[OutItem(T[i])].src = i
      /\ OutItem(T[N + 1]) = 0
  <2>1. /\ Mapped(items, size, kept, place, offset, T)
        /\ Sent(items, kept, T, ZOperands(items, offset, T), N + 1, out)
    BY DEF ZWritten
  <2> HIDE DEF kept
  <2> QED
    BY ONLY <1>1, <1>2, <2>1, OutItemIs
<1>4. /\ T \in [1 .. N + 1 -> Nat]
      /\ \A i \in 1 .. N : T[i + 1] = T[i] + kept[i]
  BY <1>1, MappedFacts DEF ZWritten
<1>5. /\ \A i \in 1 .. N : ZChosen(i)
      /\ \A i \in 1 .. N : Cleaned(i) => ZLeft(i)
  BY DEF ZWritten, ZMade
<1>6. \A j \in 1 .. M : out[j].src \in 1 .. N /\ out[j].op = items[out[j].src].op
  <2>1. (N + 1) - 1 = N
    BY <1>1
  <2>2. Sent(items, kept, T, ZOperands(items, offset, T), N + 1, out)
    BY DEF ZWritten
  <2> QED
    BY <2>1, <2>2 DEF Sent
<1> HIDE DEF kept
<1>7. /\ ad \in [1 .. N -> 0 .. N] /\ Flows(N, aj, ad)
      /\ \A i \in 1 .. N : i \in aj <=> items[i].was = "jump"
      /\ \A i \in 1 .. N : i \in aj /\ place[items[i].label] \in 1 .. N =>
           ad[i] = place[items[i].label]
  BY <1>1, CodeFlows
<1>8. od \in [1 .. M -> 0 .. M]
  BY <1>3 DEF OutDest
<1>9. at \in [L -> 0 .. M] /\ \A i \in L : at[i] = OutItem(T[i])
  BY <1>3
<1>10. \A j \in 1 .. M : j \in oj <=> out[j].op = "jump"
  BY DEF OutJumps
<1>11. \A j \in 1 .. M : j \in oj => od[j] = OutItem(Destination(out[j]))
  BY DEF OutDest
<1>12. \A i \in 1 .. N : items[i].op \in Return1 =>
         /\ Follow(N, aj, ad, i) \in 1 .. N
         /\ items[Follow(N, aj, ad, i)].was = items[i].op
  BY <1>1, <1>5, ZValues
<1>13. \A i : i \in L <=> i \in 1 .. N /\ ~ Cleaned(i)
  OBVIOUS
<1> HIDE DEF at, aj, ad, oj, od, W, L
<1>14. ASSUME NEW i \in L
       PROVE  \/ Skips(L, aj, ad, at, i)
              \/ Goes(L, aj, ad, at, oj, od, i)
              \/ Stops(at, oj, Follow(N, aj, ad, i), W, i)
  <2> DEFINE p == place[items[i].label]
  <2>0. i \in 1 .. N /\ ~ Cleaned(i) /\ ZChosen(i) /\ ZRight(items[i])
    BY <1>1, <1>5, <1>13
  <2>a. \A o \in Return1 : o # "jump"
    BY DEF Return1
  <2>1. CASE items[i].form = "deleted"
    <3>1. items[i].op = "jump" /\ items[i].was = "jump" /\ p = i + 1
      BY <2>0, <2>1, <2>a DEF Cleaned, ZChosen
    <3>2. p \in 1 .. N
      <4>1. items[i].label \in Labels
        BY <2>0, <3>1 DEF ZRight, Branching
      <4>2. p <= N
        BY <1>1, <4>1 DEF Inside
      <4> QED
        BY <1>1, <2>0, <3>1, <4>2
    <3>3. ~ Cleaned(p)
      <4>1. items[i].form \notin Settled /\ items[i].was \in Branching
        BY <2>1, <3>1 DEF Settled, Branching
      <4>2. ~ ZLeft(p)
        BY <2>0, <4>1 DEF ZLeft
      <4> QED
        BY <1>5, <3>2, <4>2
    <3>4. i \in aj /\ ad[i] = i + 1 /\ i + 1 \in L
      BY <1>7, <1>13, <2>0, <3>1, <3>2, <3>3
    <3>5. T[i + 1] = T[i]
      <4>1. T[i + 1] = T[i] + kept[i] /\ kept[i] = 0
        BY <1>2, <1>4, <2>0, <2>1
      <4>2. i \in 1 .. N + 1
        BY <1>1, <2>0
      <4>3. T[i] \in Nat
        BY <1>4, <4>2
      <4> QED
        BY ONLY <4>1, <4>3
    <3>6. at[i + 1] = at[i]
      BY <1>9, <3>4, <3>5
    <3> QED
      BY <3>4, <3>6 DEF Skips
  <2>2. CASE items[i].form # "deleted" /\ items[i].op = "jump"
    <3>1. at[i] # 0 /\ out[at[i]].src = i /\ at[i] \in 1 .. M
      BY <1>3, <1>9, <2>0, <2>2
    <3>2. items[i].form = "long" /\ items[i].was = "jump"
      <4>1. items[i].form \in ZForms
        <5>1. items[i] \in ZItem
          BY <1>1, <2>0
        <5> QED
          BY <5>1 DEF ZItem
      <4> QED
        BY <2>0, <2>2, <2>a, <4>1 DEF ZRight, ZForms
    <3>3. i \in aj /\ out[at[i]].op = "jump" /\ at[i] \in oj
      BY <1>6, <1>7, <1>10, <2>0, <2>2, <3>1, <3>2
    <3>4. p \in 1 .. N /\ ~ Cleaned(p) /\ Destination(out[at[i]]) = T[p]
      BY <2>0, <2>2, <3>1, <3>2, ZLeads DEF Branching
    <3>5. ad[i] = p /\ p \in L
      BY <1>7, <1>13, <2>0, <3>3, <3>4
    <3>6. od[at[i]] = at[ad[i]]
      BY <1>9, <1>11, <3>1, <3>3, <3>4, <3>5
    <3> QED
      BY <3>1, <3>3, <3>5, <3>6 DEF Goes
  <2>3. CASE items[i].form # "deleted" /\ items[i].op # "jump"
    <3>1. at[i] # 0 /\ out[at[i]].src = i /\ at[i] \in 1 .. M
      BY <1>3, <1>9, <2>0, <2>3
    <3>2. at[i] \notin oj /\ out[at[i]].op = items[i].op
      BY <1>6, <1>10, <2>3, <3>1
    <3> DEFINE a == Follow(N, aj, ad, i)
    <3>3. a \in 1 .. N /\ Known(items[a].was, a) = Known(items[i].op, i)
      <4>1. CASE items[i].op \in Return1
        <5>1. a \in 1 .. N /\ items[a].was = items[i].op
          BY <1>12, <2>0, <4>1
        <5> QED
          BY <4>1, <5>1 DEF Known
      <4>2. CASE items[i].op \notin Return1
        <5>1. items[i].op = items[i].was
          BY <2>0, <4>2 DEF ZChosen
        <5>2. a = i
          BY <1>7, <2>0, <2>3, <5>1 DEF Flows
        <5> QED
          BY <2>0, <5>1, <5>2
      <4> QED
        BY <4>1, <4>2
    <3> HIDE DEF a
    <3>4. <<a, at[i]>> \in W
      BY <3>1, <3>2, <3>3 DEF W
    <3>5. a # 0
      BY <3>3
    <3> QED
      BY <3>1, <3>2, <3>4, <3>5 DEF Stops, a
  <2> QED
    BY <2>1, <2>2, <2>3
<1>15. \A i \in L :
         LET a == Follow(N, aj, ad, i)
             o == Follow(M, oj, od, at[i])
         IN  \/ a = 0 /\ o = 0
             \/ a # 0 /\ o # 0 /\ <<a, o>> \in W
  <2>1. L \in SUBSET (1 .. N)
    BY <1>13
  <2> HIDE DEF N, M
  <2> QED
    BY ONLY <1>1, <1>3, <1>7, <1>8, <1>9, <1>14, <2>1, FlowsAlike DEF N
<1>16. \A i \in L : OutArrives(T[i]) = Arrives(i)
  <2> TAKE i \in L
  <2> DEFINE a == Follow(N, aj, ad, i)
             o == Follow(M, oj, od, at[i])
  <2>1. \/ a = 0 /\ o = 0
        \/ a # 0 /\ o # 0 /\ <<a, o>> \in W
    BY <1>15
  <2>2. Arrives(i) = IF a = 0 THEN Nowhere ELSE Known(items[a].was, a)
    <3>1. Within(i) = i
      BY <1>13 DEF Within
    <3> QED
      BY <3>1 DEF Arrives, aj, ad
  <2>3. OutArrives(T[i]) = IF o = 0 THEN Nowhere ELSE Known(out[o].op, out[o].src)
    <3>1. OutItem(T[i]) = at[i]
      BY <1>9
    <3> QED
      BY <3>1 DEF OutArrives, oj, od
  <2>4. <<a, o>> \in W => Known(items[a].was, a) = Known(out[o].op, out[o].src)
    BY DEF W
  <2> HIDE DEF a, o
  <2> QED
    BY <2>1, <2>2, <2>3, <2>4
<1>17. OutArrives(T[N + 1]) = Arrives(N + 1)
  <2>1. OutItem(T[N + 1]) = 0 /\ Within(N + 1) = 0
    BY <1>1, <1>3 DEF Within
  <2>2. Flows(M, oj, od)
    <3>1. Linked(M, od)
      BY <1>3, <1>8 DEF Linked
    <3> QED
      BY <3>1, FollowStep
  <2>3. Follow(N, aj, ad, 0) = 0 /\ Follow(M, oj, od, 0) = 0
    BY <1>7, <2>2 DEF Flows
  <2> QED
    BY <2>1, <2>3 DEF Arrives, OutArrives, aj, ad, oj, od
<1> QED
  <2>1. \A i \in 1 .. N + 1 : i \in 1 .. N \/ i = N + 1
    BY <1>1
  <2> QED
    BY <1>13, <1>16, <1>17, <2>1


(* So the Z-code written does what the code assembled does.                *)
LEMMA ZFlowHolds ==
  ASSUME ZInv, ZFlow
  PROVE  FlowPreserved
<1>1. SUFFICES ASSUME phase = "done", errors = {}
               PROVE  /\ OutArrives(0) = Arrives(1)
                      /\ \A j \in DOMAIN out :
                           /\ out[j].op = "plain" \/ out[j].op \in {"branch", "other"} =>
                                OutArrives(out[j].addr + out[j].size) = Arrives(out[j].src + 1)
                           /\ out[j].op \in {"branch", "other"} =>
                                BranchArrives(out[j]) = Arrives(place[items[out[j].src].label])
  BY DEF FlowPreserved
<1> DEFINE N == Len(items)
<1>2. /\ N \in Nat /\ (N + 1) - 1 = N /\ items \in Seq(ZItem) /\ ZFound
      /\ \A i \in 1 .. N : ZRight(items[i])
  BY <1>1, ZFinds, ZBasics DEF ZInv
<1>3. PICK T : ZWritten(T)
  BY <1>1, <1>2 DEF ZFlow, ZSentTo, ZWritten
<1>4. /\ T \in [1 .. N + 1 -> Nat] /\ T[1] = 0
      /\ \A i \in 1 .. N : T[i + 1] = T[i] + ZKept(items)[i]
  BY <1>2, <1>3, MappedFacts DEF ZWritten
<1>5. /\ out \in Seq(OutRec)
      /\ \A j \in 1 .. Len(out) :
           /\ out[j].src \in 1 .. N /\ items[out[j].src].form # "deleted"
           /\ out[j].op = items[out[j].src].op /\ out[j].addr = T[out[j].src]
           /\ out[j].size = ZKept(items)[out[j].src]
           /\ out[j].operand = ZOperands(items, offset, T)[out[j].src]
  BY <1>2, <1>3 DEF ZWritten, Sent
<1>6. /\ \A i \in 1 .. N + 1 : (i \in 1 .. N => ~ Cleaned(i)) => OutArrives(T[i]) = Arrives(i)
      /\ \A i \in 1 .. N : ZChosen(i)
      /\ \A i \in 1 .. N : Cleaned(i) => ZCutOff(i)
  BY <1>3, ZArrivesAlike DEF ZWritten, ZMade
<1>7. \A i \in 1 .. N : items[i].op \in {"plain", "branch", "other"} => items[i].was = items[i].op
  <2>1. \A o \in Return1 : o \notin {"plain", "branch", "other"}
    BY DEF Return1
  <2> QED
    BY <1>6, <2>1 DEF ZChosen
\* Where control goes on.
<1>8. ASSUME NEW j \in 1 .. Len(out), out[j].op \in {"plain", "branch", "other"}
      PROVE  OutArrives(out[j].addr + out[j].size) = Arrives(out[j].src + 1)
  <2> DEFINE i == out[j].src
  <2>1. i \in 1 .. N /\ i + 1 \in 1 .. N + 1 /\ (i + 1) - 1 = i
    BY <1>2, <1>5
  <2>2. out[j].addr + out[j].size = T[i + 1]
    BY <1>4, <1>5, <2>1
  <2>3. items[i].was \in {"plain", "branch", "other"}
    BY <1>5, <1>7, <1>8, <2>1
  <2>4. ~ EndsFlow(items[i].was)
    BY <2>3 DEF EndsFlow, Return1
  <2>5. i + 1 \in 1 .. N => ~ Cleaned(i + 1)
    BY <1>6, <2>1, <2>4 DEF ZCutOff
  <2> QED
    BY <1>6, <2>1, <2>2, <2>5
\* Where a branch goes.
<1>9. ASSUME NEW j \in 1 .. Len(out), out[j].op \in {"branch", "other"}
      PROVE  BranchArrives(out[j]) = Arrives(place[items[out[j].src].label])
  <2> DEFINE i == out[j].src
             p == place[items[i].label]
  <2>1. i \in 1 .. N /\ items[i].op = out[j].op /\ items[i].op \in Branching /\ items[i].op # "jump"
    BY <1>5, <1>9 DEF Branching
  <2>2. items[i].form \in {"long", "short", "rtrue", "rfalse"}
    <3>1. items[i].form \in ZForms /\ items[i].form # "deleted"
      <4>1. items[i] \in ZItem
        BY <1>2, <2>1
      <4> QED
        BY <1>5, <4>1 DEF ZItem
    <3>2. items[i].form # "replaced"
      <4>1. items[i].op \notin Return1
        BY <1>9, <2>1 DEF Return1
      <4> QED
        BY <1>2, <2>1, <4>1 DEF ZRight
    <3> QED
      BY <3>1, <3>2 DEF ZForms
  <2>3. CASE items[i].form \in {"long", "short"}
    <3>1. p \in 1 .. N /\ ~ Cleaned(p) /\ out[j].operand \notin {0, 1} /\ Destination(out[j]) = T[p]
      BY <1>3, <2>1, <2>3, ZLeads
    <3>2. p \in 1 .. N + 1
      BY <1>2, <3>1
    <3>3. OutArrives(T[p]) = Arrives(p)
      BY <1>6, <3>1, <3>2
    <3>4. BranchArrives(out[j]) = OutArrives(Destination(out[j]))
      BY <3>1 DEF BranchArrives
    <3> QED
      BY <3>1, <3>3, <3>4
  <2>4. CASE items[i].form \in {"rtrue", "rfalse"}
    <3> DEFINE f == items[i].form
    <3>1. p \in 1 .. N /\ items[p].op = f /\ f \in Return1
      BY <1>6, <2>1, <2>4 DEF ZChosen, Return1
    <3>2. /\ Follow(N, CodeJumps, CodeDest, p) \in 1 .. N
          /\ items[Follow(N, CodeJumps, CodeDest, p)].was = f
      BY <1>2, <1>6, <3>1, ZValues
    <3>3. Arrives(p) = <<f, 0>>
      <4>1. Within(p) = p
        BY <3>1 DEF Within
      <4>2. Follow(N, CodeJumps, CodeDest, p) # 0
        BY <3>2
      <4> QED
        BY <3>1, <3>2, <4>1, <4>2 DEF Arrives, Known
    <3>4. out[j].operand = ZOperands(items, offset, T)[i]
      BY <1>5
    <3>5. out[j].operand = IF f = "rtrue" THEN 1 ELSE 0
      BY <2>1, <2>4, <3>4 DEF ZOperands
    <3>6. BranchArrives(out[j]) = Known(f, 0)
      <4>1. CASE f = "rtrue"
        BY <3>5, <4>1 DEF BranchArrives
      <4>2. CASE f = "rfalse"
        BY <3>5, <4>2 DEF BranchArrives
      <4> QED
        BY <2>4, <4>1, <4>2
    <3> QED
      BY <3>1, <3>3, <3>6 DEF Known
  <2> QED
    BY <2>2, <2>3, <2>4
<1>10. OutArrives(0) = Arrives(1)
  <2>1. 1 \in 1 .. N + 1
    BY <1>2
  <2>2. 1 \in 1 .. N => ~ Cleaned(1)
    BY <1>6 DEF ZCutOff
  <2> QED
    BY <1>4, <1>6, <2>1, <2>2
<1>11. DOMAIN out = 1 .. Len(out)
  BY <1>5
<1> QED
  BY <1>8, <1>9, <1>10, <1>11

---------------------------------------------------------------------------
(* Both targets: the flow of control.                                      *)

ShortenFlow == ShortenInv /\ IF glulx THEN GFlow ELSE ZFlow

(* Whatever the routine, the code that transfer_routine_z or               *)
(* transfer_routine_g leaves does what the code assembled does: from every *)
(* instruction and along every branch control comes, once the jumps have   *)
(* been followed, to the same instruction or the same return as before.    *)
(* A branch made a return, a jump left out or turned into the return it    *)
(* goes to, and a return deleted since nothing goes to it change nothing.  *)
THEOREM FlowAlwaysPreserved == TargetSpec => []TargetFlowPreserved
<1>1. TargetInit => ShortenFlow
  BY GBegins, ZBegins, GFlowBegins, ZFlowBegins DEF TargetInit, ShortenInv, ShortenFlow
<1>2. ShortenFlow /\ [ZCode \/ Glulx]_<<vars, glulx>> => ShortenFlow'
  <2> SUFFICES ASSUME ShortenFlow, [ZCode \/ Glulx]_<<vars, glulx>>
               PROVE  ShortenFlow'
    OBVIOUS
  <2>1. CASE ZCode
    <3>1. ~ glulx /\ glulx' = glulx /\ ZInv /\ ZFlow /\ Next
      BY <2>1 DEF ShortenFlow, ShortenInv, ZCode
    <3> QED
      BY <3>1, ZStep, ZFlowStep DEF ShortenFlow, ShortenInv
  <2>2. CASE Glulx
    <3>1. glulx /\ glulx' = glulx /\ GInv /\ GFlow /\ G!Next
      BY <2>2 DEF ShortenFlow, ShortenInv, Glulx
    <3> QED
      BY <3>1, GStep, GFlowStep DEF ShortenFlow, ShortenInv
  <2>3. CASE UNCHANGED <<vars, glulx>>
    <3>1. ShortenInv => ShortenInv'
      BY <2>3, ShortenRests
    <3>2. /\ phase' = phase /\ items' = items /\ size' = size /\ dead' = dead
          /\ offset' = offset /\ chain' = chain /\ place' = place /\ use' = use
          /\ never' = never /\ out' = out
          /\ k' = k /\ newpc' = newpc /\ errors' = errors /\ glulx' = glulx
      BY <2>3 DEF vars, routine, labels
    <3>3. GFlow => GFlow'
      BY <3>2 DEF GFlow, GChosen, GSentTo
    <3>4. ZFlow => ZFlow'
      BY <3>2 DEF ZFlow, ZMade, ZChosen, ZCutOff, ZLeft, ZUsed, Cleaned, ZSentTo
    <3> QED
      BY <3>1, <3>2, <3>3, <3>4 DEF ShortenFlow
  <2> QED
    BY <2>1, <2>2, <2>3
<1>3. ShortenFlow => TargetFlowPreserved
  BY GFlowHolds, ZFlowHolds DEF ShortenFlow, ShortenInv, TargetFlowPreserved
<1> QED
  BY <1>1, <1>2, <1>3, PTL DEF TargetSpec

=============================================================================
