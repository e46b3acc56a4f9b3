---------------------------- MODULE FrontEndProofs ----------------------------
(***************************************************************************)
(* Proofs about two parts of the front end, for all texts and all sessions: *)
(* the stack and the counting loops of conditional compilation implement    *)
(* ConditionalText, and a setting is decided by precedence and order.       *)
(***************************************************************************)
EXTENDS Conditional, Options, SequenceTheorems, TLAPS

------------------------------------------------------------------------------
(* Conditional compilation.                                                 *)

Words == {"if", "else", "unless", "over", "dead"}

\* The frames of text that is run through: those around it, the first one that
\* is not wanted, and those inside it.
Trail(around, first, m) == around \o [k \in 1..m |-> IF k = 1 THEN first ELSE "dead"]

ConditionalInv ==
  /\ ifdef_stack \in Seq(BOOLEAN)
  /\ n \in Nat
  /\ loop \in {"none", "if", "ifnot"}
  /\ loop = "none" <=> n = 0
  /\ loop = "ifnot" => InFirstBranch
  /\ errors \in BOOLEAN /\ ended \in BOOLEAN

Trails(t, s, f, m) ==
  /\ t \in Seq(Words) /\ Len(t) = Len(s) + m
  /\ \A i \in 1 .. Len(s) + m :
       t[i] = IF i <= Len(s) THEN s[i] ELSE IF i = Len(s) + 1 THEN f ELSE "dead"

LEMMA TrailShape ==
  ASSUME NEW s \in Seq(Words), NEW f \in Words, NEW m \in Nat
  PROVE  Trails(Trail(s, f, m), s, f, m)
<1> DEFINE t == [k \in 1..m |-> IF k = 1 THEN f ELSE "dead"]
<1>1. t \in Seq(Words) /\ Len(t) = m /\ \A i \in 1 .. m : t[i] = IF i = 1 THEN f ELSE "dead"
  BY DEF Words
<1>2. Trail(s, f, m) = s \o t
  BY DEF Trail
<1> HIDE DEF t
<1>3. /\ s \o t \in Seq(Words) /\ Len(s \o t) = Len(s) + m
      /\ \A i \in 1 .. Len(s) + m : (s \o t)[i] = IF i <= Len(s) THEN s[i] ELSE t[i - Len(s)]
  BY <1>1, ConcatProperties
<1>4. \A i \in 1 .. Len(s) + m :
         i > Len(s) => t[i - Len(s)] = IF i = Len(s) + 1 THEN f ELSE "dead"
  <2> SUFFICES ASSUME NEW i \in 1 .. Len(s) + m, i > Len(s)
               PROVE  t[i - Len(s)] = IF i = Len(s) + 1 THEN f ELSE "dead"
    OBVIOUS
  <2>1. Len(s) \in Nat
    BY LenProperties
  <2>2. i - Len(s) \in 1 .. m
    BY <2>1
  <2> QED
    BY <2>1, <2>2, <1>1
<1> QED
  BY <1>2, <1>3, <1>4 DEF Trails

LEMMA Appended ==
  ASSUME NEW S, NEW s \in Seq(S), NEW e \in S
  PROVE  /\ Append(s, e) \in Seq(S)
         /\ Len(Append(s, e)) = Len(s) + 1
         /\ Len(s) \in Nat
         /\ \A i \in 1 .. Len(s) + 1 : Append(s, e)[i] = IF i <= Len(s) THEN s[i] ELSE e
<1>1. Len(s) \in Nat
  BY LenProperties
<1> QED
  BY <1>1, AppendProperties

LEMMA TrailBegins ==
  ASSUME NEW s \in Seq(Words), NEW f \in Words
  PROVE  Trail(s, f, 1) = Append(s, f)
<1> DEFINE a == Trail(s, f, 1)
           b == Append(s, f)
<1>1. Trails(a, s, f, 1)
  BY TrailShape
<1>2. /\ b \in Seq(Words) /\ Len(b) = Len(s) + 1 /\ Len(s) \in Nat
      /\ \A i \in 1 .. Len(s) + 1 : b[i] = IF i <= Len(s) THEN s[i] ELSE f
  BY Appended
<1> HIDE DEF a, b
<1>3. \A i \in 1 .. Len(a) : a[i] = b[i]
  BY <1>1, <1>2 DEF Trails
<1>4. a = b
  BY <1>1, <1>2, <1>3, SeqEqual DEF Trails
<1> QED
  BY <1>4 DEF a, b

LEMMA TrailGrows ==
  ASSUME NEW s \in Seq(Words), NEW f \in Words, NEW m \in Nat \ {0}
  PROVE  Trail(s, f, m + 1) = Append(Trail(s, f, m), "dead")
<1> DEFINE a == Trail(s, f, m)
           b == Trail(s, f, m + 1)
           c == Append(a, "dead")
<1>0. "dead" \in Words /\ m \in Nat
  BY DEF Words
<1>1. Trails(a, s, f, m)
  BY <1>0, TrailShape
<1>2. Trails(b, s, f, m + 1)
  BY <1>0, TrailShape, m + 1 \in Nat
<1> HIDE DEF a, b
<1> USE DEF Trails
<1>3. /\ c \in Seq(Words) /\ Len(c) = Len(a) + 1
      /\ \A i \in 1 .. Len(a) + 1 : c[i] = IF i <= Len(a) THEN a[i] ELSE "dead"
  BY <1>0, <1>1, Appended
<1>4. Len(s) \in Nat
  BY LenProperties
<1> HIDE DEF c
<1>5. ASSUME NEW i \in 1 .. Len(b) PROVE b[i] = c[i]
  <2>1. i \in 1 .. Len(s) + (m + 1) /\ i \in 1 .. Len(a) + 1
    BY <1>1, <1>2, <1>4
  <2>2. CASE i <= Len(s) + m
    <3>1. i \in 1 .. Len(s) + m
      BY <2>1, <2>2, <1>4
    <3>2. c[i] = a[i]
      BY <2>1, <2>2, <1>1, <1>3
    <3> QED
      BY <1>1, <1>2, <2>1, <3>1, <3>2
  <2>3. CASE i > Len(s) + m
    <3>1. c[i] = "dead"
      BY <2>1, <2>3, <1>1, <1>3, <1>4
    <3>2. b[i] = "dead"
      BY <2>1, <2>3, <1>2, <1>4
    <3> QED
      BY <3>1, <3>2
  <2> QED
    BY <2>1, <2>2, <2>3, <1>4
<1>6. b = c
  <2>1. Len(b) = Len(c)
    BY <1>1, <1>2, <1>3, <1>4
  <2> QED
    BY <1>2, <1>3, <1>5, <2>1, SeqEqual
<1> QED
  BY <1>6 DEF a, b, c

LEMMA BranchesShape ==
  ASSUME NEW s \in Seq(BOOLEAN)
  PROVE  /\ Branches(s) \in Seq(Words)
         /\ Len(Branches(s)) = Len(s)
         /\ \A i \in 1 .. Len(s) : Branches(s)[i] = IF s[i] THEN "if" ELSE "else"
BY DEF Branches, Words

LEMMA BranchesGrow ==
  ASSUME NEW s \in Seq(BOOLEAN), NEW b \in BOOLEAN
  PROVE  /\ Append(s, b) \in Seq(BOOLEAN)
         /\ Branches(Append(s, b)) = Append(Branches(s), IF b THEN "if" ELSE "else")
<1> DEFINE word == IF b THEN "if" ELSE "else"
           r == Append(s, b)
           u == Branches(s)
           v == Branches(r)
           w == Append(u, word)
<1>0. word \in Words
  BY DEF Words
<1>1. /\ r \in Seq(BOOLEAN) /\ Len(r) = Len(s) + 1 /\ Len(s) \in Nat
      /\ \A i \in 1 .. Len(s) + 1 : r[i] = IF i <= Len(s) THEN s[i] ELSE b
  BY Appended
<1>2. /\ u \in Seq(Words) /\ Len(u) = Len(s)
      /\ \A i \in 1 .. Len(s) : u[i] = IF s[i] THEN "if" ELSE "else"
  BY BranchesShape
<1> HIDE DEF r
<1>3. /\ v \in Seq(Words) /\ Len(v) = Len(s) + 1
      /\ \A i \in 1 .. Len(s) + 1 : v[i] = IF r[i] THEN "if" ELSE "else"
  BY BranchesShape, <1>1
<1> HIDE DEF u, v
<1>4. /\ w \in Seq(Words) /\ Len(w) = Len(s) + 1
      /\ \A i \in 1 .. Len(s) + 1 : w[i] = IF i <= Len(s) THEN u[i] ELSE word
  <2> HIDE DEF word
  <2> QED
    BY <1>0, <1>2, Appended
<1> HIDE DEF w
<1>5. ASSUME NEW i \in 1 .. Len(v) PROVE v[i] = w[i]
  <2>1. i \in 1 .. Len(s) + 1
    BY <1>3
  <2>2. CASE i <= Len(s)
    BY <2>1, <2>2, <1>1, <1>2, <1>3, <1>4
  <2>3. CASE i > Len(s)
    BY <2>1, <2>3, <1>1, <1>3, <1>4
  <2> QED
    BY <2>1, <2>2, <2>3, <1>1
<1>6. v = w
  BY <1>3, <1>4, <1>5, SeqEqual
<1> QED
  BY <1>1, <1>6 DEF r, u, v, w

LEMMA Shortened ==
  ASSUME NEW S, NEW s \in Seq(S), s # << >>
  PROVE  /\ SubSeq(s, 1, Len(s) - 1) \in Seq(S)
         /\ Len(SubSeq(s, 1, Len(s) - 1)) = Len(s) - 1
         /\ Len(s) \in Nat \ {0}
         /\ \A i \in 1 .. Len(s) - 1 : SubSeq(s, 1, Len(s) - 1)[i] = s[i]
<1>1. Len(s) \in Nat \ {0}
  BY EmptySeq
<1>2. \A i \in 1 .. Len(s) - 1 : s[i] \in S
  BY <1>1, ElementOfSeq
<1> DEFINE m == Len(s) - 1
<1>3. m \in Int /\ m >= 0 /\ 1 \in Int /\ \A i \in 1 .. m : s[i] \in S
  BY <1>1, <1>2
<1> HIDE DEF m
<1>4. /\ SubSeq(s, 1, m) \in Seq(S)
      /\ Len(SubSeq(s, 1, m)) = IF 1 <= m THEN m - 1 + 1 ELSE 0
      /\ \A i \in 1 .. m - 1 + 1 : SubSeq(s, 1, m)[i] = s[1 + i - 1]
  BY <1>3, SubSeqProperties
<1>5. Len(SubSeq(s, 1, m)) = m /\ \A i \in 1 .. m : SubSeq(s, 1, m)[i] = s[i]
  BY <1>3, <1>4
<1> QED
  BY <1>1, <1>4, <1>5 DEF m

LEMMA BranchesShrink ==
  ASSUME NEW s \in Seq(BOOLEAN), s # << >>
  PROVE  /\ SubSeq(s, 1, Len(s) - 1) \in Seq(BOOLEAN)
         /\ Branches(SubSeq(s, 1, Len(s) - 1))
              = SubSeq(Branches(s), 1, Len(Branches(s)) - 1)
<1> DEFINE p == SubSeq(s, 1, Len(s) - 1)
           q == SubSeq(Branches(s), 1, Len(Branches(s)) - 1)
<1>1. /\ p \in Seq(BOOLEAN) /\ Len(p) = Len(s) - 1 /\ Len(s) \in Nat \ {0}
      /\ \A i \in 1 .. Len(s) - 1 : p[i] = s[i]
  BY Shortened
<1> HIDE DEF p
<1>3. /\ Branches(p) \in Seq(Words) /\ Len(Branches(p)) = Len(s) - 1
      /\ \A i \in 1 .. Len(s) - 1 : Branches(p)[i] = IF s[i] THEN "if" ELSE "else"
  BY <1>1, BranchesShape
<1>4. /\ Branches(s) \in Seq(Words) /\ Len(Branches(s)) = Len(s)
      /\ \A i \in 1 .. Len(s) : Branches(s)[i] = IF s[i] THEN "if" ELSE "else"
  BY BranchesShape
<1>5. Branches(s) # << >>
  BY <1>1, <1>4, EmptySeq
<1>6. /\ q \in Seq(Words) /\ Len(q) = Len(s) - 1
      /\ \A i \in 1 .. Len(s) - 1 : q[i] = Branches(s)[i]
  BY <1>4, <1>5, Shortened
<1> HIDE DEF q
<1>7. \A i \in 1 .. Len(Branches(p)) : Branches(p)[i] = q[i]
  BY <1>1, <1>3, <1>4, <1>6
<1>8. Branches(p) = q
  BY <1>3, <1>6, <1>7, SeqEqual
<1> QED
  BY <1>1, <1>8 DEF p, q

\* Without its last element a sequence is what that element was appended to.
LEMMA Below ==
  ASSUME NEW S, NEW s \in Seq(S), NEW e \in S
  PROVE  /\ SubSeq(Append(s, e), 1, Len(Append(s, e)) - 1) = s
         /\ Append(s, e)[Len(Append(s, e))] = e
         /\ Append(s, e) # << >>
<1>0. Len(s) \in Nat
  BY LenProperties
<1>1. /\ Append(s, e) \in Seq(S) /\ Len(Append(s, e)) = Len(s) + 1
      /\ \A i \in 1 .. Len(s) : Append(s, e)[i] = s[i]
      /\ Append(s, e)[Len(s) + 1] = e
  BY <1>0
<1>2. Append(s, e) # << >>
  BY <1>0, <1>1, EmptySeq
<1>3. /\ SubSeq(Append(s, e), 1, Len(Append(s, e)) - 1) \in Seq(S)
      /\ Len(SubSeq(Append(s, e), 1, Len(Append(s, e)) - 1)) = Len(s)
      /\ \A i \in 1 .. Len(s) : SubSeq(Append(s, e), 1, Len(Append(s, e)) - 1)[i] = s[i]
  <2> DEFINE a == Append(s, e)
  <2>1. a \in Seq(S) /\ Len(a) = Len(s) + 1 /\ a # << >> /\ \A i \in 1 .. Len(s) : a[i] = s[i]
    BY <1>1, <1>2
  <2> HIDE DEF a
  <2>2. /\ SubSeq(a, 1, Len(a) - 1) \in Seq(S)
        /\ Len(SubSeq(a, 1, Len(a) - 1)) = Len(a) - 1
        /\ \A i \in 1 .. Len(a) - 1 : SubSeq(a, 1, Len(a) - 1)[i] = a[i]
    BY <2>1, Shortened
  <2>3. /\ SubSeq(a, 1, Len(a) - 1) \in Seq(S)
        /\ Len(SubSeq(a, 1, Len(a) - 1)) = Len(s)
        /\ \A i \in 1 .. Len(s) : SubSeq(a, 1, Len(a) - 1)[i] = s[i]
    BY <2>1, <2>2, <1>0
  <2> QED
    BY <2>3 DEF a
<1> QED
  BY <1>1, <1>2, <1>3, SeqEqual

\* What the frames are in text that is compiled and in either loop.
LEMMA FramesNow ==
  ASSUME ConditionalInv
  PROVE  /\ loop = "none" => Frames = Branches(ifdef_stack)
         /\ loop = "if" => Frames = Trail(Branches(ifdef_stack), "unless", n)
         /\ loop = "ifnot" => Frames = Trail(Branches(Popped), "over", n)
BY DEF ConditionalInv, Frames, Trail

\* Text that is compiled stands in chosen branches only, and text that is run
\* through does not.
LEMMA LiveNow ==
  ASSUME ConditionalInv
  PROVE  Promise!Live <=> loop = "none"
<1> USE DEF ConditionalInv
<1>1. CASE loop = "none"
  <2>1. /\ Frames = Branches(ifdef_stack) /\ Frames \in Seq(Words)
        /\ Len(Frames) = Len(ifdef_stack)
        /\ \A i \in 1 .. Len(ifdef_stack) : Frames[i] = IF ifdef_stack[i] THEN "if" ELSE "else"
    BY <1>1, FramesNow, BranchesShape
  <2>2. DOMAIN Frames = 1 .. Len(ifdef_stack)
    BY <2>1, LenProperties
  <2> QED
    BY <1>1, <2>1, <2>2 DEF Promise!Live
<1>2. ASSUME NEW around \in Seq(Words), NEW first \in Words \ {"if", "else"},
             Frames = Trail(around, first, n), n # 0
      PROVE  ~Promise!Live
  <2>1. Len(around) \in Nat /\ first \in Words /\ n \in Nat
    BY LenProperties
  <2>2. Trails(Frames, around, first, n)
    BY <1>2, <2>1, TrailShape
  <2> USE DEF Trails
  <2>3. DOMAIN Frames = 1 .. Len(around) + n
    BY <2>2, LenProperties
  <2>4. Len(around) + 1 \in DOMAIN Frames
    BY <2>1, <2>3, <1>2
  <2>5. Frames[Len(around) + 1] = first
    BY <2>1, <2>2, <2>3, <2>4
  <2> QED
    BY <2>4, <2>5 DEF Promise!Live
<1>3. CASE loop = "if"
  <2>1. Branches(ifdef_stack) \in Seq(Words)
    BY BranchesShape
  <2> QED
    BY <1>2, <1>3, <2>1, FramesNow DEF Words
<1>4. CASE loop = "ifnot"
  <2>1. Branches(Popped) \in Seq(Words)
    <3>1. Popped \in Seq(BOOLEAN)
      BY <1>4, BranchesShrink DEF InFirstBranch, Popped
    <3> QED
      BY <3>1, BranchesShape
  <2> QED
    BY <1>2, <1>4, <2>1, FramesNow DEF Words
<1> QED
  BY <1>1, <1>3, <1>4

LEMMA ConditionalInvHolds == ConditionalSpec => []ConditionalInv
<1>1. ConditionalInit => ConditionalInv
  <2> SUFFICES ASSUME ConditionalInit PROVE ConditionalInv
    OBVIOUS
  <2>1. ifdef_stack \in Seq(BOOLEAN)
    BY EmptySeq DEF ConditionalInit
  <2>2. n \in Nat /\ n = 0 /\ loop = "none"
    BY DEF ConditionalInit
  <2>3. errors \in BOOLEAN /\ ended \in BOOLEAN
    BY DEF ConditionalInit
  <2> QED
    BY <2>1, <2>2, <2>3 DEF ConditionalInv
<1>2. ASSUME ConditionalInv, [ConditionalNext]_conditionalVars PROVE ConditionalInv'
  <2> USE <1>2 DEF ConditionalInv
  <2>1. CASE IfDirective
    <3> DEFINE flag == Condition(text[at + 1])
    <3>1. loop = "none" /\ ended' = ended /\ HashIfCondition(flag)
      BY <2>1 DEF IfDirective, Reads
    <3>2. CASE errors' = TRUE /\ UNCHANGED <<ifdef_stack, n, loop>>
      BY <3>1, <3>2
    <3>3. CASE ifdef_stack' = Append(ifdef_stack, TRUE) /\ UNCHANGED <<n, loop, errors>>
      <4>1. ifdef_stack' \in Seq(BOOLEAN)
        BY <3>3, AppendProperties
      <4> QED
        BY <3>1, <3>3, <4>1
    <3>4. CASE n' = 1 /\ loop' = "if" /\ UNCHANGED <<ifdef_stack, errors>>
      BY <3>1, <3>4
    <3> QED
      BY <3>1, <3>2, <3>3, <3>4 DEF HashIfCondition, Error
  <2>2. CASE IfnotDirective
    <3>1. loop = "none" /\ ended' = ended /\ ifdef_stack' = ifdef_stack
      BY <2>2 DEF IfnotDirective, Reads
    <3>2. CASE errors' = TRUE /\ UNCHANGED <<n, loop>>
      BY <3>1, <3>2
    <3>3. CASE InFirstBranch /\ n' = 1 /\ loop' = "ifnot" /\ UNCHANGED errors
      BY <3>1, <3>3 DEF InFirstBranch, Top
    <3> QED
      BY <2>2, <3>2, <3>3 DEF IfnotDirective, Error
  <2>3. CASE EndifDirective
    <3>1. ifdef_stack # << >> => Popped \in Seq(BOOLEAN)
      BY Shortened DEF Popped
    <3>2. loop = "none" /\ loop' = loop /\ n' = n /\ ended' = ended
      BY <2>3 DEF EndifDirective, Reads
    <3>3. ifdef_stack' \in Seq(BOOLEAN) /\ errors' \in BOOLEAN
      BY <2>3, <3>1 DEF EndifDirective, Error
    <3> QED
      BY <3>2, <3>3
  <2>4. CASE OtherDirective
    BY <2>4 DEF OtherDirective, Reads
  <2>5. CASE Skip
    <3>1. loop # "none" /\ ended' = ended
      BY <2>5 DEF Skip, Reads
    <3>2. CASE n' = n + 1 /\ UNCHANGED <<ifdef_stack, loop, errors>>
      BY <3>1, <3>2 DEF InFirstBranch, Top
    <3>3. CASE SkippedIfnot
      <4>1. CASE Resume(Append(ifdef_stack, FALSE)) /\ UNCHANGED errors
        <5>1. ifdef_stack' \in Seq(BOOLEAN)
          BY <4>1, AppendProperties DEF Resume
        <5> QED
          BY <3>1, <4>1, <5>1 DEF Resume
      <4>2. CASE UNCHANGED <<ifdef_stack, n, loop>> /\ errors' \in BOOLEAN
        BY <3>1, <4>2 DEF InFirstBranch, Top
      <4> QED
        BY <3>3, <4>1, <4>2 DEF SkippedIfnot, Error
    <3>4. CASE SkippedEndif /\ UNCHANGED errors
      <4>1. loop = "ifnot" => Popped \in Seq(BOOLEAN)
        BY Shortened DEF Popped, InFirstBranch
      <4> QED
        BY <3>1, <3>4, <4>1 DEF SkippedEndif, Resume, InFirstBranch, Top
    <3>5. CASE UNCHANGED <<ifdef_stack, n, loop, errors>>
      BY <3>1, <3>5 DEF InFirstBranch, Top
    <3> QED
      BY <2>5, <3>2, <3>3, <3>4, <3>5 DEF Skip
  <2>6. CASE EndOfFile
    BY <2>6 DEF EndOfFile, Error, InFirstBranch, Top
  <2>7. CASE UNCHANGED conditionalVars
    BY <2>7 DEF conditionalVars, InFirstBranch, Top
  <2> QED
    BY <1>2, <2>1, <2>2, <2>3, <2>4, <2>5, <2>6, <2>7 DEF ConditionalNext
<1> QED
  BY <1>1, <1>2, PTL DEF ConditionalSpec

\* An item that is read, and what ConditionalText does with it.
LEMMA ReadsAs ==
  ASSUME ConditionalInv, ~errors, NEW kinds, Reads(kinds),
         \/ kinds \subseteq {"ifdef", "ifndef"} /\ Promise!If(text[at + 1].kind, text[at + 1].name)
         \/ kinds \subseteq {"ifnot"} /\ Promise!Ifnot
         \/ kinds \subseteq {"endif"} /\ Promise!Endif
         \/ kinds \subseteq {"constant"} /\ Promise!Line(text[at + 1].name)
  PROVE  Promise!Next
<1>1. ~ended /\ at < Len(text) /\ at' = at + 1 /\ text' = text /\ text[at + 1].kind \in kinds
  BY DEF Reads
<1> QED
  BY <1>1 DEF Promise!Next, Promise!Read

LEMMA IfStep ==
  ASSUME ConditionalInv, ~errors, IfDirective
  PROVE  Promise!Next
<1> DEFINE item == text[at + 1]
           flag == Condition(item)
           around == Branches(ifdef_stack)
<1>1. loop = "none" /\ Reads({"ifdef", "ifndef"}) /\ HashIfCondition(flag)
      /\ UNCHANGED <<defined, compiled>> /\ ended' = ended
  BY DEF IfDirective, Reads
<1>2. Promise!Live /\ Frames = around /\ around \in Seq(Words) /\ Len(around) = Len(ifdef_stack)
  BY <1>1, LiveNow, FramesNow, BranchesShape DEF ConditionalInv
<1>3. flag <=> (item.name \in defined) = (item.kind = "ifdef")
  BY DEF Condition
<1>4. Promise!If(item.kind, item.name)
  <2>1. CASE Len(ifdef_stack) >= MaxIfdefStack /\ Error
    BY <1>2, <2>1 DEF Promise!If, Promise!Refuse, Error
  <2>2. CASE /\ Len(ifdef_stack) < MaxIfdefStack /\ flag
             /\ ifdef_stack' = Append(ifdef_stack, TRUE) /\ UNCHANGED <<n, loop, errors>>
    <3>1. Frames' = Append(Frames, "if")
      BY <1>1, <1>2, <2>2, BranchesGrow DEF Frames, ConditionalInv
    <3> HIDE DEF flag
    <3> QED
      BY <1>1, <1>2, <1>3, <2>2, <3>1 DEF Promise!If
  <2>3. CASE /\ Len(ifdef_stack) < MaxIfdefStack /\ ~flag
             /\ n' = 1 /\ loop' = "if" /\ UNCHANGED <<ifdef_stack, errors>>
    <3>1. Frames' = Trail(around, "unless", 1)
      BY <2>3 DEF Frames, Trail
    <3>2. Frames' = Append(Frames, "unless")
      BY <1>2, <3>1, TrailBegins DEF Words
    <3> HIDE DEF flag
    <3> QED
      BY <1>1, <1>2, <1>3, <2>3, <3>2 DEF Promise!If
  <2> QED
    BY <1>1, <2>1, <2>2, <2>3 DEF HashIfCondition
<1> QED
  BY <1>1, <1>4, ReadsAs

LEMMA IfnotStep ==
  ASSUME ConditionalInv, ~errors, IfnotDirective
  PROVE  Promise!Next
<1> DEFINE around == Branches(ifdef_stack)
<1>1. /\ loop = "none" /\ Reads({"ifnot"}) /\ ended' = ended
      /\ UNCHANGED <<ifdef_stack, defined, compiled>>
  BY DEF IfnotDirective, Reads
<1>2. /\ Frames = around /\ around \in Seq(Words) /\ Len(around) = Len(ifdef_stack)
      /\ \A i \in 1 .. Len(ifdef_stack) : around[i] = IF ifdef_stack[i] THEN "if" ELSE "else"
  BY <1>1, FramesNow, BranchesShape DEF ConditionalInv
<1>3. ifdef_stack # << >> => /\ Frames # << >>
                             /\ Promise!Top = IF Top THEN "if" ELSE "else"
  <2> SUFFICES ASSUME ifdef_stack # << >>
               PROVE  Frames # << >> /\ Promise!Top = IF Top THEN "if" ELSE "else"
    OBVIOUS
  <2>1. Len(ifdef_stack) \in Nat \ {0}
    BY EmptySeq DEF ConditionalInv
  <2>2. Len(ifdef_stack) \in 1 .. Len(ifdef_stack)
    BY <2>1
  <2> QED
    BY <1>2, <2>1, <2>2, EmptySeq DEF Promise!Top, Top
<1>4. ifdef_stack = << >> => Frames = << >>
  BY <1>2, EmptySeq
<1>5. Promise!Ifnot
  <2>1. CASE ~InFirstBranch /\ Error
    BY <1>3, <1>4, <2>1 DEF InFirstBranch, Promise!Ifnot, Promise!Refuse, Error
  <2>2. CASE InFirstBranch /\ n' = 1 /\ loop' = "ifnot" /\ UNCHANGED errors
    <3>1. ifdef_stack # << >> /\ Top
      BY <2>2 DEF InFirstBranch
    <3>2. /\ Popped \in Seq(BOOLEAN) /\ Promise!Below = Branches(Popped)
          /\ Branches(Popped) \in Seq(Words)
      BY <1>2, <3>1, BranchesShrink, BranchesShape DEF Promise!Below, Popped, ConditionalInv
    <3>3. Frames' = Trail(Branches(Popped), "over", 1)
      BY <1>1, <2>2 DEF Frames, Trail, Popped
    <3>4. Frames' = Append(Promise!Below, "over")
      BY <3>2, <3>3, TrailBegins DEF Words
    <3> QED
      BY <1>1, <1>3, <2>2, <3>1, <3>4 DEF Promise!Ifnot
  <2> QED
    BY <2>1, <2>2 DEF IfnotDirective
<1> QED
  BY <1>1, <1>5, ReadsAs

LEMMA EndifStep ==
  ASSUME ConditionalInv, ~errors, EndifDirective
  PROVE  Promise!Next
<1> DEFINE around == Branches(ifdef_stack)
<1>1. /\ loop = "none" /\ Reads({"endif"}) /\ ended' = ended
      /\ UNCHANGED <<n, loop, defined, compiled>>
  BY DEF EndifDirective, Reads
<1>2. Frames = around /\ around \in Seq(Words) /\ Len(around) = Len(ifdef_stack)
  BY <1>1, FramesNow, BranchesShape DEF ConditionalInv
<1>3. ifdef_stack = << >> <=> Frames = << >>
  BY <1>2, EmptySeq DEF ConditionalInv
<1>4. Promise!Endif
  <2>1. CASE ifdef_stack = << >> /\ Error
    BY <1>3, <2>1 DEF Promise!Endif, Promise!Refuse, Error
  <2>2. CASE ifdef_stack # << >> /\ ifdef_stack' = Popped /\ UNCHANGED errors
    <3>1. Promise!Below = Branches(Popped)
      BY <1>2, <2>2, BranchesShrink DEF Promise!Below, Popped, ConditionalInv
    <3>2. Frames' = Branches(Popped)
      BY <1>1, <2>2 DEF Frames
    <3> QED
      BY <1>1, <1>3, <2>2, <3>1, <3>2 DEF Promise!Endif
  <2> QED
    BY <2>1, <2>2 DEF EndifDirective
<1> QED
  BY <1>1, <1>4, ReadsAs

LEMMA OtherStep ==
  ASSUME ConditionalInv, ~errors, OtherDirective
  PROVE  Promise!Next
<1>1. /\ loop = "none" /\ Reads({"constant"}) /\ ended' = ended
      /\ UNCHANGED <<ifdef_stack, n, loop, errors>>
      /\ defined' = defined \cup {text[at + 1].name} /\ compiled' = compiled \cup {at + 1}
  BY DEF OtherDirective, Reads
<1>2. Promise!Live /\ Frames' = Frames
  BY <1>1, LiveNow DEF Frames, Popped
<1>3. Promise!Line(text[at + 1].name)
  BY <1>1, <1>2 DEF Promise!Line
<1> QED
  BY <1>1, <1>3, ReadsAs

\* In either loop the frames end in the branch the loop began with, or in one
\* inside it.
LEMMA RunThrough ==
  ASSUME ConditionalInv, loop # "none"
  PROVE  \E around \in Seq(Words), first \in {"unless", "over"} :
           /\ first = IF loop = "if" THEN "unless" ELSE "over"
           /\ around = IF loop = "if" THEN Branches(ifdef_stack) ELSE Branches(Popped)
           /\ Frames = Trail(around, first, n)
           /\ Frames \in Seq(Words) /\ Frames # << >>
           /\ n = 1 => Promise!Below = around /\ Promise!Top = first
           /\ n > 1 => /\ Promise!Below = Trail(around, first, n - 1)
                       /\ Promise!Top = "dead"
                       /\ Frames = Append(Promise!Below, "dead")
<1> USE DEF ConditionalInv
<1> DEFINE first == IF loop = "if" THEN "unless" ELSE "over"
           around == IF loop = "if" THEN Branches(ifdef_stack) ELSE Branches(Popped)
<1>1. first \in Words /\ first \in {"unless", "over"}
  BY DEF Words
<1>2. around \in Seq(Words)
  <2>1. loop = "ifnot" => Popped \in Seq(BOOLEAN)
    BY BranchesShrink DEF InFirstBranch, Popped
  <2> QED
    BY <2>1, BranchesShape
<1>3. Frames = Trail(around, first, n) /\ n \in Nat \ {0}
  BY FramesNow
<1>4. ASSUME n = 1
      PROVE  /\ Promise!Below = around /\ Promise!Top = first
             /\ Frames \in Seq(Words) /\ Frames # << >>
  <2> HIDE DEF around, first
  <2>1. Frames = Append(around, first)
    BY <1>1, <1>2, <1>3, <1>4, TrailBegins
  <2> QED
    BY <1>1, <1>2, <2>1, Below, AppendProperties DEF Promise!Below, Promise!Top
<1>5. ASSUME n > 1
      PROVE  /\ Promise!Below = Trail(around, first, n - 1)
             /\ Promise!Top = "dead"
             /\ Frames = Append(Promise!Below, "dead")
             /\ Frames \in Seq(Words) /\ Frames # << >>
  <2> HIDE DEF around, first
  <2> DEFINE m == n - 1
             t == Trail(around, first, m)
  <2>1. m \in Nat \ {0} /\ m \in Nat /\ n = m + 1 /\ "dead" \in Words
    BY <1>3, <1>5 DEF Words
  <2> HIDE DEF m
  <2>2. t \in Seq(Words)
    BY <1>1, <1>2, <2>1, TrailShape DEF Trails
  <2>3. Frames = Append(t, "dead")
    BY <1>1, <1>2, <1>3, <2>1, TrailGrows
  <2> HIDE DEF t
  <2>4. Promise!Below = t /\ Promise!Top = "dead" /\ Frames \in Seq(Words) /\ Frames # << >>
    BY <2>1, <2>2, <2>3, Below, AppendProperties DEF Promise!Below, Promise!Top
  <2> QED
    BY <2>3, <2>4 DEF t, m
<1> QED
  BY <1>1, <1>2, <1>3, <1>4, <1>5

LEMMA SkipStep ==
  ASSUME ConditionalInv, ~errors, Skip
  PROVE  Promise!Next
<1>1. loop # "none" /\ ended' = ended /\ UNCHANGED <<defined, compiled>>
  BY DEF Skip, Reads
<1>2. PICK around \in Seq(Words), first \in {"unless", "over"} :
           /\ first = IF loop = "if" THEN "unless" ELSE "over"
           /\ around = IF loop = "if" THEN Branches(ifdef_stack) ELSE Branches(Popped)
           /\ Frames = Trail(around, first, n)
           /\ Frames \in Seq(Words) /\ Frames # << >>
           /\ n = 1 => Promise!Below = around /\ Promise!Top = first
           /\ n > 1 => /\ Promise!Below = Trail(around, first, n - 1)
                       /\ Promise!Top = "dead"
                       /\ Frames = Append(Promise!Below, "dead")
  BY <1>1, RunThrough
<1>3. ~Promise!Live /\ n \in Nat \ {0} /\ loop \in {"if", "ifnot"} /\ first \in Words
  BY <1>1, <1>2, LiveNow DEF ConditionalInv, Words
<1>4. CASE Reads({"ifdef", "ifndef"}) /\ n' = n + 1 /\ UNCHANGED <<ifdef_stack, loop, errors>>
  <2>1. Frames' = Trail(around, first, n + 1)
    BY <1>1, <1>2, <1>3, <1>4 DEF Frames, Trail, Popped
  <2>2. Frames' = Append(Frames, "dead")
    BY <1>2, <1>3, <2>1, TrailGrows
  <2>3. Promise!If(text[at + 1].kind, text[at + 1].name)
    BY <1>1, <1>3, <1>4, <2>2 DEF Promise!If
  <2> QED
    BY <1>4, <2>3, ReadsAs
<1>5. CASE Reads({"ifnot"}) /\ SkippedIfnot
  <2>1. ASSUME loop = "if" /\ n = 1 /\ Resume(Append(ifdef_stack, FALSE)) /\ UNCHANGED errors
      PROVE  Promise!Ifnot
    <3>1. Frames' = Branches(Append(ifdef_stack, FALSE))
      BY <2>1 DEF Resume, Frames
    <3>2. Frames' = Append(Promise!Below, "else") /\ Promise!Top = "unless"
      BY <1>2, <2>1, <3>1, BranchesGrow DEF ConditionalInv
    <3> QED
      BY <1>1, <1>2, <2>1, <3>2 DEF Promise!Ifnot
  <2>2. ASSUME loop = "ifnot" /\ n = 1 /\ Error
      PROVE  Promise!Ifnot
    BY <1>2, <2>2 DEF Promise!Ifnot, Promise!Refuse, Error
  <2>3. ASSUME n > 1 /\ UNCHANGED <<ifdef_stack, n, loop, errors>>
      PROVE  Promise!Ifnot
    <3>1. Frames' = Frames
      BY <2>3 DEF Frames, Popped
    <3> QED
      BY <1>1, <1>2, <2>3, <3>1 DEF Promise!Ifnot
  <2>4. Promise!Ifnot
    BY <1>5, <2>1, <2>2, <2>3 DEF SkippedIfnot
  <2> QED
    BY <1>5, <2>4, ReadsAs
<1>6. CASE Reads({"endif"}) /\ SkippedEndif /\ UNCHANGED errors
  <2>1. ASSUME n > 1 /\ n' = n - 1 /\ UNCHANGED <<ifdef_stack, loop>>
      PROVE  Promise!Endif
    <3>1. Frames' = Trail(around, first, n - 1)
      BY <1>1, <1>2, <1>3, <2>1 DEF Frames, Trail, Popped
    <3> QED
      BY <1>1, <1>2, <1>6, <2>1, <3>1 DEF Promise!Endif
  <2>2. ASSUME n = 1 /\ Resume(IF loop = "ifnot" THEN Popped ELSE ifdef_stack)
      PROVE  Promise!Endif
    <3>1. Frames' = around
      BY <1>2, <1>3, <2>2 DEF Resume, Frames
    <3> QED
      BY <1>1, <1>2, <1>6, <2>2, <3>1 DEF Promise!Endif
  <2>3. Promise!Endif
    BY <1>6, <2>1, <2>2 DEF SkippedEndif
  <2> QED
    BY <1>6, <2>3, ReadsAs
<1>7. CASE Reads({"constant"}) /\ UNCHANGED <<ifdef_stack, n, loop, errors>>
  <2>1. Frames' = Frames
    BY <1>7 DEF Frames, Popped
  <2>2. Promise!Line(text[at + 1].name)
    BY <1>1, <1>3, <1>7, <2>1 DEF Promise!Line
  <2> QED
    BY <1>7, <2>2, ReadsAs
<1> QED
  BY <1>4, <1>5, <1>6, <1>7 DEF Skip

LEMMA EndStep ==
  ASSUME ConditionalInv, ~errors, EndOfFile
  PROVE  Promise!Next
<1>1. Frames' = Frames
  BY DEF EndOfFile, Frames, Popped
<1>2. Promise!Live <=> loop = "none"
  BY LiveNow
<1>3. Promise!End
  BY <1>1, <1>2 DEF EndOfFile, Error, Promise!End
<1> QED
  BY <1>3 DEF Promise!Next

\* After an error nothing is promised any more, and the error stays.
LEMMA RefusedStep ==
  ASSUME ConditionalInv, errors, ConditionalNext
  PROVE  Promise!Next
<1>1. errors = TRUE
  BY DEF ConditionalInv
<1>2. errors' = TRUE /\ text' = text
  BY <1>1 DEF ConditionalNext, IfDirective, IfnotDirective, EndifDirective, OtherDirective, Skip,
     EndOfFile, HashIfCondition, SkippedIfnot, Reads, Error
<1>3. Promise!Refused
  BY <1>1, <1>2 DEF Promise!Refused
<1> QED
  BY <1>3 DEF Promise!Next

\* The stack and the two counting loops of directs.c compile exactly the lines
\* the text asks for, and refuse a text that does not nest: for every text and
\* every depth of the stack, each step of the directives and of the loops is
\* one of ConditionalText (directs.c:506).
THEOREM ConditionalRefines == ConditionalSpec => ChoosesBranches
<1>1. ConditionalInit => Promise!Init
  BY DEF ConditionalInit, Promise!Init, Frames, Branches
<1>2. ASSUME ConditionalInv, [ConditionalNext]_conditionalVars
      PROVE  [Promise!Next]_(Promise!vars)
  <2>1. CASE ConditionalNext /\ errors
    BY <1>2, <2>1, RefusedStep
  <2>2. CASE ConditionalNext /\ ~errors
    BY <1>2, <2>2, IfStep, IfnotStep, EndifStep, OtherStep, SkipStep, EndStep DEF ConditionalNext
  <2>3. CASE UNCHANGED conditionalVars
    BY <2>3 DEF conditionalVars, Promise!vars, Frames, Popped
  <2> QED
    BY <1>2, <2>1, <2>2, <2>3
<1> QED
  BY <1>1, <1>2, ConditionalInvHolds, PTL DEF ConditionalSpec, ChoosesBranches, Promise!Spec

------------------------------------------------------------------------------
(* Settings.                                                                *)

Given == [setting : DOMAIN Settings, value : Int, precedence : 1 .. 3,
          platforms : SUBSET {Z, G}]

\* What alloptions[] says of a setting, against what was given for it: a value
\* of a higher precedence than a source's own was given for both platforms.
Ruled(s) ==
  /\ \A k \in DOMAIN given :
       given[k].setting = s => given[k].precedence <= options[s].precedence
  /\ options[s].precedence > SRCCODE_OPTPREC =>
       \E k \in DOMAIN given :
         /\ given[k].setting = s /\ given[k].precedence = options[s].precedence
         /\ given[k].platforms = {Z, G}
  /\ options[s].z = Decided(s, Z) /\ options[s].g = Decided(s, G)

OptionsTypes ==
  /\ options \in [DOMAIN Settings -> [z : Int, g : Int, precedence : 0 .. 3]]
  /\ glulx_mode \in BOOLEAN
  /\ phase \in {"commands", "header", "source"}
  /\ given \in Seq(Given)
  /\ phase = "source" => variables \in [DOMAIN Settings -> Int]

OptionsInv ==
  /\ OptionsTypes
  /\ \A s \in DOMAIN Settings : Ruled(s)
  /\ SettingsDecided

\* Decider and Decided, of any list of what was given.
DeciderOf(l, s, p) ==
  LET of == {k \in DOMAIN l : l[k].setting = s /\ p \in l[k].platforms} IN
  {k \in of : \A j \in of : l[j].precedence <= l[k].precedence
                            /\ (l[j].precedence = l[k].precedence => j <= k)}

DecidedOf(l, s, p) ==
  IF DeciderOf(l, s, p) = {} THEN Settings[s][p]
  ELSE Limited(s, l[CHOOSE k \in DeciderOf(l, s, p) : TRUE].value)[p]

LEMMA DecidedNow ==
  ASSUME NEW s, NEW p
  PROVE  /\ Decided(s, p) = DecidedOf(given, s, p)
         /\ Decided(s, p)' = DecidedOf(given', s, p)
BY DEF Decided, Decider, DecidedOf, DeciderOf

LEMMA LimitedInt ==
  ASSUME NEW s \in DOMAIN Settings, NEW v \in Int
  PROVE  /\ Limited(s, v).z \in Int /\ Limited(s, v).g \in Int
         /\ Limited(s, v)[Z] = Limited(s, v).z /\ Limited(s, v)[G] = Limited(s, v).g
<1>1. /\ Settings[s].type \in {"TOMAXZONLY", "TOMAX", "MUL256", "ANY"}
      /\ Settings[s].max \in Nat
  BY SettingsAssumption
<1>2. AtLeast0(v) \in Int /\ UpTo(Settings[s].max, AtLeast0(v)) \in Int
  BY <1>1 DEF AtLeast0, UpTo
<1>3. ((AtLeast0(v) + 255) \div 256) * 256 \in Int
  BY <1>2
<1> QED
  BY <1>1, <1>2, <1>3 DEF Limited, Z, G

\* A setting the source decides is within its limits.
LEMMA SourceLimited ==
  ASSUME NEW s \in SourceSet, NEW v \in 0 .. 1
  PROVE  Limited(s, v).z = v /\ Limited(s, v).g = v
<1>1. /\ Settings[s].type = "ANY" \/ (Settings[s].type = "TOMAX" /\ Settings[s].max >= 1)
      /\ Settings[s].max \in Nat
  BY SettingsAssumption
<1> QED
  BY <1>1 DEF Limited, AtLeast0, UpTo

\* What is given for another setting or another platform decides nothing.
LEMMA GivenElsewhere ==
  ASSUME NEW l \in Seq(Given), NEW e \in Given, NEW s, NEW p,
         e.setting # s \/ p \notin e.platforms
  PROVE  DecidedOf(Append(l, e), s, p) = DecidedOf(l, s, p)
<1> DEFINE m == Append(l, e)
<1>1. /\ DOMAIN l = 1 .. Len(l) /\ DOMAIN m = 1 .. Len(l) + 1 /\ Len(l) \in Nat
      /\ \A k \in 1 .. Len(l) : m[k] = l[k]
      /\ m[Len(l) + 1] = e
  BY AppendProperties, LenProperties
<1> HIDE DEF m
<1>2. {k \in DOMAIN m : m[k].setting = s /\ p \in m[k].platforms}
        = {k \in DOMAIN l : l[k].setting = s /\ p \in l[k].platforms}
  BY <1>1
<1> DEFINE of == {k \in DOMAIN l : l[k].setting = s /\ p \in l[k].platforms}
<1>3. /\ DeciderOf(m, s, p) = {k \in of : \A j \in of : m[j].precedence <= m[k].precedence
                                   /\ (m[j].precedence = m[k].precedence => j <= k)}
      /\ DeciderOf(l, s, p) = {k \in of : \A j \in of : l[j].precedence <= l[k].precedence
                                   /\ (l[j].precedence = l[k].precedence => j <= k)}
  BY <1>2 DEF DeciderOf
<1>4. \A k \in of : m[k] = l[k]
  BY <1>1
<1>5. DeciderOf(m, s, p) = DeciderOf(l, s, p) /\ DeciderOf(l, s, p) \subseteq of
  BY <1>3, <1>4
<1>6. DeciderOf(l, s, p) # {} => (CHOOSE k \in DeciderOf(l, s, p) : TRUE) \in of
  BY <1>5
<1>7. DecidedOf(m, s, p) = DecidedOf(l, s, p)
  <2> DEFINE d == CHOOSE k \in DeciderOf(l, s, p) : TRUE
  <2>1. DeciderOf(l, s, p) # {} => m[d] = l[d]
    BY <1>4, <1>6
  <2> HIDE DEF of
  <2> QED
    BY <1>5, <2>1 DEF DecidedOf
<1> QED
  BY <1>7 DEF m

\* Nor does what is outranked.
LEMMA GivenInVain ==
  ASSUME NEW l \in Seq(Given), NEW e \in Given, NEW s, NEW p,
         NEW h \in DOMAIN l, l[h].setting = s, p \in l[h].platforms,
         e.precedence < l[h].precedence
  PROVE  DecidedOf(Append(l, e), s, p) = DecidedOf(l, s, p)
<1> DEFINE m == Append(l, e)
<1>0. \A k \in 1 .. Len(l) : l[k] \in Given
  BY ElementOfSeq
<1>1. /\ DOMAIN l = 1 .. Len(l) /\ DOMAIN m = 1 .. Len(l) + 1 /\ Len(l) \in Nat
      /\ \A k \in 1 .. Len(l) : m[k] = l[k] /\ l[k].precedence \in Int
      /\ m[Len(l) + 1] = e /\ e.precedence \in Int
  <2>1. \A g \in Given : g.precedence \in Int
    BY DEF Given
  <2> HIDE DEF Given
  <2> QED
    BY <1>0, <2>1, AppendProperties, LenProperties
<1> HIDE DEF m
<1> DEFINE ofl == {k \in DOMAIN l : l[k].setting = s /\ p \in l[k].platforms}
           ofm == {k \in DOMAIN m : m[k].setting = s /\ p \in m[k].platforms}
           Best(q, of, k) == \A j \in of : q[j].precedence <= q[k].precedence
                                   /\ (q[j].precedence = q[k].precedence => j <= k)
<1>2. ofl \subseteq ofm /\ ofm \subseteq ofl \cup {Len(l) + 1} /\ h \in ofl
      /\ \A k \in ofl : m[k] = l[k] /\ k \in 1 .. Len(l)
  BY <1>1
<1>3. DeciderOf(m, s, p) = {k \in ofm : Best(m, ofm, k)}
      /\ DeciderOf(l, s, p) = {k \in ofl : Best(l, ofl, k)}
  BY DEF DeciderOf
<1> HIDE DEF ofl, ofm
<1>4. ~Best(m, ofm, Len(l) + 1)
  BY <1>1, <1>2
<1>5. ASSUME NEW k \in ofl PROVE Best(m, ofm, k) <=> Best(l, ofl, k)
  <2>1. ASSUME Best(m, ofm, k) PROVE Best(l, ofl, k)
    BY <1>2, <2>1
  <2>2. ASSUME Best(l, ofl, k) PROVE Best(m, ofm, k)
    <3>1. l[h].precedence <= l[k].precedence
      BY <1>2, <2>2
    <3>2. e.precedence < l[k].precedence
      BY <1>1, <1>2, <3>1
    <3>3. \A j \in ofl : m[j] = l[j]
      BY <1>2
    <3>4. ASSUME NEW j \in ofm
          PROVE  m[j].precedence <= m[k].precedence
                 /\ (m[j].precedence = m[k].precedence => j <= k)
      <4>1. CASE j \in ofl
        BY <4>1, <2>2, <3>3
      <4>2. CASE j = Len(l) + 1
        BY <4>2, <3>2, <3>3, <1>1, <1>2
      <4> QED
        BY <4>1, <4>2, <1>2
    <3> QED
      BY <3>4
  <2> QED
    BY <2>1, <2>2
<1>6. DeciderOf(m, s, p) = DeciderOf(l, s, p) /\ DeciderOf(l, s, p) \subseteq ofl
  <2> HIDE DEF Best
  <2> QED
    BY <1>2, <1>3, <1>4, <1>5
<1> DEFINE d == CHOOSE k \in DeciderOf(l, s, p) : TRUE
<1>7. DeciderOf(l, s, p) # {} => m[d] = l[d]
  BY <1>2, <1>6
<1>8. DecidedOf(m, s, p) = DecidedOf(l, s, p)
  BY <1>6, <1>7 DEF DecidedOf
<1> QED
  BY <1>8 DEF m

\* What is given last, and not outranked, decides.
LEMMA GivenLast ==
  ASSUME NEW l \in Seq(Given), NEW e \in Given, NEW s, NEW p,
         e.setting = s, p \in e.platforms,
         \A k \in DOMAIN l : l[k].setting = s => l[k].precedence <= e.precedence
  PROVE  DecidedOf(Append(l, e), s, p) = Limited(s, e.value)[p]
<1> DEFINE m == Append(l, e)
           last == Len(l) + 1
<1>0. \A k \in 1 .. Len(l) : l[k] \in Given
  BY ElementOfSeq
<1>1. /\ DOMAIN l = 1 .. Len(l) /\ DOMAIN m = 1 .. last /\ Len(l) \in Nat
      /\ \A k \in 1 .. Len(l) : m[k] = l[k] /\ l[k].precedence \in Int
      /\ m[last] = e /\ e.precedence \in Int
  <2>1. \A g \in Given : g.precedence \in Int
    BY DEF Given
  <2> HIDE DEF Given
  <2> QED
    BY <1>0, <2>1, AppendProperties, LenProperties
<1> HIDE DEF m
<1> DEFINE of == {k \in DOMAIN m : m[k].setting = s /\ p \in m[k].platforms}
<1>2. last \in of /\ \A k \in of : k = last \/ k \in 1 .. Len(l)
  BY <1>1
<1>3. \A k \in of : m[k].precedence <= m[last].precedence /\ k <= last
  BY <1>1, <1>2
<1>4. \A k \in of : k # last => ~(m[last].precedence <= m[k].precedence
                                 /\ (m[last].precedence = m[k].precedence => last <= k))
  BY <1>1, <1>2
<1>5. DeciderOf(m, s, p) = {k \in of : \A j \in of : m[j].precedence <= m[k].precedence
                                 /\ (m[j].precedence = m[k].precedence => j <= k)}
  BY DEF DeciderOf
<1> HIDE DEF of
<1>6. DeciderOf(m, s, p) = {last}
  BY <1>2, <1>3, <1>4, <1>5
<1>7. (CHOOSE k \in DeciderOf(m, s, p) : TRUE) = last
  BY <1>6
<1> QED
  BY <1>1, <1>6, <1>7 DEF DecidedOf, m

LEMMA OptionsInitInv == OptionsInit => OptionsInv
<1> SUFFICES ASSUME OptionsInit PROVE OptionsInv
  OBVIOUS
<1>1. given = << >> /\ << >> \in Seq(Given) /\ DOMAIN << >> = {}
  BY EmptySeq DEF OptionsInit
<1>2. \A s \in DOMAIN Settings :
        Settings[s].z \in Int /\ Settings[s].g \in Int
  BY SettingsAssumption
<1>3. OptionsTypes
  <2> DEFINE Entry == [z : Int, g : Int, precedence : 0 .. 3]
  <2>1. \A s \in DOMAIN Settings :
          [z |-> Settings[s].z, g |-> Settings[s].g, precedence |-> 0] \in Entry
    BY <1>2
  <2> HIDE DEF Entry
  <2>2. options \in [DOMAIN Settings -> Entry]
    BY <2>1 DEF OptionsInit, DEFAULT_OPTPREC
  <2> QED
    BY <1>1, <2>2 DEF OptionsInit, OptionsTypes, Entry
<1>4. ASSUME NEW s \in DOMAIN Settings PROVE Ruled(s)
  <2>1. Decider(s, Z) = {} /\ Decider(s, G) = {}
    BY <1>1 DEF Decider
  <2>2. options[s] = [z |-> Settings[s].z, g |-> Settings[s].g, precedence |-> 0]
    BY DEF OptionsInit, DEFAULT_OPTPREC
  <2>3. Settings[s][Z] = Settings[s].z /\ Settings[s][G] = Settings[s].g
    BY DEF Z, G
  <2> QED
    BY <1>1, <2>1, <2>2, <2>3 DEF Ruled, Decided, SRCCODE_OPTPREC
<1>5. SettingsDecided
  BY DEF OptionsInit, SettingsDecided
<1> QED
  BY <1>3, <1>4, <1>5 DEF OptionsInv

\* An entry for setting t keeps every other setting ruled.
LEMMA OthersRuled ==
  ASSUME OptionsInv, NEW e \in Given, given' = Append(given, e),
         NEW s \in DOMAIN Settings, e.setting # s, options'[s] = options[s]
  PROVE  Ruled(s)'
<1>1. Ruled(s) /\ given \in Seq(Given)
  BY DEF OptionsInv, OptionsTypes
<1>2. /\ DOMAIN given = 1 .. Len(given) /\ DOMAIN given' = 1 .. Len(given) + 1
      /\ Len(given) \in Nat
      /\ \A k \in 1 .. Len(given) : given'[k] = given[k]
      /\ given'[Len(given) + 1] = e
  BY <1>1, AppendProperties, LenProperties
<1>3. Decided(s, Z)' = Decided(s, Z) /\ Decided(s, G)' = Decided(s, G)
  BY <1>1, GivenElsewhere, DecidedNow
<1>4. \A k \in DOMAIN given' :
        given'[k].setting = s => given'[k].precedence <= options'[s].precedence
  BY <1>1, <1>2 DEF Ruled
<1>5. options'[s].precedence > SRCCODE_OPTPREC =>
        \E k \in DOMAIN given' :
          /\ given'[k].setting = s /\ given'[k].precedence = options'[s].precedence
          /\ given'[k].platforms = {Z, G}
  BY <1>1, <1>2 DEF Ruled
<1> QED
  BY <1>1, <1>3, <1>4, <1>5 DEF Ruled

\* An entry that is outranked leaves its setting ruled.
LEMMA OutrankedRuled ==
  ASSUME OptionsInv, NEW e \in Given, given' = Append(given, e),
         e.precedence < options[e.setting].precedence,
         UNCHANGED options
  PROVE  /\ Ruled(e.setting)'
         /\ \A s \in DOMAIN Settings, p \in {Z, G} : Decided(s, p)' = Decided(s, p)
<1> DEFINE t == e.setting
<1>0. t \in DOMAIN Settings /\ e.precedence \in 1 .. 3
  BY DEF Given
<1>1. Ruled(t) /\ given \in Seq(Given) /\ options[t].precedence \in 0 .. 3
  BY <1>0 DEF OptionsInv, OptionsTypes
<1>2. /\ DOMAIN given = 1 .. Len(given) /\ DOMAIN given' = 1 .. Len(given) + 1
      /\ Len(given) \in Nat
      /\ \A k \in 1 .. Len(given) : given'[k] = given[k]
      /\ given'[Len(given) + 1] = e
  BY <1>1, AppendProperties, LenProperties
<1>3. PICK h \in DOMAIN given : /\ given[h].setting = t
                                /\ given[h].precedence = options[t].precedence
                                /\ given[h].platforms = {Z, G}
  BY <1>0, <1>1 DEF Ruled, SRCCODE_OPTPREC
<1>4. ASSUME NEW s \in DOMAIN Settings, NEW p \in {Z, G} PROVE Decided(s, p)' = Decided(s, p)
  <2>1. CASE s = t
    <3>1. DecidedOf(Append(given, e), t, p) = DecidedOf(given, t, p)
      BY <1>1, <1>3, GivenInVain
    <3> QED
      BY <2>1, <3>1, DecidedNow
  <2>2. CASE s # t
    BY <2>2, <1>1, GivenElsewhere, DecidedNow
  <2> QED
    BY <2>1, <2>2
<1>5. \A k \in DOMAIN given' :
        given'[k].setting = t => given'[k].precedence <= options'[t].precedence
  BY <1>0, <1>1, <1>2 DEF Ruled
<1>6. \E k \in DOMAIN given' :
          /\ given'[k].setting = t /\ given'[k].precedence = options'[t].precedence
          /\ given'[k].platforms = {Z, G}
  BY <1>2, <1>3
<1>7. Ruled(t)'
  BY <1>0, <1>1, <1>4, <1>5, <1>6 DEF Ruled
<1> QED
  BY <1>4, <1>7

\* An entry that is taken leaves its setting ruled.
LEMMA TakenRuled ==
  ASSUME OptionsInv, NEW e \in Given, given' = Append(given, e),
         NEW t, t = e.setting,
         options[t].precedence <= e.precedence,
         options'[t].precedence = e.precedence,
         e.precedence > SRCCODE_OPTPREC => e.platforms = {Z, G},
         options'[t].z = IF Z \in e.platforms THEN Limited(t, e.value).z ELSE options[t].z,
         options'[t].g = IF G \in e.platforms THEN Limited(t, e.value).g ELSE options[t].g
  PROVE  Ruled(t)'
<1>0. t \in DOMAIN Settings /\ e.precedence \in 1 .. 3 /\ e.value \in Int
  BY DEF Given
<1>1. Ruled(t) /\ given \in Seq(Given) /\ options[t].precedence \in 0 .. 3
  BY <1>0 DEF OptionsInv, OptionsTypes
<1>2. /\ DOMAIN given = 1 .. Len(given) /\ DOMAIN given' = 1 .. Len(given) + 1
      /\ Len(given) \in Nat
      /\ \A k \in 1 .. Len(given) : given'[k] = given[k]
      /\ given'[Len(given) + 1] = e
  BY <1>1, AppendProperties, LenProperties
<1>3. \A k \in DOMAIN given : given[k].setting = t => given[k].precedence <= e.precedence
  <2> SUFFICES ASSUME NEW k \in DOMAIN given, given[k].setting = t
               PROVE  given[k].precedence <= e.precedence
    OBVIOUS
  <2>1. given[k].precedence <= options[t].precedence
    BY <1>1 DEF Ruled
  <2>2. given[k] \in Given
    BY <1>1, <1>2, ElementOfSeq
  <2>3. given[k].precedence \in 1 .. 3
    BY <2>2 DEF Given
  <2> QED
    BY <1>0, <1>1, <2>1, <2>3
<1>4. ASSUME NEW p \in {Z, G}
      PROVE  Decided(t, p)' = IF p \in e.platforms THEN Limited(t, e.value)[p] ELSE Decided(t, p)
  <2>1. CASE p \in e.platforms
    <3>1. DecidedOf(Append(given, e), t, p) = Limited(t, e.value)[p]
      BY <1>1, <1>3, <2>1, GivenLast
    <3> QED
      BY <2>1, <3>1, DecidedNow
  <2>2. CASE p \notin e.platforms
    <3>1. DecidedOf(Append(given, e), t, p) = DecidedOf(given, t, p)
      BY <1>1, <2>2, GivenElsewhere
    <3> QED
      BY <2>2, <3>1, DecidedNow
  <2> QED
    BY <2>1, <2>2
<1>5. options'[t].z = Decided(t, Z)' /\ options'[t].g = Decided(t, G)'
  <2>1. Limited(t, e.value)[Z] = Limited(t, e.value).z /\ Limited(t, e.value)[G] = Limited(t, e.value).g
    BY <1>0, LimitedInt
  <2> QED
    BY <1>1, <1>4, <2>1 DEF Ruled
<1>6. \A k \in DOMAIN given' :
        given'[k].setting = t => given'[k].precedence <= options'[t].precedence
  BY <1>0, <1>2, <1>3
<1>7. options'[t].precedence > SRCCODE_OPTPREC =>
        \E k \in DOMAIN given' :
          /\ given'[k].setting = t /\ given'[k].precedence = options'[t].precedence
          /\ given'[k].platforms = {Z, G}
  BY <1>2
<1> QED
  BY <1>5, <1>6, <1>7 DEF Ruled

LEMMA StillRuled ==
  ASSUME OptionsInv, UNCHANGED <<options, given>>, NEW s \in DOMAIN Settings
  PROVE  /\ Ruled(s)'
         /\ Decided(s, Z)' = Decided(s, Z) /\ Decided(s, G)' = Decided(s, G)
<1>1. Decided(s, Z)' = Decided(s, Z) /\ Decided(s, G)' = Decided(s, G)
  BY DecidedNow
<1>2. Ruled(s)
  BY DEF OptionsInv
<1> QED
  BY <1>1, <1>2 DEF Ruled

\* Decided for the platform compiled for.
LEMMA DecidedHere ==
  ASSUME NEW s
  PROVE  /\ Decided(s, Platform) = IF glulx_mode THEN Decided(s, G) ELSE Decided(s, Z)
         /\ Decided(s, Platform)' = IF glulx_mode' THEN Decided(s, G)' ELSE Decided(s, Z)'
BY DEF Platform

\* The $ commands keep the options ruled, whatever they set.
LEMMA CommandInv ==
  ASSUME OptionsInv, execute_dollar_command
  PROVE  OptionsInv'
<1>1. PICK s \in DOMAIN Settings, v \in Values :
        LET prec == IF phase = "header" THEN HEADCOM_OPTPREC ELSE CMDLINE_OPTPREC IN
        set_compiler_option(s, v, prec) /\ Gives(s, v, prec, {Z, G})
  BY DEF execute_dollar_command
<1> DEFINE prec == IF phase = "header" THEN HEADCOM_OPTPREC ELSE CMDLINE_OPTPREC
           e == [setting |-> s, value |-> v, precedence |-> prec, platforms |-> {Z, G}]
<1>2. /\ prec \in 2 .. 3 /\ v \in Int /\ phase \in {"commands", "header"}
      /\ UNCHANGED <<glulx_mode, phase, variables>>
  BY SettingsAssumption DEF execute_dollar_command, HEADCOM_OPTPREC, CMDLINE_OPTPREC
<1>3. e \in Given /\ e.setting = s /\ e.precedence = prec /\ e.value = v /\ e.platforms = {Z, G}
  BY <1>2 DEF Given
<1>4. SettingsDecided'
  BY <1>2 DEF SettingsDecided
<1>5. OptionsTypes
  BY DEF OptionsInv
<1>6. options[s] \in [z : Int, g : Int, precedence : 0 .. 3]
  BY <1>5 DEF OptionsTypes
<1>7. CASE v = BadNumber
  <2>1. UNCHANGED <<options, given>>
    BY <1>1, <1>7 DEF set_compiler_option, Gives
  <2>2. OptionsTypes'
    BY <1>2, <1>5, <2>1 DEF OptionsTypes
  <2>3. \A x \in DOMAIN Settings : Ruled(x)'
    BY <2>1, StillRuled
  <2> QED
    BY <1>4, <2>2, <2>3 DEF OptionsInv
<1>8. CASE v # BadNumber
  <2>1. given' = Append(given, e)
    BY <1>1, <1>8 DEF Gives
  <2>2. given' \in Seq(Given)
    BY <1>3, <1>5, <2>1, AppendProperties DEF OptionsTypes
  <2>3. CASE prec < options[s].precedence
    <3>1. UNCHANGED options
      BY <1>1, <2>3 DEF set_compiler_option, Outranked
    <3>2. Ruled(s)'
      <4> HIDE DEF e
      <4> QED
        BY <1>3, <2>1, <2>3, <3>1, OutrankedRuled
    <3>3. \A x \in DOMAIN Settings : x # s => Ruled(x)'
      <4> HIDE DEF e
      <4> QED
        BY <1>3, <2>1, <3>1, OthersRuled
    <3>4. OptionsTypes'
      BY <1>2, <1>5, <2>2, <3>1 DEF OptionsTypes
    <3> QED
      BY <1>4, <3>2, <3>3, <3>4 DEF OptionsInv
  <2>4. CASE ~(prec < options[s].precedence)
    <3> DEFINE new == [z |-> Limited(s, v).z, g |-> Limited(s, v).g, precedence |-> prec]
    <3>1. options' = [options EXCEPT ![s] = new]
      BY <1>1, <1>8, <2>4 DEF set_compiler_option, Outranked
    <3>2. new \in [z : Int, g : Int, precedence : 0 .. 3]
      BY <1>2, LimitedInt
    <3>3. /\ options'[s] = new /\ \A x \in DOMAIN Settings : x # s => options'[x] = options[x]
          /\ options' \in [DOMAIN Settings -> [z : Int, g : Int, precedence : 0 .. 3]]
      <4> HIDE DEF new
      <4> QED
        BY <1>5, <3>1, <3>2 DEF OptionsTypes
    <3>4. options'[s].z = Limited(s, v).z /\ options'[s].g = Limited(s, v).g
          /\ options'[s].precedence = prec
      BY <3>3
    <3>5. options[s].precedence <= prec /\ Z \in {Z, G} /\ G \in {Z, G}
      BY <1>2, <1>6, <2>4
    <3>6. Ruled(s)'
      <4> HIDE DEF e, new, prec
      <4> QED
        BY <1>3, <2>1, <3>4, <3>5, TakenRuled
    <3>7. \A x \in DOMAIN Settings : x # s => Ruled(x)'
      <4> HIDE DEF e
      <4> QED
        BY <1>3, <2>1, <3>3, OthersRuled
    <3>8. OptionsTypes'
      BY <1>2, <1>5, <2>2, <3>3 DEF OptionsTypes
    <3> QED
      BY <1>4, <3>6, <3>7, <3>8 DEF OptionsInv
  <2> QED
    BY <2>3, <2>4
<1> QED
  BY <1>7, <1>8

LEMMA PhaseInv ==
  ASSUME OptionsInv, SelectPlatform \/ Compile \/ EndCompile
  PROVE  OptionsInv'
<1>1. UNCHANGED <<options, given>>
  BY DEF SelectPlatform, Compile, EndCompile
<1>2. phase' \in {"commands", "header"} /\ glulx_mode' \in BOOLEAN
  BY DEF SelectPlatform, Compile, EndCompile, OptionsInv, OptionsTypes
<1>3. OptionsTypes'
  BY <1>1, <1>2 DEF OptionsInv, OptionsTypes
<1>4. SettingsDecided'
  BY <1>2 DEF SettingsDecided
<1> QED
  BY <1>1, <1>3, <1>4, StillRuled DEF OptionsInv

\* What the source says keeps the options ruled, and the compiler's variables
\* what was decided for its platform.
LEMMA SourceInv ==
  ASSUME OptionsInv, set_current_option_precedence
  PROVE  OptionsInv'
<1>1. PICK s \in SourceSet, v \in 0 .. 1 :
        /\ Gives(s, v, SRCCODE_OPTPREC, {Platform})
        /\ \/ options[s].precedence > SRCCODE_OPTPREC /\ UNCHANGED <<options, variables>>
           \/ /\ options[s].precedence <= SRCCODE_OPTPREC
              /\ options' = [options EXCEPT ![s] =
                               [z |-> IF glulx_mode THEN @.z ELSE v,
                                g |-> IF glulx_mode THEN v ELSE @.g,
                                precedence |-> SRCCODE_OPTPREC]]
              /\ variables' = [variables EXCEPT ![s] = v]
  BY DEF set_current_option_precedence
<1> DEFINE e == [setting |-> s, value |-> v, precedence |-> 1, platforms |-> {Platform}]
<1>2. /\ phase = "source" /\ UNCHANGED <<glulx_mode, phase>>
      /\ s \in DOMAIN Settings /\ s \notin {"MAX_ABBREVS", "MAX_DYNAMIC_STRINGS"}
      /\ v \in Int /\ v # BadNumber /\ Platform \in {Z, G} /\ Platform' = Platform
  BY SettingsAssumption
     DEF set_current_option_precedence, BadNumber, Platform
<1>3. /\ e \in Given /\ e.setting = s /\ e.precedence = 1 /\ e.value = v
      /\ e.platforms = {Platform}
  BY <1>2 DEF Given
<1>4. given' = Append(given, e)
  BY <1>1, <1>2 DEF Gives, SRCCODE_OPTPREC
<1>5. /\ OptionsTypes /\ SettingsDecided /\ given' \in Seq(Given)
      /\ variables \in [DOMAIN Settings -> Int]
      /\ options[s] \in [z : Int, g : Int, precedence : 0 .. 3]
  BY <1>2, <1>3, <1>4, AppendProperties DEF OptionsInv, OptionsTypes
<1>6. CASE options[s].precedence > SRCCODE_OPTPREC /\ UNCHANGED <<options, variables>>
  <2> HIDE DEF e
  <2>1. /\ Ruled(s)'
        /\ \A x \in DOMAIN Settings, p \in {Z, G} : Decided(x, p)' = Decided(x, p)
    BY <1>3, <1>4, <1>6, OutrankedRuled DEF SRCCODE_OPTPREC
  <2>2. \A x \in DOMAIN Settings : x # s => Ruled(x)'
    BY <1>3, <1>4, <1>6, OthersRuled
  <2>3. OptionsTypes'
    BY <1>2, <1>5, <1>6 DEF OptionsTypes
  <2>4. SettingsDecided'
    <3>1. {"MAX_ABBREVS", "MAX_DYNAMIC_STRINGS"} \subseteq DOMAIN Settings
      BY SettingsAssumption
    <3>2. /\ \A x \in DOMAIN Settings : Decided(x, Platform)' = Decided(x, Platform)
          /\ Decided("MAX_ABBREVS", Z)' = Decided("MAX_ABBREVS", Z)
          /\ Decided("MAX_DYNAMIC_STRINGS", Z)' = Decided("MAX_DYNAMIC_STRINGS", Z)
      BY <1>2, <2>1, <3>1, DecidedHere
    <3> QED
      BY <1>2, <1>5, <1>6, <3>2 DEF SettingsDecided, Shared
  <2> QED
    BY <2>1, <2>2, <2>3, <2>4 DEF OptionsInv
<1>7. CASE /\ options[s].precedence <= SRCCODE_OPTPREC
           /\ options' = [options EXCEPT ![s] =
                            [z |-> IF glulx_mode THEN @.z ELSE v,
                             g |-> IF glulx_mode THEN v ELSE @.g,
                             precedence |-> SRCCODE_OPTPREC]]
           /\ variables' = [variables EXCEPT ![s] = v]
  <2> DEFINE new == [z |-> IF glulx_mode THEN options[s].z ELSE v,
                     g |-> IF glulx_mode THEN v ELSE options[s].g, precedence |-> 1]
  <2>1. options' = [options EXCEPT ![s] = new] /\ new \in [z : Int, g : Int, precedence : 0 .. 3]
    BY <1>2, <1>5, <1>7 DEF SRCCODE_OPTPREC
  <2>2. /\ options'[s] = new /\ \A x \in DOMAIN Settings : x # s => options'[x] = options[x]
        /\ options' \in [DOMAIN Settings -> [z : Int, g : Int, precedence : 0 .. 3]]
    <3> HIDE DEF new
    <3> QED
      BY <1>2, <1>5, <2>1 DEF OptionsTypes
  <2>3. /\ options'[s].z = IF Z \in {Platform} THEN Limited(s, v).z ELSE options[s].z
        /\ options'[s].g = IF G \in {Platform} THEN Limited(s, v).g ELSE options[s].g
        /\ options'[s].precedence = 1
    BY <2>2, SourceLimited DEF Platform, Z, G
  <2>4. Ruled(s)'
    <3> HIDE DEF e, new
    <3>1. options[s].precedence <= 1 /\ ~(1 > SRCCODE_OPTPREC)
      BY <1>7 DEF SRCCODE_OPTPREC
    <3> QED
      BY <1>3, <1>4, <2>3, <3>1, TakenRuled
  <2>5. \A x \in DOMAIN Settings : x # s => Ruled(x)'
    <3> HIDE DEF e
    <3> QED
      BY <1>3, <1>4, <2>2, OthersRuled
  <2>6. OptionsTypes'
    BY <1>2, <1>5, <1>7, <2>2 DEF OptionsTypes
  <2>7. /\ \A x \in DOMAIN Settings, p \in {Z, G} : x # s => Decided(x, p)' = Decided(x, p)
        /\ Decided(s, Platform)' = v
    <3> HIDE DEF e
    <3>1. \A x \in DOMAIN Settings, p \in {Z, G} : x # s => Decided(x, p)' = Decided(x, p)
      BY <1>3, <1>4, <1>5, GivenElsewhere, DecidedNow DEF OptionsTypes
    <3>3. Decided(s, Z)' = options'[s].z /\ Decided(s, G)' = options'[s].g
      BY <2>4 DEF Ruled
    <3>4. Decided(s, Platform)' = IF glulx_mode THEN Decided(s, G)' ELSE Decided(s, Z)'
      BY <1>2, DecidedHere
    <3> QED
      BY <2>2, <3>1, <3>3, <3>4
  <2>8. SettingsDecided'
    <3>1. /\ {"MAX_ABBREVS", "MAX_DYNAMIC_STRINGS"} \subseteq DOMAIN Settings
          /\ variables'[s] = v
          /\ \A x \in DOMAIN Settings : x # s => variables'[x] = variables[x]
      BY <1>2, <1>5, <1>7, SettingsAssumption
    <3>2. /\ \A x \in DOMAIN Settings : x # s => Decided(x, Platform)' = Decided(x, Platform)
          /\ Decided("MAX_ABBREVS", Z)' = Decided("MAX_ABBREVS", Z)
          /\ Decided("MAX_DYNAMIC_STRINGS", Z)' = Decided("MAX_DYNAMIC_STRINGS", Z)
      BY <1>2, <2>7, <3>1, DecidedHere
    <3> QED
      BY <1>2, <1>5, <2>7, <3>1, <3>2 DEF SettingsDecided, Shared
  <2> QED
    BY <2>4, <2>5, <2>6, <2>8 DEF OptionsInv
<1> QED
  BY <1>1, <1>6, <1>7

\* The compiler's variables, as a compilation fixes them.
LEMMA FixInv ==
  ASSUME OptionsInv, set_compile_variables
  PROVE  OptionsInv'
<1> DEFINE v == [s \in DOMAIN Settings |-> SELECTVAL(options, s)]
           A == "MAX_ABBREVS"
           D == "MAX_DYNAMIC_STRINGS"
<1>1. /\ UNCHANGED <<options, given, glulx_mode>> /\ phase' = "source"
      /\ variables' = IF glulx_mode THEN v ELSE SharedAbbreviations(v)
  BY DEF set_compile_variables
<1>2. /\ OptionsTypes /\ A \in DOMAIN Settings /\ D \in DOMAIN Settings /\ A # D
  BY SettingsAssumption DEF OptionsInv
<1>3. \A s \in DOMAIN Settings :
        /\ options[s].z = Decided(s, Z) /\ options[s].z \in Int
        /\ options[s].g = Decided(s, G) /\ options[s].g \in Int
  <2> SUFFICES ASSUME NEW s \in DOMAIN Settings
               PROVE  /\ options[s].z = Decided(s, Z) /\ options[s].z \in Int
                      /\ options[s].g = Decided(s, G) /\ options[s].g \in Int
    OBVIOUS
  <2>1. options[s] \in [z : Int, g : Int, precedence : 0 .. 3]
    BY <1>2 DEF OptionsTypes
  <2>2. Ruled(s)
    BY DEF OptionsInv
  <2> QED
    BY <2>1, <2>2 DEF Ruled
<1>4. /\ v \in [DOMAIN Settings -> Int]
      /\ \A s \in DOMAIN Settings :
           v[s] = IF glulx_mode THEN Decided(s, G) ELSE Decided(s, Z)
  BY <1>3 DEF SELECTVAL
<1>5. \A s \in DOMAIN Settings :
        /\ Decided(s, Z)' = Decided(s, Z) /\ Decided(s, G)' = Decided(s, G)
        /\ Decided(s, Platform)' = IF glulx_mode THEN Decided(s, G) ELSE Decided(s, Z)
  BY <1>1, StillRuled, DecidedHere
<1> HIDE DEF v
<1>6. ASSUME ~glulx_mode
      PROVE  /\ SharedAbbreviations(v) \in [DOMAIN Settings -> Int]
             /\ SharedAbbreviations(v)[A] = Shared(v[A], v[D])
             /\ SharedAbbreviations(v)[D] = 96 - Shared(v[A], v[D])
             /\ \A s \in DOMAIN Settings \ {A, D} : SharedAbbreviations(v)[s] = v[s]
  <2> DEFINE w == [v EXCEPT ![D] = 96 - v[A]]
             u == [v EXCEPT ![A] = 96 - v[D]]
             o == [[v EXCEPT ![A] = 64] EXCEPT ![D] = 32]
             matched == IF v[D] = 32 /\ v[A] # 64 THEN w
                        ELSE IF v[A] = 64 /\ v[D] # 32 THEN u ELSE v
  <2>0. v[A] \in Int /\ v[D] \in Int
    BY <1>2, <1>4
  <2>1. /\ w \in [DOMAIN Settings -> Int] /\ w[A] = v[A] /\ w[D] = 96 - v[A]
        /\ \A s \in DOMAIN Settings \ {A, D} : w[s] = v[s]
    BY <1>2, <1>4, <2>0
  <2>2. /\ u \in [DOMAIN Settings -> Int] /\ u[A] = 96 - v[D] /\ u[D] = v[D]
        /\ \A s \in DOMAIN Settings \ {A, D} : u[s] = v[s]
    BY <1>2, <1>4, <2>0
  <2>3. /\ o \in [DOMAIN Settings -> Int] /\ o[A] = 64 /\ o[D] = 32
        /\ \A s \in DOMAIN Settings \ {A, D} : o[s] = v[s]
    BY <1>2, <1>4, <2>0
  <2>4. SharedAbbreviations(v) =
          IF matched[A] + matched[D] = 96 /\ matched[A] >= 0 /\ matched[D] >= 0 THEN matched ELSE o
    BY DEF SharedAbbreviations
  <2> HIDE DEF w, u, o
  <2>5. CASE v[D] = 32 /\ v[A] # 64
    BY <2>0, <2>1, <2>3, <2>4, <2>5 DEF Shared
  <2>6. CASE v[A] = 64 /\ v[D] # 32
    BY <2>0, <2>2, <2>3, <2>4, <2>6 DEF Shared
  <2>7. CASE ~(v[D] = 32 /\ v[A] # 64) /\ ~(v[A] = 64 /\ v[D] # 32)
    BY <1>4, <2>0, <2>3, <2>4, <2>7 DEF Shared
  <2> QED
    BY <2>5, <2>6, <2>7
<1>7. OptionsTypes'
  BY <1>1, <1>2, <1>4, <1>6 DEF OptionsTypes
<1>8. SettingsDecided'
  <2>1. CASE glulx_mode
    BY <1>1, <1>2, <1>4, <1>5, <2>1 DEF SettingsDecided
  <2>2. CASE ~glulx_mode
    <3>1. variables' = SharedAbbreviations(v) /\ glulx_mode' = glulx_mode
      BY <1>1, <2>2
    <3>2. Decided(A, Z)' = v[A] /\ Decided(D, Z)' = v[D]
      <4>1. /\ v[A] = Decided(A, Z) /\ v[D] = Decided(D, Z)
        BY <1>2, <1>4, <2>2
      <4>2. Decided(A, Z)' = Decided(A, Z) /\ Decided(D, Z)' = Decided(D, Z)
        BY <1>2, <1>5
      <4> QED
        BY <4>1, <4>2
    <3>3. \A s \in DOMAIN Settings : Decided(s, Platform)' = v[s]
      <4> SUFFICES ASSUME NEW s \in DOMAIN Settings
                   PROVE  Decided(s, Platform)' = v[s]
        OBVIOUS
      <4>1. v[s] = Decided(s, Z)
        BY <1>4, <2>2
      <4>2. Decided(s, Platform)' = Decided(s, Z)
        BY <1>5, <2>2
      <4> QED
        BY <4>1, <4>2
    <3>4. Shared(Decided(A, Z), Decided(D, Z))' = Shared(v[A], v[D])
      BY <3>2 DEF Shared
    <3>5. ASSUME NEW s \in DOMAIN Settings
          PROVE  variables'[s] =
                   IF glulx_mode' \/ s \notin {A, D} THEN Decided(s, Platform)'
                   ELSE IF s = A THEN Shared(Decided(A, Z), Decided(D, Z))'
                        ELSE 96 - Shared(Decided(A, Z), Decided(D, Z))'
      BY <1>6, <2>2, <3>1, <3>3, <3>4
    <3> QED
      BY <3>5 DEF SettingsDecided
  <2> QED
    BY <2>1, <2>2
<1> QED
  BY <1>1, <1>7, <1>8, StillRuled DEF OptionsInv

LEMMA OptionsInvHolds == OptionsSpec => []OptionsInv
<1>1. ASSUME OptionsInv, [OptionsNext]_optionVars PROVE OptionsInv'
  <2>1. CASE UNCHANGED optionVars
    <3>1. UNCHANGED <<options, given, glulx_mode, phase, variables>>
      BY <2>1 DEF optionVars
    <3>2. OptionsTypes'
      BY <1>1, <3>1 DEF OptionsInv, OptionsTypes
    <3>3. \A s \in DOMAIN Settings : Ruled(s)'
      BY <1>1, <3>1, StillRuled
    <3>4. SettingsDecided'
      <4>1. \A s \in DOMAIN Settings :
              /\ Decided(s, Platform)' = Decided(s, Platform)
              /\ Decided(s, Z)' = Decided(s, Z)
        <5>1. ASSUME NEW s \in DOMAIN Settings
              PROVE  /\ Decided(s, Z)' = Decided(s, Z)
                     /\ Decided(s, G)' = Decided(s, G)
          BY <3>1 DEF Decided, Decider
        <5> QED
          BY <3>1, <5>1, DecidedHere
      <4>2. /\ "MAX_ABBREVS" \in DOMAIN Settings
            /\ "MAX_DYNAMIC_STRINGS" \in DOMAIN Settings
        BY SettingsAssumption
      <4>3. Shared(Decided("MAX_ABBREVS", Z), Decided("MAX_DYNAMIC_STRINGS", Z))'
              = Shared(Decided("MAX_ABBREVS", Z), Decided("MAX_DYNAMIC_STRINGS", Z))
        BY <4>1, <4>2 DEF Shared
      <4> QED
        BY <1>1, <3>1, <4>1, <4>3 DEF OptionsInv, SettingsDecided
    <3> QED
      BY <3>2, <3>3, <3>4 DEF OptionsInv
  <2> QED
    BY <1>1, <2>1, CommandInv, PhaseInv, FixInv, SourceInv DEF OptionsNext
<1> QED
  BY <1>1, OptionsInitInv, PTL DEF OptionsSpec

\* Whatever commands, switches and source statements come, in whatever order
\* and over however many compilations: a compilation works with the last value
\* of the highest precedence that was given for its platform, within its
\* limits, and the abbreviations are always shared out completely
\* (options.c:758, inform.c:218).
THEOREM SettingsHold == OptionsSpec => []SettingsDecided
<1>1. OptionsInv => SettingsDecided
  BY DEF OptionsInv
<1> QED
  BY <1>1, OptionsInvHolds, PTL
=============================================================================
