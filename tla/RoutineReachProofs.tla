------------------------- MODULE RoutineReachProofs -------------------------
(***************************************************************************)
(* Proofs about RoutineReach: the type invariant, for every value of the   *)
(* constants, and FlagsImplyUnreachable, when no label resets reachability *)
(* inside a block that could not be entered.  The operators of the encoder *)
(* come first, each with what it keeps (Step); then what opening and       *)
(* closing a statement keep; then one case for each action.  The second    *)
(* part is about labels; the third shows, from what the first keeps about  *)
(* where the code stands in the source, that the code does what the source *)
(* says.                                                                   *)
(***************************************************************************)
EXTENDS RoutineReach, SequenceTheorems, FiniteSetTheorems, WellFoundedInduction, TLAPS

SourceItem == [op : Ops, label : Target]
CodeItem   == [op : Ops, label : Target, src : Nat]

\* The case in which the flags mean what header.h says.
Restricted == ~JumpIntoDead /\ StripUnreachableLabels

FlagsOK(e) == e.exec # {} => "UNREACHABLE" \in e.exec
Dead(e)    == "ENTIRE" \in e.exec

\* Control that comes to instruction k + 1 of the code is at instruction i of
\* the source, now or when the two are next asked for.
At(e, k, i) ==
  /\ k \in Nat
  /\ IF k < Len(e.code) THEN e.code[k + 1].src = i
     ELSE k = Len(e.code) /\ i = Len(e.source) + 1 /\ Reachable(e)

\* The code begins where the source begins, goes on where the source goes on,
\* and has its labels where the source has them.
Matched(e) ==
  /\ At(e, 0, 1)
  /\ \A k \in 1 .. Len(e.code) :
       /\ e.code[k].src \in 1 .. Len(e.source)
       /\ e.source[e.code[k].src].op = e.code[k].op
       /\ e.source[e.code[k].src].label = e.code[k].label
       /\ EndsFlow(e.code[k].op) \/ At(e, k, e.code[k].src + 1)
  /\ \A m \in Labels : e.offset[m] >= 0 => At(e, e.offset[m], e.place[m])
  /\ \A i \in 1 .. Len(e.source) : e.source[i].op = "jump" => e.source[i].label # NoLabel

\* f results from e by assembly calls that jump to labels of L only and place
\* labels of B only.  Where the whole statement is dead, the calls change no
\* use count and, if nothing jumps to the labels they place, leave it dead.
Step(e, f, L, B) ==
  /\ f \in Encoder
  /\ f.next = e.next
  /\ FlagsOK(e) => FlagsOK(f)
  /\ Dead(f) => Dead(e)
  /\ \A m \in Labels \ L : f.use[m] = e.use[m]
  /\ (Restricted /\ Dead(e) /\ \A m \in B \cap Labels : e.use[m] = 0)
       => (Dead(f) /\ f.use = e.use)
  /\ Matched(e) => Matched(f)

-----------------------------------------------------------------------------
LEMMA LabelsFact ==
  /\ Labels \subseteq Nat \ {0}
  /\ NoLabel \notin Labels
  /\ Labels \subseteq Target
  /\ NoLabel \in Target
  /\ \A l \in Target : l # NoLabel => l \in Labels
  /\ \A l \in Target : l \in Nat
BY DEF Labels, NoLabel, Target

LEMMA AskedType ==
  ASSUME NEW e \in Encoder, NEW op \in Ops, NEW l \in Target
  PROVE  /\ Asked(e, op, l) \in Encoder
         /\ Asked(e, op, l).use = e.use
         /\ Asked(e, op, l).next = e.next
         /\ Asked(e, op, l).exec = e.exec
<1> DEFINE item == [op |-> op, label |-> l]
<1>1. item \in SourceItem
  BY DEF SourceItem
<1>2. e.source \in Seq(SourceItem)
  BY DEF Encoder, SourceItem
<1>3. Append(e.source, item) \in Seq(SourceItem)
  BY <1>1, <1>2
<1> QED
  BY <1>3 DEF Asked, Encoder, SourceItem

LEMMA MarkLabelUsedType ==
  ASSUME NEW e \in Encoder, NEW l \in Target
  PROVE  /\ MarkLabelUsed(e, l) \in Encoder
         /\ MarkLabelUsed(e, l).next = e.next
         /\ \A m \in Labels \ {l} : MarkLabelUsed(e, l).use[m] = e.use[m]
<1>1. CASE l = NoLabel
  BY <1>1 DEF MarkLabelUsed
<1>2. CASE l # NoLabel
  <2> DEFINE use1 == [e.use EXCEPT ![l] = @ + 1]
  <2>1. l \in Labels /\ e.use \in [Labels -> Nat]
    BY <1>2, LabelsFact DEF Encoder
  <2>2. use1 \in [Labels -> Nat] /\ \A m \in Labels \ {l} : use1[m] = e.use[m]
    BY <2>1
  <2>3. MarkLabelUsed(e, l) = [e EXCEPT !.use = use1]
    BY <1>2 DEF MarkLabelUsed
  <2> HIDE DEF use1
  <2> QED
    BY <2>2, <2>3 DEF Encoder
<1> QED
  BY <1>1, <1>2

LEMMA AssembleType ==
  ASSUME NEW e \in Encoder, NEW op \in Ops, NEW l \in Target, NEW f, f = Assemble(e, op, l)
  PROVE  /\ f \in Encoder
         /\ f.next = e.next
         /\ FlagsOK(e) => FlagsOK(f)
         /\ Dead(f) => Dead(e)
         /\ \A m \in Labels \ {l} : f.use[m] = e.use[m]
         /\ Dead(e) => (Dead(f) /\ f.use = e.use)
<1> DEFINE a == MarkLabelUsed(Asked(e, op, l), l)
<1>1. /\ Asked(e, op, l) \in Encoder
      /\ a \in Encoder
      /\ a.next = e.next
      /\ \A m \in Labels \ {l} : a.use[m] = e.use[m]
  BY AskedType, MarkLabelUsedType
<1>2. CASE Reachable(e)
  <2> DEFINE item == [op |-> op, label |-> l, src |-> Len(e.source) + 1]
             flags == IF Terminates(op) THEN {"UNREACHABLE"} ELSE {}
  <2>1. Len(e.source) \in Nat
    BY DEF Encoder
  <2>2. item \in CodeItem
    BY <2>1 DEF CodeItem
  <2>3. a.code \in Seq(CodeItem)
    BY <1>1 DEF Encoder, CodeItem
  <2>4. Append(a.code, item) \in Seq(CodeItem)
    BY <2>2, <2>3
  <2>5. /\ flags \in SUBSET Flags
        /\ flags # {} => "UNREACHABLE" \in flags
        /\ "ENTIRE" \notin flags
    BY DEF Flags
  <2>6. f = [a EXCEPT !.exec = flags, !.code = Append(a.code, item)]
    BY <1>2 DEF Assemble
  <2> HIDE DEF a, item, flags
  <2>7. f \in Encoder /\ f.next = a.next /\ f.use = a.use /\ f.exec = flags
    BY <1>1, <2>4, <2>5, <2>6 DEF Encoder, CodeItem
  <2>8. ~Dead(e)
    BY <1>2 DEF Reachable, Dead
  <2> QED
    BY <1>1, <2>5, <2>7, <2>8 DEF FlagsOK, Dead
<1>3. CASE ~Reachable(e)
  <2> DEFINE q == Asked(e, op, l)
  <2>1. f = [q EXCEPT !.exec = @ \cup {"NOWARN"}]
    BY <1>3 DEF Assemble
  <2>a. q \in Encoder /\ q.next = e.next /\ q.use = e.use /\ q.exec = e.exec
    BY AskedType
  <2> HIDE DEF q
  <2>2. /\ f \in Encoder
        /\ f.next = e.next
        /\ f.use = e.use
        /\ f.exec = e.exec \cup {"NOWARN"}
    BY <2>1, <2>a DEF Encoder, Flags
  <2>3. e.exec # {}
    BY <1>3 DEF Reachable
  <2> QED
    BY <2>2, <2>3 DEF FlagsOK, Dead
<1> QED
  BY <1>2, <1>3

-----------------------------------------------------------------------------
(* What keeps the code matched with the source.                            *)

\* Calls that only change the flags, as long as code that could be reached
\* still can.
LEMMA QuietMatched ==
  ASSUME NEW e, NEW f, f.code = e.code, f.source = e.source,
         f.offset = e.offset, f.place = e.place,
         Reachable(e) => Reachable(f), Matched(e)
  PROVE  Matched(f)
<1>1. \A k, i : At(e, k, i) => At(f, k, i)
  BY DEF At
<1> QED
  BY <1>1 DEF Matched

\* An instruction that cannot be reached is asked for.
LEMMA SkippedMatched ==
  ASSUME NEW e \in Encoder, NEW op \in Ops, NEW l \in Target, op = "jump" => l # NoLabel,
         ~Reachable(e), Matched(e), NEW f, f.code = e.code,
         f.source = Append(e.source, [op |-> op, label |-> l]),
         f.offset = e.offset, f.place = e.place
  PROVE  Matched(f)
<1> DEFINE n == Len(e.code)
           N == Len(e.source)
           item == [op |-> op, label |-> l]
<1>1. /\ n \in Nat /\ N \in Nat /\ Len(f.source) = N + 1
      /\ \A i \in 1 .. N : f.source[i] = e.source[i]
      /\ f.source[N + 1].op = op /\ f.source[N + 1].label = l
  <2>1. item \in SourceItem /\ e.source \in Seq(SourceItem) /\ n \in Nat
    BY DEF SourceItem, Encoder
  <2>2. item.op = op /\ item.label = l
    OBVIOUS
  <2> HIDE DEF item
  <2> QED BY <2>1, <2>2, AppendProperties DEF item
<1>2. \A k, i : At(e, k, i) => At(f, k, i)
  BY DEF At
<1>3. ASSUME NEW k \in 1 .. n
      PROVE  /\ f.code[k].src \in 1 .. N + 1
             /\ f.source[f.code[k].src].op = f.code[k].op
             /\ f.source[f.code[k].src].label = f.code[k].label
             /\ EndsFlow(f.code[k].op) \/ At(f, k, f.code[k].src + 1)
  <2>1. /\ e.code[k].src \in 1 .. N
        /\ e.source[e.code[k].src].op = e.code[k].op
        /\ e.source[e.code[k].src].label = e.code[k].label
        /\ EndsFlow(e.code[k].op) \/ At(e, k, e.code[k].src + 1)
    BY DEF Matched
  <2> QED BY <1>1, <1>2, <2>1
<1>5. ASSUME NEW i \in 1 .. N + 1, f.source[i].op = "jump" PROVE f.source[i].label # NoLabel
  <2>1. CASE i = N + 1
    BY <1>1, <1>5, <2>1
  <2>2. CASE i # N + 1
    <3>1. i \in 1 .. N
      BY <1>1, <2>2
    <3> QED BY <1>1, <1>5, <3>1 DEF Matched
  <2> QED BY <2>1, <2>2
<1>6. At(f, 0, 1) /\ \A m \in Labels : f.offset[m] >= 0 => At(f, f.offset[m], f.place[m])
  BY <1>2 DEF Matched
<1>7. Len(f.code) = n /\ Len(f.source) = N + 1
  BY <1>1
<1> HIDE DEF n, N
<1> QED
  BY <1>3, <1>5, <1>6, <1>7 DEF Matched

\* An instruction that can be reached is asked for and assembled.
LEMMA CodedMatched ==
  ASSUME NEW e \in Encoder, NEW op \in Ops, NEW l \in Target, op = "jump" => l # NoLabel,
         Reachable(e), Matched(e), NEW f,
         f.code = Append(e.code, [op |-> op, label |-> l, src |-> Len(e.source) + 1]),
         f.source = Append(e.source, [op |-> op, label |-> l]),
         f.offset = e.offset, f.place = e.place,
         EndsFlow(op) \/ Reachable(f)
  PROVE  Matched(f)
<1> DEFINE n == Len(e.code)
           N == Len(e.source)
           item == [op |-> op, label |-> l]
           instr == [op |-> op, label |-> l, src |-> Len(e.source) + 1]
<1>1. /\ n \in Nat /\ N \in Nat /\ Len(f.source) = N + 1 /\ Len(f.code) = n + 1
      /\ \A i \in 1 .. N : f.source[i] = e.source[i]
      /\ f.source[N + 1].op = op /\ f.source[N + 1].label = l
      /\ \A k \in 1 .. n : f.code[k] = e.code[k]
      /\ f.code[n + 1].op = op /\ f.code[n + 1].label = l /\ f.code[n + 1].src = N + 1
  <2>0. N \in Nat /\ n \in Nat
    BY DEF Encoder
  <2>1. /\ item \in SourceItem /\ e.source \in Seq(SourceItem)
        /\ instr \in CodeItem /\ e.code \in Seq(CodeItem)
    BY <2>0 DEF SourceItem, CodeItem, Encoder
  <2>2. item.op = op /\ item.label = l /\ instr.op = op /\ instr.label = l /\ instr.src = N + 1
    OBVIOUS
  <2>3. f.source = Append(e.source, item) /\ f.code = Append(e.code, instr)
    OBVIOUS
  <2> HIDE DEF item, instr
  <2> QED BY <2>0, <2>1, <2>2, <2>3, AppendProperties
<1>2. ASSUME NEW k, NEW i, At(e, k, i) PROVE At(f, k, i)
  <2>1. CASE k < n
    BY <1>1, <1>2, <2>1 DEF At
  <2>2. CASE ~(k < n)
    <3>1. k = n /\ i = N + 1
      BY <1>2, <2>2 DEF At
    <3> QED BY <1>1, <3>1 DEF At
  <2> QED BY <2>1, <2>2
<1>3. ASSUME NEW k \in 1 .. n + 1
      PROVE  /\ f.code[k].src \in 1 .. N + 1
             /\ f.source[f.code[k].src].op = f.code[k].op
             /\ f.source[f.code[k].src].label = f.code[k].label
             /\ EndsFlow(f.code[k].op) \/ At(f, k, f.code[k].src + 1)
  <2>1. CASE k = n + 1
    <3>1. At(f, n + 1, N + 1 + 1) \/ EndsFlow(op)
      BY <1>1 DEF At
    <3> QED BY <1>1, <2>1, <3>1
  <2>2. CASE k # n + 1
    <3>1. k \in 1 .. n
      BY <1>1, <2>2
    <3>2. /\ e.code[k].src \in 1 .. N
          /\ e.source[e.code[k].src].op = e.code[k].op
          /\ e.source[e.code[k].src].label = e.code[k].label
          /\ EndsFlow(e.code[k].op) \/ At(e, k, e.code[k].src + 1)
      BY <3>1 DEF Matched
    <3> QED BY <1>1, <1>2, <3>1, <3>2
  <2> QED BY <2>1, <2>2
<1>5. ASSUME NEW i \in 1 .. N + 1, f.source[i].op = "jump" PROVE f.source[i].label # NoLabel
  <2>1. CASE i = N + 1
    BY <1>1, <1>5, <2>1
  <2>2. CASE i # N + 1
    <3>1. i \in 1 .. N
      BY <1>1, <2>2
    <3> QED BY <1>1, <1>5, <3>1 DEF Matched
  <2> QED BY <2>1, <2>2
<1>6. At(f, 0, 1) /\ \A m \in Labels : f.offset[m] >= 0 => At(f, f.offset[m], f.place[m])
  BY <1>2 DEF Matched
<1>7. Len(f.code) = n + 1 /\ Len(f.source) = N + 1
  BY <1>1
<1> HIDE DEF n, N
<1> QED
  BY <1>3, <1>5, <1>6, <1>7 DEF Matched

\* A label is placed here, or dropped.
LEMMA LabelMatched ==
  ASSUME NEW e \in Encoder, NEW l \in Labels, Matched(e), NEW f \in Encoder,
         f.code = e.code, f.source = e.source,
         f.place[l] = Len(e.source) + 1,
         \A m \in Labels \ {l} : f.place[m] = e.place[m] /\ f.offset[m] = e.offset[m],
         f.offset[l] = -1 \/ (f.offset[l] = Len(e.code) /\ Reachable(f)),
         Reachable(e) => Reachable(f)
  PROVE  Matched(f)
<1>1. \A k, i : At(e, k, i) => At(f, k, i)
  BY DEF At
<1>2. Len(e.source) \in Nat /\ Len(e.code) \in Nat
  BY DEF Encoder
<1>3. ASSUME NEW m \in Labels
      PROVE  f.offset[m] >= 0 => At(f, f.offset[m], f.place[m])
  <2>1. CASE m = l
    BY <1>2, <2>1 DEF At
  <2>2. CASE m # l
    BY <1>1, <1>2, <2>2 DEF Matched
  <2> QED BY <2>1, <2>2
<1> QED
  BY <1>1, <1>3 DEF Matched

LEMMA AskedMatched ==
  ASSUME NEW e \in Encoder, NEW op \in Ops, NEW l \in Target, op = "jump" => l # NoLabel,
         ~Reachable(e), Matched(e)
  PROVE  Matched(Asked(e, op, l))
<1> DEFINE s == Append(e.source, [op |-> op, label |-> l])
           f == Asked(e, op, l)
<1>1. f = [e EXCEPT !.source = s]
  BY DEF Asked, Encoder
<1> HIDE DEF s, f
<1>2. f.code = e.code /\ f.source = s /\ f.offset = e.offset /\ f.place = e.place
  BY <1>1 DEF Encoder
<1> QED
  BY <1>2, SkippedMatched DEF s, f

LEMMA AssembleMatched ==
  ASSUME NEW e \in Encoder, NEW op \in Ops, NEW l \in Target, op = "jump" => l # NoLabel,
         Matched(e)
  PROVE  Matched(Assemble(e, op, l))
<1> DEFINE a == Asked(e, op, l)
           s == Append(e.source, [op |-> op, label |-> l])
           instr == [op |-> op, label |-> l, src |-> Len(e.source) + 1]
           f == Assemble(e, op, l)
<1>1. /\ a \in Encoder /\ a.code = e.code /\ a.source = s
      /\ a.offset = e.offset /\ a.place = e.place
  <2>1. a = [e EXCEPT !.source = s] /\ a \in Encoder
    BY AskedType DEF Asked, Encoder
  <2> HIDE DEF s, a
  <2> QED BY <2>1 DEF Encoder
<1>2. CASE ~Reachable(e)
  <2>1. f = [a EXCEPT !.exec = @ \cup {"NOWARN"}]
    BY <1>2 DEF Assemble
  <2> HIDE DEF a, f, s
  <2>2. f.code = e.code /\ f.source = s /\ f.offset = e.offset /\ f.place = e.place
    BY <1>1, <2>1 DEF Encoder
  <2> QED BY <1>2, <2>2, SkippedMatched DEF s, f
<1>3. CASE Reachable(e)
  <2> DEFINE b == MarkLabelUsed(a, l)
             x == IF Terminates(op) THEN {"UNREACHABLE"} ELSE {}
             c == Append(e.code, instr)
  <2>1. /\ b \in Encoder /\ b.code = e.code /\ b.source = s
        /\ b.offset = e.offset /\ b.place = e.place
    <3> HIDE DEF a, s
    <3>1. b \in Encoder
      BY <1>1, MarkLabelUsedType
    <3> QED BY <1>1, <3>1 DEF MarkLabelUsed, Encoder
  <2>2. f = [b EXCEPT !.exec = x, !.code = Append(@, instr)]
    BY <1>3 DEF Assemble
  <2> HIDE DEF b, instr, f, x, s
  <2>3. f.code = c /\ f.source = s /\ f.offset = e.offset /\ f.place = e.place /\ f.exec = x
    BY <2>1, <2>2 DEF Encoder
  <2>4. EndsFlow(op) \/ Reachable(f)
    BY <2>3 DEF x, EndsFlow, Terminates, Reachable
  <2> QED BY <1>3, <2>3, <2>4, CodedMatched DEF s, f, instr
<1> QED
  BY <1>2, <1>3

LEMMA AssembleStep ==
  ASSUME NEW e \in Encoder, NEW op \in Ops, NEW l \in Target, op = "jump" => l # NoLabel
  PROVE  Step(e, Assemble(e, op, l), {l}, {})
BY AssembleType, AssembleMatched DEF Step

LEMMA AskedStep ==
  ASSUME NEW e \in Encoder, NEW op \in Ops, NEW l \in Target, op = "jump" => l # NoLabel,
         ~Reachable(e)
  PROVE  Step(e, Asked(e, op, l), {l}, {})
BY AskedType, AskedMatched DEF Step, FlagsOK, Dead

LEMMA JumpIfReachedStep ==
  ASSUME NEW e \in Encoder, NEW l \in Labels
  PROVE  Step(e, JumpIfReached(e, l), {l}, {})
<1>1. "jump" \in Ops /\ l \in Target /\ l # NoLabel
  BY LabelsFact DEF Ops
<1> QED
  BY <1>1, AskedStep, AssembleStep DEF JumpIfReached

LEMMA SetLabelOffsetType ==
  ASSUME NEW e \in Encoder, NEW l \in Labels, NEW kept \in BOOLEAN
  PROVE  /\ SetLabelOffset(e, l, kept) \in Encoder
         /\ SetLabelOffset(e, l, kept).next = e.next
         /\ SetLabelOffset(e, l, kept).use = e.use
         /\ SetLabelOffset(e, l, kept).exec = e.exec
<1> DEFINE here == [e.offset EXCEPT ![l] = Len(e.code)]
           none == [e.offset EXCEPT ![l] = -1]
           linked == Append(e.chain, l)
<1>1. Len(e.code) \in Nat /\ e.offset \in [Labels -> Nat \cup {-1}]
  BY DEF Encoder
<1>2. here \in [Labels -> Nat \cup {-1}] /\ none \in [Labels -> Nat \cup {-1}]
  BY <1>1
<1>3. linked \in Seq(Labels)
  BY DEF Encoder
<1>4. SetLabelOffset(e, l, kept) =
        IF kept THEN [e EXCEPT !.offset = here, !.chain = linked]
                ELSE [e EXCEPT !.offset = none]
  BY DEF SetLabelOffset
<1> HIDE DEF here, none, linked
<1> QED
  BY <1>2, <1>3, <1>4 DEF Encoder

LEMMA PlacedType ==
  ASSUME NEW e \in Encoder, NEW l \in Labels
  PROVE  /\ Placed(e, l) \in Encoder
         /\ Placed(e, l).next = e.next
         /\ Placed(e, l).use = e.use
         /\ Placed(e, l).exec = e.exec
<1> DEFINE place1 == [e.place EXCEPT ![l] = Len(e.source) + 1]
<1>1. Len(e.source) \in Nat /\ e.place \in [Labels -> Nat]
  BY DEF Encoder
<1>2. place1 \in [Labels -> Nat]
  BY <1>1
<1>3. Placed(e, l) = [e EXCEPT !.place = place1]
  BY DEF Placed
<1> HIDE DEF place1
<1> QED
  BY <1>2, <1>3 DEF Encoder

\* Placing a label, kept or not.
LEMMA PlacingMatched ==
  ASSUME NEW e \in Encoder, NEW l \in Labels, NEW kept \in BOOLEAN, Matched(e),
         NEW f \in Encoder, NEW x, f = [SetLabelOffset(Placed(e, l), l, kept) EXCEPT !.exec = x],
         kept => x = {}, Reachable(e) => x = {}
  PROVE  Matched(f)
<1> DEFINE p == Placed(e, l)
           q == SetLabelOffset(p, l, kept)
           place1 == [e.place EXCEPT ![l] = Len(e.source) + 1]
<1>1. /\ p \in Encoder /\ p.code = e.code /\ p.source = e.source
      /\ p.offset = e.offset /\ p.place = place1
  <2>1. p = [e EXCEPT !.place = place1] /\ p \in Encoder
    BY PlacedType DEF Placed, Encoder
  <2> HIDE DEF place1, p
  <2> QED BY <2>1 DEF Encoder
<1> HIDE DEF p, place1
<1>2. /\ q.code = e.code /\ q.source = e.source /\ q.place = place1
      /\ \A m \in Labels \ {l} : q.offset[m] = e.offset[m]
      /\ q.offset[l] = IF kept THEN Len(e.code) ELSE -1
      /\ q \in Encoder
  <2> DEFINE here == [e.offset EXCEPT ![l] = Len(e.code)]
             none == [e.offset EXCEPT ![l] = -1]
             linked == Append(p.chain, l)
  <2>1. /\ here[l] = Len(e.code) /\ none[l] = -1
        /\ \A m \in Labels \ {l} : here[m] = e.offset[m] /\ none[m] = e.offset[m]
    BY DEF Encoder
  <2>2. q = IF kept THEN [p EXCEPT !.offset = here, !.chain = linked]
                    ELSE [p EXCEPT !.offset = none]
    BY <1>1 DEF SetLabelOffset
  <2>3. q \in Encoder
    BY <1>1, SetLabelOffsetType
  <2> HIDE DEF q, here, none, linked
  <2>4. CASE kept
    <3>1. q.code = p.code /\ q.source = p.source /\ q.place = p.place /\ q.offset = here
      BY <1>1, <2>2, <2>4 DEF Encoder
    <3> QED BY <1>1, <2>1, <2>3, <2>4, <3>1
  <2>5. CASE ~kept
    <3>1. q.code = p.code /\ q.source = p.source /\ q.place = p.place /\ q.offset = none
      BY <1>1, <2>2, <2>5 DEF Encoder
    <3> QED BY <1>1, <2>1, <2>3, <2>5, <3>1
  <2> QED BY <2>4, <2>5
<1>3. f = [q EXCEPT !.exec = x]
  BY DEF p
<1> HIDE DEF q
<1>4. /\ f.code = e.code /\ f.source = e.source /\ f.place = place1 /\ f.exec = x
      /\ \A m \in Labels \ {l} : f.offset[m] = e.offset[m]
      /\ f.offset[l] = IF kept THEN Len(e.code) ELSE -1
  BY <1>2, <1>3 DEF Encoder
<1>5. f.offset[l] = -1 \/ (f.offset[l] = Len(e.code) /\ Reachable(f))
  BY <1>4 DEF Reachable
<1>6. Reachable(e) => Reachable(f)
  BY <1>4 DEF Reachable
<1>7. f.place[l] = Len(e.source) + 1 /\ \A m \in Labels \ {l} : f.place[m] = e.place[m]
  BY <1>4 DEF place1, Encoder
<1>8. f.code = e.code /\ f.source = e.source
  BY <1>4
<1>9. \A m \in Labels \ {l} : f.place[m] = e.place[m] /\ f.offset[m] = e.offset[m]
  BY <1>4, <1>7
<1> QED
  BY ONLY <1>5, <1>6, <1>7, <1>8, <1>9, e \in Encoder, f \in Encoder, l \in Labels,
          Matched(e), LabelMatched

\* A label dropped.
LEMMA DroppedMatched ==
  ASSUME NEW e \in Encoder, NEW l \in Labels, Matched(e)
  PROVE  Matched(SetLabelOffset(Placed(e, l), l, FALSE))
<1> DEFINE q == SetLabelOffset(Placed(e, l), l, FALSE)
<1>1. q \in Encoder /\ q.exec = e.exec
  <2> DEFINE p == Placed(e, l)
  <2>1. p \in Encoder /\ p.exec = e.exec
    BY PlacedType
  <2> HIDE DEF p
  <2>2. SetLabelOffset(p, l, FALSE) \in Encoder /\ SetLabelOffset(p, l, FALSE).exec = p.exec
    BY <2>1, SetLabelOffsetType
  <2> QED BY <2>1, <2>2 DEF p
<1>2. q = [q EXCEPT !.exec = e.exec]
  <2> HIDE DEF q
  <2> QED BY <1>1 DEF Encoder
<1> QED
  BY <1>1, <1>2, PlacingMatched DEF Reachable

LEMMA AssembleLabelMatched ==
  ASSUME NEW e \in Encoder, NEW l \in Labels, Matched(e)
  PROVE  Matched(AssembleLabel(e, l))
<1> DEFINE q == SetLabelOffset(Placed(e, l), l, TRUE)
<1>1. [q EXCEPT !.exec = {}] \in Encoder
  <2>1. q \in Encoder
    BY PlacedType, SetLabelOffsetType
  <2> HIDE DEF q
  <2> QED BY <2>1 DEF Encoder
<1>2. Matched([q EXCEPT !.exec = {}])
  BY <1>1, PlacingMatched
<1> QED
  BY <1>2, DroppedMatched DEF AssembleLabel

LEMMA AssembleLabelStep ==
  ASSUME NEW e \in Encoder, NEW l \in Labels
  PROVE  Step(e, AssembleLabel(e, l), {}, {l})
<1> DEFINE p == Placed(e, l)
<1>1. p \in Encoder /\ p.next = e.next /\ p.use = e.use /\ p.exec = e.exec
  BY PlacedType
<1>2. CASE Stripped(e, l)
  <2> DEFINE f == SetLabelOffset(p, l, FALSE)
  <2>1. f \in Encoder /\ f.next = e.next /\ f.use = e.use /\ f.exec = e.exec
    <3> HIDE DEF p
    <3> QED BY <1>1, SetLabelOffsetType
  <2>2. AssembleLabel(e, l) = f
    BY <1>2 DEF AssembleLabel
  <2> HIDE DEF f
  <2> QED
    BY <2>1, <2>2, AssembleLabelMatched DEF Step, FlagsOK, Dead
<1>3. CASE ~Stripped(e, l)
  <2> DEFINE f == SetLabelOffset(p, l, TRUE)
  <2>1. f \in Encoder /\ f.next = e.next /\ f.use = e.use /\ f.exec = e.exec
    <3> HIDE DEF p
    <3> QED BY <1>1, SetLabelOffsetType
  <2>2. AssembleLabel(e, l) = [f EXCEPT !.exec = {}]
    BY <1>3 DEF AssembleLabel
  <2> HIDE DEF f
  <2>3. [f EXCEPT !.exec = {}] \in Encoder
    BY <2>1 DEF Encoder
  <2>4. ~(Restricted /\ Dead(e) /\ \A m \in {l} \cap Labels : e.use[m] = 0)
    BY <1>3 DEF Restricted, Dead, Stripped
  <2> DEFINE g == [f EXCEPT !.exec = {}]
  <2>5. g.next = e.next /\ g.use = e.use /\ g.exec = {}
    BY <2>1 DEF Encoder
  <2> HIDE DEF g
  <2>6. AssembleLabel(e, l) = g /\ g \in Encoder
    BY <2>2, <2>3 DEF g
  <2> QED
    BY <2>4, <2>5, <2>6, AssembleLabelMatched DEF Step, FlagsOK, Dead
<1> QED
  BY <1>2, <1>3

LEMMA AssembleForwardLabelStep ==
  ASSUME NEW e \in Encoder, NEW l \in Labels
  PROVE  Step(e, AssembleForwardLabel(e, l), {}, {l})
<1> DEFINE p == Placed(e, l)
           f == SetLabelOffset(p, l, FALSE)
<1>1. p \in Encoder /\ p.next = e.next /\ p.use = e.use /\ p.exec = e.exec
  BY PlacedType
<1>2. f \in Encoder /\ f.next = e.next /\ f.use = e.use /\ f.exec = e.exec
  <2> HIDE DEF p
  <2> QED BY <1>1, SetLabelOffsetType
<1>3. CASE e.use[l] > 0
  BY <1>3, AssembleLabelStep DEF AssembleForwardLabel
<1>4. CASE ~(e.use[l] > 0)
  <2>1. AssembleForwardLabel(e, l) = f
    BY <1>4 DEF AssembleForwardLabel
  <2>2. Matched(e) => Matched(f)
    BY DroppedMatched
  <2> HIDE DEF f
  <2> QED
    BY <1>2, <2>1, <2>2 DEF Step, FlagsOK, Dead
<1> QED
  BY <1>3, <1>4

LEMMA EnterType ==
  ASSUME NEW e \in Encoder
  PROVE  /\ Enter(e) \in Encoder
         /\ Enter(e).next = e.next
         /\ Enter(e).use = e.use
         /\ FlagsOK(e) => FlagsOK(Enter(e))
         /\ Dead(e) => Dead(Enter(e))
         /\ Dead(Enter(e)) \/ Reachable(Enter(e))
         /\ Dead(Enter(e)) <=> ~Reachable(e)
         /\ Matched(e) => Matched(Enter(e))
<1> DEFINE f == [e EXCEPT !.exec = @ \cup {"ENTIRE"}]
<1>1. /\ f \in Encoder /\ f.next = e.next /\ f.use = e.use /\ f.exec = e.exec \cup {"ENTIRE"}
      /\ f.code = e.code /\ f.source = e.source /\ f.offset = e.offset /\ f.place = e.place
  BY DEF Encoder, Flags
<1>2. Enter(e) = IF Reachable(e) THEN e ELSE f
  BY DEF Enter
<1> HIDE DEF f
<1>3. Matched(e) => Matched(Enter(e))
  BY <1>1, <1>2, QuietMatched
<1> QED
  BY <1>1, <1>2, <1>3 DEF Reachable, FlagsOK, Dead

LEMMA NoWarnIfStep ==
  ASSUME NEW e \in Encoder, NEW c \in BOOLEAN
  PROVE  Step(e, NoWarnIf(e, c), {}, {})
<1> DEFINE f == [e EXCEPT !.exec = @ \cup {"NOWARN"}]
<1>1. /\ f \in Encoder /\ f.next = e.next /\ f.use = e.use /\ f.exec = e.exec \cup {"NOWARN"}
      /\ f.code = e.code /\ f.source = e.source /\ f.offset = e.offset /\ f.place = e.place
  BY DEF Encoder, Flags
<1>2. NoWarnIf(e, c) = IF c /\ ~Reachable(e) THEN f ELSE e
  BY DEF NoWarnIf, NoWarn
<1> HIDE DEF f
<1>3. Matched(e) => Matched(NoWarnIf(e, c))
  BY <1>1, <1>2, QuietMatched
<1> QED
  BY <1>1, <1>2, <1>3 DEF Reachable, Step, FlagsOK, Dead

LEMMA BranchUnlessStep ==
  ASSUME NEW e \in Encoder, NEW cond \in Conds, NEW l \in Labels
  PROVE  Step(e, BranchUnless(e, cond, l), {l}, {})
<1>0. l \in Target /\ l # NoLabel
  BY LabelsFact
<1>1. CASE cond = "expr"
  BY <1>0, <1>1, AssembleStep DEF BranchUnless, Ops
<1>2. CASE cond = "false"
  BY <1>0, <1>2, AssembleStep DEF BranchUnless, Ops
<1>3. CASE cond = "true"
  BY <1>3 DEF BranchUnless, Step
<1> QED
  BY <1>1, <1>2, <1>3, BoundsAssumption DEF BoundsAssumption

LEMMA StepTrans ==
  ASSUME NEW e \in Encoder, NEW f, NEW g, NEW L, NEW M, NEW B, NEW C,
         Step(e, f, L, B), Step(f, g, M, C)
  PROVE  Step(e, g, L \cup M, B \cup C)
BY DEF Step

LEMMA StepRefl ==
  ASSUME NEW e \in Encoder
  PROVE  Step(e, e, {}, {})
BY DEF Step

LEMMA LeaveType ==
  ASSUME NEW e \in Encoder, NEW saved \in BOOLEAN
  PROVE  /\ Leave(e, saved) \in Encoder
         /\ Leave(e, saved).next = e.next
         /\ Leave(e, saved).use = e.use
         /\ Leave(e, saved).exec = IF saved THEN e.exec \cup {"ENTIRE"}
                                            ELSE e.exec \ {"ENTIRE"}
         /\ (FlagsOK(e) /\ (saved => Dead(e))) => FlagsOK(Leave(e, saved))
         /\ (saved => Dead(e)) /\ Matched(e) => Matched(Leave(e, saved))
<1> DEFINE flags == IF saved THEN e.exec \cup {"ENTIRE"} ELSE e.exec \ {"ENTIRE"}
<1>1. flags \in SUBSET Flags
  BY DEF Encoder, Flags
<1>2. Leave(e, saved) = [e EXCEPT !.exec = flags]
  BY DEF Leave
<1> HIDE DEF flags
<1>3. /\ Leave(e, saved) \in Encoder /\ Leave(e, saved).next = e.next
      /\ Leave(e, saved).use = e.use /\ Leave(e, saved).exec = flags
      /\ Leave(e, saved).code = e.code /\ Leave(e, saved).source = e.source
      /\ Leave(e, saved).offset = e.offset /\ Leave(e, saved).place = e.place
  BY <1>1, <1>2 DEF Encoder
<1>4. (saved => Dead(e)) => (Reachable(e) => Reachable(Leave(e, saved)))
  BY <1>3 DEF flags, Reachable, Dead
<1>5. (saved => Dead(e)) /\ Matched(e) => Matched(Leave(e, saved))
  BY <1>3, <1>4, QuietMatched
<1> QED
  BY <1>3, <1>5 DEF flags, FlagsOK, Dead

LEMMA AllocType ==
  ASSUME NEW e \in Encoder, NEW n \in Nat, CanAlloc(e, n)
  PROVE  /\ AllocLabels(e, n) \in Encoder
         /\ AllocLabels(e, n).next = e.next + n
         /\ AllocLabels(e, n).use = e.use
         /\ AllocLabels(e, n).exec = e.exec
         /\ \A i \in 1 .. n : e.next + i \in Labels
         /\ Matched(e) => Matched(AllocLabels(e, n))
<1>1. e.next + n \in 0 .. MaxLabels /\ e.next \in Nat /\ MaxLabels \in Nat
  BY BoundsAssumption DEF CanAlloc, Encoder, BoundsAssumption
<1>2. AllocLabels(e, n) = [e EXCEPT !.next = e.next + n]
  BY DEF AllocLabels
<1>3. \A i \in 1 .. n : e.next + i \in Labels
  BY <1>1 DEF Labels
<1> DEFINE f == AllocLabels(e, n)
<1>4. /\ f \in Encoder /\ f.next = e.next + n /\ f.use = e.use /\ f.exec = e.exec
      /\ f.code = e.code /\ f.source = e.source /\ f.offset = e.offset /\ f.place = e.place
  BY <1>1, <1>2 DEF Encoder
<1> HIDE DEF f
<1>5. Matched(e) => Matched(f)
  BY <1>4, QuietMatched DEF Reachable
<1> QED
  BY <1>3, <1>4, <1>5 DEF f

-----------------------------------------------------------------------------
(* The inductive invariant.                                                *)

\* The labels each kind of frame has.
ShapeOK(f) ==
  /\ f.kind \in {"if", "while", "do", "for"} => f.top \in Labels
  /\ f.kind \in {"else", "while", "do", "for", "switch"} => f.exit \in Labels
  /\ f.kind \in {"while", "do", "for"} => f.cont \in Labels
  /\ (f.kind = "switch" /\ f.hush /\ ~f.mark) => f.top \in Labels

GoodFrame == {f \in Frame : ShapeOK(f)}
SymEntry  == {s \in [label : Target, state : {"unknown", "forward", "defined"}] :
                s.state # "unknown" => s.label \in Labels}

BaseInv ==
  /\ enc \in Encoder
  /\ frames \in Seq(GoodFrame)
  /\ sym \in [UserLabels -> SymEntry]
  /\ ended \in BOOLEAN

FrameLabels(f) == {f.top, f.exit, f.cont}

Fresh(e) == \A m \in Labels : m > e.next => e.use[m] = 0

\* Every label in hand has been allocated.
Allocated(e, fs) == \A i \in DOMAIN fs : \A m \in FrameLabels(fs[i]) : m <= e.next

\* A statement that begins dead has a dead block; so has everything inside
\* it; and nothing jumps to the labels of a dead block.
Nested(e, fs) ==
  /\ \A i \in DOMAIN fs : fs[i].stmt => fs[i].block
  /\ \A i, j \in DOMAIN fs : i < j /\ fs[i].block => fs[j].stmt
  /\ \A i \in DOMAIN fs : fs[i].block =>
       Dead(e) /\ \A m \in FrameLabels(fs[i]) \cap Labels : e.use[m] = 0

FlagInv ==
  /\ FlagsOK(enc)
  /\ Fresh(enc)
  /\ Allocated(enc, frames)
  /\ \A u \in UserLabels : sym[u].label <= enc.next
  /\ Nested(enc, frames)
  /\ Matched(enc)

IInv == BaseInv /\ (Restricted => FlagInv)

LEMMA PopFacts ==
  ASSUME frames \in Seq(GoodFrame), frames # <<>>
  PROVE  /\ Len(frames) \in Nat \ {0}
         /\ Top \in GoodFrame
         /\ Pop \in Seq(GoodFrame)
         /\ Len(Pop) = Len(frames) - 1
         /\ \A i \in 1 .. Len(frames) - 1 : Pop[i] = frames[i]
<1> DEFINE n == Len(frames)
<1>1. n \in Nat \ {0} /\ \A i \in 1 .. n : frames[i] \in GoodFrame
  BY EmptySeq, ElementOfSeq
<1>2. n - 1 \in Int /\ \A i \in 1 .. n - 1 : frames[i] \in GoodFrame
  BY <1>1
<1> HIDE DEF n
<1>3. /\ SubSeq(frames, 1, n - 1) \in Seq(GoodFrame)
      /\ Len(SubSeq(frames, 1, n - 1)) = IF 1 <= n - 1 THEN n - 1 - 1 + 1 ELSE 0
      /\ \A i \in 1 .. n - 1 - 1 + 1 : SubSeq(frames, 1, n - 1)[i] = frames[1 + i - 1]
  BY <1>2, SubSeqProperties
<1>4. 1 + n - 1 = n /\ n - 1 - 1 + 1 = n - 1 /\ \A i \in 1 .. n - 1 : 1 + i - 1 = i
  BY <1>1
<1>5. Len(SubSeq(frames, 1, n - 1)) = n - 1
  BY <1>1, <1>3
<1> QED
  BY <1>1, <1>3, <1>4, <1>5 DEF Pop, Top, n

LEMMA LabelsInHand ==
  ASSUME BaseInv
  PROVE  /\ \A i \in DOMAIN frames : frames[i] \in GoodFrame
         /\ \A i \in DOMAIN frames : \A m \in FrameLabels(frames[i]) : m \in Target /\ m \in Nat
         /\ \A u \in UserLabels : sym[u].label \in Target /\ sym[u].label \in Nat
         /\ enc.next \in Nat
<1>1. \A i \in DOMAIN frames : frames[i] \in GoodFrame
  BY ElementOfSeq DEF BaseInv
<1>2. \A f \in GoodFrame : \A m \in FrameLabels(f) : m \in Target
  BY DEF GoodFrame, Frame, FrameLabels
<1>3. \A u \in UserLabels : sym[u] \in SymEntry
  BY DEF BaseInv
<1>4. \A u \in UserLabels : sym[u].label \in Target
  BY <1>3 DEF SymEntry
<1>5. enc.next \in Nat
  BY DEF BaseInv, Encoder
<1> QED
  BY <1>1, <1>2, <1>4, <1>5, LabelsFact

\* Steps that leave the frames alone.
LEMMA FramesKept ==
  ASSUME IInv, Restricted, UNCHANGED frames,
         enc' \in Encoder, enc.next <= enc'.next,
         FlagsOK(enc'), Fresh(enc'), Matched(enc'),
         (\E i \in DOMAIN frames : frames[i].block) => Dead(enc') /\ enc'.use = enc.use,
         \A u \in UserLabels : sym'[u].label <= enc'.next
  PROVE  FlagInv'
<1> USE DEF IInv, FlagInv
<1>1. Allocated(enc, frames)'
  <2>1. \A i \in DOMAIN frames : \A m \in FrameLabels(frames[i]) : m \in Nat
    BY LabelsInHand
  <2>2. enc.next \in Nat /\ enc'.next \in Nat
    BY LabelsInHand DEF Encoder
  <2> QED
    BY <2>1, <2>2 DEF Allocated
<1>2. Nested(enc, frames)'
  BY DEF Nested
<1> QED
  BY <1>1, <1>2

\* Opening a statement: n labels are allocated, the calls before the block
\* take Enter(...) to e, and frame g is pushed.
LEMMA FramePushed ==
  ASSUME IInv, Restricted, NEW n \in Nat, CanAlloc(enc, n),
         NEW e, NEW L, NEW B, NEW g \in GoodFrame,
         Step(Enter(AllocLabels(enc, n)), e, L, B),
         L \cup B \cup FrameLabels(g) \subseteq {NoLabel} \cup {enc.next + i : i \in 1 .. n},
         g.stmt = Dead(enc), g.block = Dead(e),
         enc' = Enter(e), frames' = Append(frames, g), UNCHANGED sym
  PROVE  FlagInv'
<1> DEFINE a == Enter(AllocLabels(enc, n))
           new == {enc.next + i : i \in 1 .. n}
<1> USE DEF IInv
<1>0. L \subseteq {NoLabel} \cup new
  OBVIOUS
<1>1. /\ a \in Encoder /\ a.next = enc.next + n /\ a.use = enc.use
      /\ FlagsOK(a) /\ (Dead(enc) => Dead(a)) /\ (Dead(a) <=> ~Reachable(enc))
      /\ Matched(a)
      /\ enc.next \in Nat
      /\ new \subseteq Labels
  <2>1. /\ AllocLabels(enc, n) \in Encoder
        /\ AllocLabels(enc, n).next = enc.next + n
        /\ AllocLabels(enc, n).use = enc.use
        /\ AllocLabels(enc, n).exec = enc.exec
        /\ Matched(AllocLabels(enc, n))
        /\ new \subseteq Labels
    BY AllocType DEF BaseInv, FlagInv
  <2>2. FlagsOK(AllocLabels(enc, n)) /\ (Dead(enc) <=> Dead(AllocLabels(enc, n)))
        /\ (Reachable(enc) <=> Reachable(AllocLabels(enc, n)))
    BY <2>1 DEF FlagInv, FlagsOK, Dead, Reachable
  <2> HIDE DEF new
  <2> QED
    BY <2>1, <2>2, EnterType, LabelsInHand
<1>2. /\ e \in Encoder /\ e.next = enc.next + n /\ FlagsOK(e) /\ Matched(e) /\ (Dead(e) => Dead(a))
      /\ \A m \in Labels \ L : e.use[m] = enc.use[m]
      /\ Dead(a) /\ (\A m \in B \cap Labels : enc.use[m] = 0) => Dead(e) /\ e.use = enc.use
  <2>1. Step(a, e, L, B)
    OBVIOUS
  <2> HIDE DEF a, new
  <2> QED BY <1>1, <2>1 DEF Step
<1>3. \A m \in new : enc.use[m] = 0 /\ m > enc.next /\ m <= enc.next + n
  BY <1>1 DEF FlagInv, Fresh
<1> HIDE DEF a, new
<1>4. /\ enc' \in Encoder /\ enc'.next = enc.next + n /\ enc'.use = e.use
      /\ FlagsOK(enc') /\ Matched(enc') /\ (Dead(e) => Dead(enc'))
  BY <1>2, EnterType
<1>5. Dead(a) => Dead(e) /\ e.use = enc.use
  BY <1>2, <1>3, LabelsFact DEF new
<1>6. Fresh(enc')
  <2> SUFFICES ASSUME NEW m \in Labels, m > enc'.next
               PROVE  enc'.use[m] = 0
    BY DEF Fresh
  <2>1. m > enc.next + n /\ m \in Nat /\ enc.next \in Nat
    BY <1>1, <1>4, LabelsFact
  <2>2. m \notin L /\ m > enc.next
    <3>1. m \notin new /\ m # NoLabel
      BY <2>1, <1>3, LabelsFact
    <3>2. m > enc.next
      BY <2>1
    <3> QED BY <3>1, <3>2, <1>0
  <2> QED
    BY <2>2, <1>2, <1>4 DEF FlagInv, Fresh
<1>7. /\ frames \in Seq(GoodFrame) /\ Len(frames) \in Nat
      /\ DOMAIN frames = 1 .. Len(frames)
      /\ DOMAIN frames' = 1 .. Len(frames) + 1
      /\ \A i \in DOMAIN frames : frames'[i] = frames[i]
      /\ frames'[Len(frames) + 1] = g
  BY AppendProperties DEF BaseInv
<1>8. Allocated(enc', frames')
  <2>1. \A m \in FrameLabels(g) : m <= enc.next + n
    BY <1>1, <1>3 DEF new, NoLabel
  <2>2. \A i \in DOMAIN frames : \A m \in FrameLabels(frames[i]) : m \in Nat /\ m <= enc.next
    BY LabelsInHand DEF FlagInv, Allocated
  <2> QED
    BY <1>1, <1>4, <1>7, <2>1, <2>2 DEF Allocated
<1>9. Nested(enc', frames')
  <2>1. g.stmt => g.block
    BY <1>1, <1>5
  <2>2. ASSUME NEW i \in DOMAIN frames, frames[i].block
        PROVE  /\ g.stmt /\ Dead(enc')
               /\ \A m \in FrameLabels(frames[i]) \cap Labels : enc'.use[m] = 0
    BY <2>2, <1>1, <1>4, <1>5 DEF FlagInv, Nested
  <2>3. g.block => /\ Dead(enc')
                   /\ \A m \in FrameLabels(g) \cap Labels : enc'.use[m] = 0
    <3>1. FrameLabels(g) \cap Labels \subseteq new
      BY LabelsFact DEF new
    <3> QED BY <3>1, <1>2, <1>3, <1>4, <1>5
  <2>4. Nested(enc, frames)
    BY DEF FlagInv
  <2> QED
    BY <1>7, <2>1, <2>2, <2>3, <2>4 DEF Nested
<1>10. \A u \in UserLabels : sym'[u].label <= enc'.next
  <2>1. \A u \in UserLabels : sym[u].label \in Nat /\ sym[u].label <= enc.next
    BY LabelsInHand DEF FlagInv
  <2> QED BY <2>1, <1>1, <1>4
<1> QED
  BY <1>4, <1>6, <1>8, <1>9, <1>10 DEF FlagInv

\* Closing a statement: the calls after the block take Leave(enc, block) to e,
\* and the frame is popped.
LEMMA BlockLeft ==
  ASSUME IInv, frames # <<>>, NEW x, x = Leave(enc, Top.block)
  PROVE  /\ x \in Encoder /\ x.next = enc.next /\ x.use = enc.use
         /\ Restricted => FlagsOK(x) /\ Matched(x) /\ (Dead(x) <=> Top.block)
<1>1. Top \in GoodFrame /\ Len(frames) \in DOMAIN frames
  BY PopFacts DEF IInv, BaseInv
<1>2. Top.block \in BOOLEAN
  BY <1>1 DEF GoodFrame, Frame
<1>3. Restricted => FlagsOK(enc) /\ Matched(enc) /\ (Top.block => Dead(enc))
  BY <1>1 DEF IInv, FlagInv, Nested, Top
<1>4. /\ Leave(enc, Top.block) \in Encoder /\ Leave(enc, Top.block).next = enc.next
      /\ Leave(enc, Top.block).use = enc.use
      /\ Leave(enc, Top.block).exec = IF Top.block THEN enc.exec \cup {"ENTIRE"}
                                                   ELSE enc.exec \ {"ENTIRE"}
      /\ FlagsOK(enc) /\ (Top.block => Dead(enc)) => FlagsOK(Leave(enc, Top.block))
      /\ (Top.block => Dead(enc)) /\ Matched(enc) => Matched(Leave(enc, Top.block))
  BY <1>2, LeaveType DEF IInv, BaseInv
<1> QED
  BY <1>2, <1>3, <1>4 DEF Dead

LEMMA FramePopped ==
  ASSUME IInv, Restricted, frames # <<>>,
         NEW e \in Encoder, e.next = enc.next, FlagsOK(e), Fresh(e), Matched(e),
         Top.block => Dead(e) /\ e.use = enc.use,
         enc' = Leave(e, Top.stmt), frames' = Pop, UNCHANGED sym
  PROVE  FlagInv'
<1> USE DEF IInv
<1> DEFINE n == Len(frames)
<1>1. /\ n \in Nat \ {0} /\ Top \in GoodFrame
      /\ Pop \in Seq(GoodFrame) /\ Len(Pop) = n - 1
      /\ \A i \in 1 .. n - 1 : Pop[i] = frames[i]
  BY PopFacts DEF BaseInv
<1>2. /\ DOMAIN frames' = 1 .. n - 1
      /\ DOMAIN frames = 1 .. n
      /\ \A i \in 1 .. n - 1 : frames'[i] = frames[i]
      /\ n \in DOMAIN frames /\ Top = frames[n]
  BY <1>1 DEF BaseInv, Top
<1> HIDE DEF n
<1>3. /\ Top.stmt \in BOOLEAN
      /\ Top.stmt => Top.block
      /\ Nested(enc, frames)
  BY <1>1, <1>2 DEF GoodFrame, Frame, FlagInv, Nested
<1>4. /\ enc' \in Encoder /\ enc'.next = enc.next /\ enc'.use = e.use
      /\ FlagsOK(enc') /\ Matched(enc')
      /\ Top.stmt => Dead(enc')
  <2> DEFINE y == Leave(e, Top.stmt)
  <2>1. /\ y \in Encoder /\ y.next = e.next /\ y.use = e.use
        /\ y.exec = IF Top.stmt THEN e.exec \cup {"ENTIRE"} ELSE e.exec \ {"ENTIRE"}
        /\ FlagsOK(e) /\ (Top.stmt => Dead(e)) => FlagsOK(y)
        /\ (Top.stmt => Dead(e)) /\ Matched(e) => Matched(y)
    BY <1>3, LeaveType
  <2> HIDE DEF y
  <2>2. Top.stmt => Dead(y)
    BY <2>1 DEF Dead
  <2>3. enc' = y
    BY DEF y
  <2> QED
    BY <1>3, <2>1, <2>2, <2>3
<1>5. Fresh(enc')
  BY <1>4 DEF Fresh
<1>6. Allocated(enc', frames')
  BY <1>1, <1>2, <1>4 DEF Allocated, FlagInv
<1>7. Nested(enc', frames')
  <2>1. ASSUME NEW i \in 1 .. n - 1, frames[i].block
        PROVE  /\ Dead(enc')
               /\ \A m \in FrameLabels(frames[i]) \cap Labels : enc'.use[m] = 0
    <3>1. Top.stmt
      <4>1. i \in DOMAIN frames /\ n \in DOMAIN frames /\ i < n
        BY <1>1, <1>2
      <4> QED BY ONLY <1>2, <1>3, <2>1, <4>1 DEF Nested
    <3>2. \A m \in FrameLabels(frames[i]) \cap Labels : enc.use[m] = 0
      <4>1. i \in DOMAIN frames
        BY <1>1, <1>2
      <4> QED BY ONLY <1>3, <2>1, <4>1 DEF Nested
    <3>3. Dead(enc') /\ enc'.use = enc.use
      BY <1>3, <1>4, <3>1
    <3> QED
      BY <3>2, <3>3
  <2>2. /\ \A i \in 1 .. n - 1 : frames[i].stmt => frames[i].block
        /\ \A i, j \in 1 .. n - 1 : i < j /\ frames[i].block => frames[j].stmt
    BY <1>1, <1>2, <1>3 DEF Nested
  <2> QED
    BY <1>2, <2>1, <2>2 DEF Nested
<1> QED
  BY <1>4, <1>5, <1>6, <1>7 DEF FlagInv

\* The common case of FramePopped.
LEMMA ClosingStep ==
  ASSUME IInv, Restricted, frames # <<>>,
         NEW e, NEW L, NEW B,
         Step(Leave(enc, Top.block), e, L, B),
         L \cup B \subseteq FrameLabels(Top),
         enc' = Leave(e, Top.stmt), frames' = Pop, UNCHANGED sym
  PROVE  FlagInv'
<1> DEFINE x == Leave(enc, Top.block)
<1>1. x \in Encoder /\ x.next = enc.next /\ x.use = enc.use /\ FlagsOK(x) /\ Matched(x) /\ (Dead(x) <=> Top.block)
  BY BlockLeft
<1> HIDE DEF x
<1>2. Step(x, e, L, B)
  BY DEF x
<1>3. Top = frames[Len(frames)] /\ Len(frames) \in DOMAIN frames
  BY PopFacts DEF IInv, BaseInv, Top
<1>4. /\ Nested(enc, frames) /\ Allocated(enc, frames) /\ Fresh(enc) /\ enc.next \in Nat
  BY LabelsInHand DEF IInv, FlagInv
<1>5. Top.block => Dead(e) /\ e.use = enc.use
  BY <1>1, <1>2, <1>3, <1>4 DEF Nested, Step
<1>6. Fresh(e)
  <2> SUFFICES ASSUME NEW m \in Labels, m > e.next
               PROVE  e.use[m] = 0
    BY DEF Fresh
  <2>1. m > enc.next /\ e.next = enc.next
    BY <1>1, <1>2 DEF Step
  <2>2. m \notin L
    BY <1>3, <1>4, <2>1, LabelsFact DEF Allocated
  <2> QED
    BY <1>1, <1>2, <1>4, <2>1, <2>2 DEF Step, Fresh
<1>7. e \in Encoder /\ e.next = enc.next /\ FlagsOK(e) /\ Matched(e)
  BY <1>1, <1>2 DEF Step
<1> QED
  BY <1>5, <1>6, <1>7, FramePopped

LEMMA OpenKeeps ==
  ASSUME IInv, NEW n \in Nat, CanAlloc(enc, n), NEW e, NEW L, NEW B, NEW g \in Frame,
         Step(Enter(AllocLabels(enc, n)), e, L, B),
         L \cup B \cup FrameLabels(g) \subseteq {NoLabel} \cup {enc.next + i : i \in 1 .. n},
         ShapeOK(g), g.stmt = SavedEntire(enc),
         Open(e, g)
  PROVE  IInv'
<1> DEFINE h == [g EXCEPT !.block = SavedEntire(e)]
<1>1. /\ h \in GoodFrame /\ FrameLabels(h) = FrameLabels(g)
      /\ h.stmt = Dead(enc) /\ h.block = Dead(e)
  <2>1. SavedEntire(e) \in BOOLEAN /\ SavedEntire(e) = Dead(e) /\ SavedEntire(enc) = Dead(enc)
    BY DEF SavedEntire, Dead
  <2>2. /\ h \in Frame /\ h.stmt = g.stmt /\ h.block = SavedEntire(e)
        /\ h.kind = g.kind /\ h.top = g.top /\ h.exit = g.exit /\ h.cont = g.cont
        /\ h.mark = g.mark /\ h.hush = g.hush
    BY <2>1 DEF Frame
  <2> HIDE DEF h
  <2> QED
    BY <2>1, <2>2 DEF GoodFrame, ShapeOK, FrameLabels
<1>2. /\ enc' = Enter(e) /\ frames' = Append(frames, h)
      /\ sym' = sym /\ ended' = ended
  BY DEF Open
<1>3. e \in Encoder
  BY DEF Step
<1> HIDE DEF h
<1>4. BaseInv'
  <2>1. enc' \in Encoder
    BY <1>2, <1>3, EnterType
  <2>2. frames' \in Seq(GoodFrame)
    BY <1>1, <1>2, AppendProperties DEF IInv, BaseInv
  <2> QED
    BY <1>2, <2>1, <2>2 DEF IInv, BaseInv
<1>5. ASSUME Restricted PROVE FlagInv'
  BY <1>1, <1>2, <1>5, FramePushed
<1>6. Restricted' <=> Restricted
  BY DEF Restricted
<1> QED
  BY <1>4, <1>5, <1>6 DEF IInv

LEMMA CloseKeeps ==
  ASSUME IInv, frames # <<>>, NEW e, NEW L, NEW B,
         Step(Leave(enc, Top.block), e, L, B),
         L \cup B \subseteq FrameLabels(Top),
         Close(e)
  PROVE  IInv'
<1>1. /\ enc' = Leave(e, Top.stmt) /\ frames' = Pop /\ sym' = sym /\ ended' = ended
  BY DEF Close
<1>2. Top.stmt \in BOOLEAN /\ Pop \in Seq(GoodFrame)
  BY PopFacts DEF IInv, BaseInv, GoodFrame, Frame
<1>3. BaseInv'
  BY <1>1, <1>2, LeaveType DEF IInv, BaseInv, Step
<1>4. ASSUME Restricted PROVE FlagInv'
  BY <1>1, <1>4, ClosingStep
<1> QED
  BY <1>3, <1>4 DEF IInv, Restricted

\* A statement without a block: its calls take Enter(e) to f.
LEMMA StatementKeeps ==
  ASSUME IInv, NEW e \in Encoder, NEW l \in Target,
         e.exec = enc.exec, e.use = enc.use, enc.next <= e.next,
         Restricted => Fresh(e) /\ Matched(e) /\ l <= e.next,
         NEW f, Step(Enter(e), f, {l}, {}),
         enc' = Leave(f, SavedEntire(e)), UNCHANGED <<frames, ended>>,
         sym' \in [UserLabels -> SymEntry],
         Restricted => \A u \in UserLabels : sym'[u].label <= e.next
  PROVE  IInv'
<1> DEFINE a == Enter(e)
           r == Leave(f, SavedEntire(e))
<1>1. /\ enc' = r /\ frames' = frames /\ ended' = ended
  OBVIOUS
<1>2. /\ a \in Encoder /\ a.next = e.next /\ a.use = e.use
      /\ FlagsOK(e) => FlagsOK(a)
      /\ Dead(e) => Dead(a)
      /\ Matched(e) => Matched(a)
  BY EnterType
<1>3. Step(a, f, {l}, {})
  OBVIOUS
<1> HIDE DEF a
<1>4. /\ r \in Encoder /\ r.next = f.next /\ r.use = f.use
      /\ r.exec = IF Dead(e) THEN f.exec \cup {"ENTIRE"} ELSE f.exec \ {"ENTIRE"}
      /\ FlagsOK(f) /\ (Dead(e) => Dead(f)) => FlagsOK(r)
      /\ (Dead(e) => Dead(f)) /\ Matched(f) => Matched(r)
  <2>1. SavedEntire(e) \in BOOLEAN /\ SavedEntire(e) = Dead(e)
    BY DEF SavedEntire, Dead
  <2> QED
    BY <1>3, <2>1, LeaveType DEF Step
<1> HIDE DEF r
<1>5. BaseInv'
  BY <1>1, <1>4 DEF IInv, BaseInv
<1>6. ASSUME Restricted PROVE FlagInv'
  <2>1. Dead(e) => Dead(f) /\ f.use = enc.use
    BY <1>2, <1>3, <1>6 DEF Step
  <2>2. FlagsOK(r) /\ Matched(r) /\ (Dead(e) => Dead(r))
    BY <1>2, <1>3, <1>4, <1>6, <2>1 DEF Step, IInv, FlagInv, FlagsOK, Dead
  <2>3. Fresh(r)
    <3> SUFFICES ASSUME NEW m \in Labels, m > r.next
                 PROVE  r.use[m] = 0
      BY DEF Fresh
    <3>1. r.next = e.next /\ e.next \in Nat /\ l \in Nat /\ l <= e.next /\ m \in Nat
      BY <1>2, <1>3, <1>4, <1>6, LabelsFact DEF Step, Encoder
    <3>2. m # l
      BY <3>1
    <3> QED
      BY <1>2, <1>3, <1>4, <1>6, <3>1, <3>2 DEF Step, Fresh
  <2>4. (\E i \in DOMAIN frames : frames[i].block) => Dead(e)
    BY <1>6 DEF IInv, FlagInv, Nested, Dead
  <2>5. r.next = e.next
    BY <1>2, <1>3, <1>4 DEF Step
  <2> QED
    BY <1>1, <1>4, <1>6, <2>1, <2>2, <2>3, <2>4, <2>5, FramesKept
<1> QED
  BY <1>5, <1>6 DEF IInv, Restricted

LEMMA SimpleKeeps ==
  ASSUME IInv, NEW op \in Ops, NEW e \in Encoder, NEW l \in Target,
         op = "jump" => l # NoLabel,
         e.exec = enc.exec, e.use = enc.use, enc.next <= e.next,
         Restricted => Fresh(e) /\ Matched(e) /\ l <= e.next,
         Simple(e, op, l),
         sym' \in [UserLabels -> SymEntry],
         Restricted => \A u \in UserLabels : sym'[u].label <= e.next
  PROVE  IInv'
<1> DEFINE f == Assemble(Enter(e), op, l)
<1>1. Step(Enter(e), f, {l}, {})
  BY EnterType, AssembleStep
<1>2. enc' = Leave(f, SavedEntire(e)) /\ UNCHANGED <<frames, ended>>
  BY DEF Simple
<1> HIDE DEF f
<1> QED
  BY <1>1, <1>2, StatementKeeps

-----------------------------------------------------------------------------
(* Opening a statement.                                                    *)

FrameIs(g, kind, top, exit, cont) ==
  /\ g \in Frame
  /\ g.kind = kind /\ g.top = top /\ g.exit = exit /\ g.cont = cont
  /\ g.stmt = SavedEntire(enc) /\ g.mark = FALSE /\ g.hush = FALSE
  /\ FrameLabels(g) = {top, exit, cont}

Kinds == {"block", "if", "else", "while", "do", "for", "switch"}

LEMMA NewFrameOK ==
  ASSUME NEW kind \in Kinds, NEW top \in Target, NEW exit \in Target, NEW cont \in Target
  PROVE  FrameIs(NewFrame(kind, top, exit, cont), kind, top, exit, cont)
BY DEF FrameIs, Kinds, NewFrame, Frame, FrameLabels, SavedEntire, Reachable

\* Where the calls before the block start, and the labels they are given.
LEMMA EnterAlloc ==
  ASSUME IInv, NEW n \in Nat, CanAlloc(enc, n)
  PROVE  /\ Enter(AllocLabels(enc, n)) \in Encoder
         /\ \A i \in 1 .. n : enc.next + i \in Labels /\ enc.next + i \in Target
BY AllocType, EnterType, LabelsFact DEF IInv, BaseInv

LEMMA OpenBlockKeeps ==
  ASSUME IInv, OpenBlock
  PROVE  IInv'
<1> DEFINE g == NewFrame("block", NoLabel, NoLabel, NoLabel)
<1>1. CanAlloc(enc, 0) /\ Open(Enter(enc), g)
  BY DEF OpenBlock, CanOpen
<1>2. AllocLabels(enc, 0) = enc
  BY DEF AllocLabels, IInv, BaseInv, Encoder
<1>3. Step(Enter(AllocLabels(enc, 0)), Enter(enc), {}, {})
  BY <1>2, StepRefl, EnterType DEF IInv, BaseInv
<1>4. FrameIs(g, "block", NoLabel, NoLabel, NoLabel)
  BY <1>2, NewFrameOK, LabelsFact DEF Kinds
<1> HIDE DEF g
<1> QED
  BY <1>1, <1>3, <1>4, OpenKeeps DEF FrameIs, ShapeOK

LEMMA OpenIfKeeps ==
  ASSUME IInv, NEW cond \in Conds, OpenIf(cond)
  PROVE  IInv'
<1> DEFINE l == enc.next + 1
           a == Enter(AllocLabels(enc, 1))
           b == BranchUnless(a, cond, l)
           e == NoWarnIf(b, Reachable(enc))
           g == NewFrame("if", l, NoLabel, NoLabel)
<1>1. CanAlloc(enc, 1) /\ Open(e, g)
  BY DEF OpenIf, CanOpen
<1>2. a \in Encoder /\ l \in Labels /\ l \in Target
  BY <1>1, EnterAlloc
<1>3. FrameIs(g, "if", l, NoLabel, NoLabel)
  BY <1>2, NewFrameOK, LabelsFact DEF Kinds
<1>4. Reachable(enc) \in BOOLEAN
  BY DEF Reachable
<1> HIDE DEF g
<1>5. Step(a, e, {l} \cup {}, {} \cup {})
  <2> HIDE DEF l, a
  <2>1. Step(a, b, {l}, {})
    BY <1>2, BranchUnlessStep
  <2> HIDE DEF b
  <2>2. Step(b, e, {}, {})
    BY <1>4, <2>1, NoWarnIfStep DEF Step
  <2> HIDE DEF e
  <2> QED
    BY <1>2, <2>1, <2>2, StepTrans
<1> HIDE DEF e
<1> QED
  BY <1>1, <1>2, <1>3, <1>5, OpenKeeps DEF FrameIs, ShapeOK

LEMMA OpenWhileKeeps ==
  ASSUME IInv, NEW cond \in Conds, OpenWhile(cond)
  PROVE  IInv'
<1> DEFINE top  == enc.next + 1
           exit == enc.next + 2
           a == Enter(AllocLabels(enc, 2))
           b == AssembleLabel(a, top)
           e == BranchUnless(b, cond, exit)
           g == NewFrame("while", top, exit, top)
<1>1. CanAlloc(enc, 2) /\ Open(e, g)
  BY DEF OpenWhile, CanOpen
<1>2. a \in Encoder /\ top \in Labels /\ top \in Target /\ exit \in Labels /\ exit \in Target
  BY <1>1, EnterAlloc
<1>3. FrameIs(g, "while", top, exit, top)
  BY <1>2, NewFrameOK, LabelsFact DEF Kinds
<1> HIDE DEF g
<1>4. Step(a, e, {} \cup {exit}, {top} \cup {})
  <2> HIDE DEF top, exit, a
  <2>1. Step(a, b, {}, {top})
    BY <1>2, AssembleLabelStep
  <2> HIDE DEF b
  <2>2. Step(b, e, {exit}, {})
    BY <1>2, <2>1, BranchUnlessStep DEF Step
  <2> HIDE DEF e
  <2> QED
    BY <1>2, <2>1, <2>2, StepTrans
<1> HIDE DEF e
<1> QED
  BY <1>1, <1>2, <1>3, <1>4, OpenKeeps DEF FrameIs, ShapeOK

LEMMA OpenDoKeeps ==
  ASSUME IInv, OpenDo
  PROVE  IInv'
<1> DEFINE top  == enc.next + 1
           cont == enc.next + 2
           exit == enc.next + 3
           a == Enter(AllocLabels(enc, 3))
           e == AssembleLabel(a, top)
           g == NewFrame("do", top, exit, cont)
<1>1. CanAlloc(enc, 3) /\ Open(e, g)
  BY DEF OpenDo, CanOpen
<1>2. /\ a \in Encoder /\ top \in Labels /\ top \in Target /\ exit \in Labels /\ exit \in Target
      /\ cont \in Labels /\ cont \in Target
  BY <1>1, EnterAlloc
<1>3. FrameIs(g, "do", top, exit, cont)
  BY <1>2, NewFrameOK, LabelsFact DEF Kinds
<1> HIDE DEF g
<1>4. Step(a, e, {}, {top})
  BY <1>2, AssembleLabelStep
<1> HIDE DEF e
<1> QED
  BY <1>1, <1>2, <1>3, <1>4, OpenKeeps DEF FrameIs, ShapeOK

LEMMA OpenSwitchKeeps ==
  ASSUME IInv, OpenSwitch
  PROVE  IInv'
<1> DEFINE exit == enc.next + 1
           a == Enter(AllocLabels(enc, 1))
           e == Assemble(a, "plain", NoLabel)
           g == NewFrame("switch", NoLabel, exit, NoLabel)
<1>1. CanAlloc(enc, 1) /\ Open(e, g)
  BY DEF OpenSwitch, CanOpen
<1>2. a \in Encoder /\ exit \in Labels /\ exit \in Target
  BY <1>1, EnterAlloc
<1>3. FrameIs(g, "switch", NoLabel, exit, NoLabel)
  BY <1>2, NewFrameOK, LabelsFact DEF Kinds
<1> HIDE DEF g
<1>4. Step(a, e, {NoLabel}, {})
  BY <1>2, AssembleStep, LabelsFact DEF Ops
<1> HIDE DEF e
<1> QED
  BY <1>1, <1>2, <1>3, <1>4, OpenKeeps DEF FrameIs, ShapeOK

LEMMA OpenForKeeps ==
  ASSUME IInv, NEW u \in Updates, NEW cond \in Conds, OpenFor(u, cond)
  PROVE  IInv'
<1> DEFINE ln  == enc.next + 1
           ln2 == enc.next + 2
           ln3 == enc.next + 3
           a == Enter(AllocLabels(enc, 3))
           b == AssembleLabel(a, ln)
           c == AssembleLabel(b, ln2)
           p == Assemble(a, "jump", ln2)
           q == AssembleLabel(p, ln)
           r == Assemble(q, "plain", NoLabel)
           s == AssembleLabel(r, ln2)
           top == CASE u = "none"   -> c
                    [] u = "incdec" -> b
                    [] u = "other"  -> s
           e == BranchUnless(top, cond, ln3)
           h == NewFrame("for", ln, ln3, IF u = "incdec" THEN ln2 ELSE ln)
           g == [h EXCEPT !.mark = u = "incdec"]
<1>1. CanAlloc(enc, 3) /\ Open(e, g)
  BY DEF OpenFor, CanOpen
<1>2. /\ a \in Encoder /\ ln \in Labels /\ ln \in Target /\ ln2 \in Labels /\ ln2 \in Target
      /\ ln3 \in Labels /\ ln3 \in Target
  BY <1>1, EnterAlloc
<1>3. FrameIs(h, "for", ln, ln3, IF u = "incdec" THEN ln2 ELSE ln)
  <2>1. (IF u = "incdec" THEN ln2 ELSE ln) \in Target
    BY <1>2
  <2> QED
    BY <1>2, <2>1, NewFrameOK DEF Kinds
<1> HIDE DEF h
<1>4. /\ g \in Frame /\ ShapeOK(g) /\ g.stmt = SavedEntire(enc)
      /\ FrameLabels(g) \subseteq {ln, ln2, ln3}
  <2>1. /\ g \in Frame /\ g.kind = "for" /\ g.stmt = h.stmt /\ g.top = h.top
        /\ g.exit = h.exit /\ g.cont = h.cont
    BY <1>3 DEF FrameIs, Frame
  <2> HIDE DEF g, ln, ln2, ln3
  <2> QED
    BY <1>2, <1>3, <2>1 DEF FrameIs, ShapeOK, FrameLabels
<1> HIDE DEF g
<1>5. Step(a, top, {ln2, NoLabel}, {ln, ln2})
  <2> HIDE DEF ln, ln2, ln3, a
  <2>1. Step(a, b, {}, {ln}) /\ b \in Encoder
    BY <1>2, AssembleLabelStep DEF Step
  <2>2. Step(b, c, {}, {ln2})
    <3> HIDE DEF b
    <3> QED BY <1>2, <2>1, AssembleLabelStep
  <2>3. Step(a, p, {ln2}, {}) /\ p \in Encoder
    BY <1>2, AssembleStep, LabelsFact DEF Step, Ops
  <2>4. Step(p, q, {}, {ln}) /\ q \in Encoder
    <3> HIDE DEF p
    <3> QED BY <1>2, <2>3, AssembleLabelStep DEF Step
  <2>5. Step(q, r, {NoLabel}, {}) /\ r \in Encoder
    <3> HIDE DEF q
    <3> QED BY <1>2, <2>4, AssembleStep, LabelsFact DEF Step, Ops
  <2>6. Step(r, s, {}, {ln2})
    <3> HIDE DEF r
    <3> QED BY <1>2, <2>5, AssembleLabelStep
  <2> HIDE DEF b, c, p, q, r, s
  <2>7. CASE u = "none"
    <3>1. top = c
      BY <2>7
    <3>2. Step(a, c, {} \cup {}, {ln} \cup {ln2})
      BY <1>2, <2>1, <2>2, StepTrans
    <3> QED BY <3>1, <3>2 DEF Step
  <2>8. CASE u = "incdec"
    <3>1. top = b
      BY <2>8
    <3> QED BY <2>1, <3>1 DEF Step
  <2>9. CASE u = "other"
    <3>1. top = s
      BY <2>9
    <3>2. Step(a, q, {ln2} \cup {}, {} \cup {ln})
      BY <1>2, <2>3, <2>4, StepTrans
    <3>3. Step(q, s, {NoLabel} \cup {}, {} \cup {ln2})
      BY <2>4, <2>5, <2>6, StepTrans
    <3>4. Step(a, s, ({ln2} \cup {}) \cup ({NoLabel} \cup {}), ({} \cup {ln}) \cup ({} \cup {ln2}))
      BY <1>2, <3>2, <3>3, StepTrans
    <3> QED BY <3>1, <3>4 DEF Step
  <2> QED
    BY <2>7, <2>8, <2>9 DEF Updates
<1> HIDE DEF top
<1>6. Step(top, e, {ln3}, {})
  BY <1>2, <1>5, BranchUnlessStep DEF Step
<1> HIDE DEF e
<1>7. Step(a, e, {ln2, NoLabel} \cup {ln3}, {ln, ln2} \cup {})
  <2> HIDE DEF a, ln, ln2, ln3
  <2> QED BY <1>2, <1>5, <1>6, StepTrans
<1>8. ({ln2, NoLabel} \cup {ln3}) \cup ({ln, ln2} \cup {}) \cup FrameLabels(g)
        \subseteq {NoLabel} \cup {enc.next + i : i \in 1 .. 3}
  BY <1>4
<1> HIDE DEF a, ln, ln2, ln3
<1> QED
  BY <1>1, <1>4, <1>7, <1>8, OpenKeeps DEF a

-----------------------------------------------------------------------------
(* Closing a statement.                                                    *)

LEMMA ClosingFrame ==
  ASSUME IInv, NEW kind, CanClose(kind)
  PROVE  /\ frames # <<>> /\ Top \in Frame /\ ShapeOK(Top) /\ Top.kind = kind
         /\ Top.top \in Target /\ Top.exit \in Target /\ Top.cont \in Target
         /\ FrameLabels(Top) = {Top.top, Top.exit, Top.cont}
         /\ Leave(enc, Top.block) \in Encoder
<1>1. frames # <<>> /\ Top \in GoodFrame /\ Top.kind = kind
  BY PopFacts DEF IInv, BaseInv, CanClose
<1>2. Leave(enc, Top.block) \in Encoder
  BY <1>1, BlockLeft
<1> QED
  BY <1>1, <1>2 DEF GoodFrame, Frame, FrameLabels

LEMMA CloseBlockKeeps ==
  ASSUME IInv, CloseBlock
  PROVE  IInv'
<1>1. CanClose("block") /\ Close(Leave(enc, Top.block))
  BY DEF CloseBlock
<1>2. Step(Leave(enc, Top.block), Leave(enc, Top.block), {}, {}) /\ frames # <<>>
  BY <1>1, ClosingFrame, StepRefl
<1> QED
  BY <1>1, <1>2, CloseKeeps

LEMMA CloseIfKeeps ==
  ASSUME IInv, CloseIf
  PROVE  IInv'
<1> DEFINE x == Leave(enc, Top.block)
           f == AssembleForwardLabel(x, Top.top)
           e == NoWarnIf(f, ~Top.pre)
<1>1. CanClose("if") /\ Close(e)
  BY DEF CloseIf
<1>2. x \in Encoder /\ frames # <<>> /\ Top.top \in Labels /\ Top.top \in FrameLabels(Top)
  BY <1>1, ClosingFrame DEF ShapeOK
<1>3. Step(x, e, {}, {Top.top})
  <2> HIDE DEF x
  <2>1. Step(x, f, {}, {Top.top}) /\ f \in Encoder
    BY <1>2, AssembleForwardLabelStep DEF Step
  <2> HIDE DEF f
  <2>2. Step(f, e, {}, {})
    BY <2>1, NoWarnIfStep
  <2> HIDE DEF e
  <2>3. Step(x, e, {} \cup {}, {Top.top} \cup {})
    BY <1>2, <2>1, <2>2, StepTrans
  <2> QED BY <2>3 DEF Step
<1> HIDE DEF e
<1> QED
  BY <1>1, <1>2, <1>3, CloseKeeps

LEMMA CloseElseKeeps ==
  ASSUME IInv, CloseElse
  PROVE  IInv'
<1> DEFINE x == Leave(enc, Top.block)
           w == [x EXCEPT !.exec = @ \ {"NOWARN"}]
           y == IF Reachable(x) \/ Top.mark THEN x ELSE IF Top.hush THEN NoWarn(x) ELSE w
           e == AssembleForwardLabel(y, Top.exit)
<1>1. CanClose("else") /\ Close(e)
  BY DEF CloseElse
<1>2. x \in Encoder /\ frames # <<>> /\ Top.exit \in Labels /\ Top.exit \in FrameLabels(Top)
  BY <1>1, ClosingFrame DEF ShapeOK
<1>3. Step(x, y, {}, {})
  <2> HIDE DEF x
  <2>1. Step(x, x, {}, {})
    BY <1>2, StepRefl
  <2>2. Step(x, NoWarnIf(x, TRUE), {}, {})
    BY <1>2, NoWarnIfStep
  <2>3. /\ w \in Encoder /\ w.next = x.next /\ w.use = x.use
        /\ w.exec = x.exec \ {"NOWARN"}
        /\ w.code = x.code /\ w.source = x.source /\ w.offset = x.offset /\ w.place = x.place
    BY <1>2 DEF Encoder, Flags
  <2> HIDE DEF w
  <2>4. Step(x, w, {}, {})
    <3>1. Matched(x) => Matched(w)
      BY <2>3, QuietMatched DEF Reachable
    <3> QED BY <2>3, <3>1 DEF Step, FlagsOK, Dead
  <2> QED
    BY <2>1, <2>2, <2>4 DEF NoWarnIf
<1> HIDE DEF y
<1>4. Step(y, e, {}, {Top.exit})
  BY <1>2, <1>3, AssembleForwardLabelStep DEF Step
<1> HIDE DEF x, e
<1>5. Step(x, e, {} \cup {}, {} \cup {Top.exit})
  BY <1>2, <1>3, <1>4, StepTrans
<1> QED
  BY <1>1, <1>2, <1>5, CloseKeeps DEF x

LEMMA CloseWhileKeeps ==
  ASSUME IInv, CloseWhile
  PROVE  IInv'
<1> DEFINE x == Leave(enc, Top.block)
           y == JumpIfReached(x, Top.top)
           e == AssembleForwardLabel(y, Top.exit)
<1>1. CanClose("while") /\ Close(e)
  BY DEF CloseWhile
<1>2. /\ x \in Encoder /\ frames # <<>> /\ Top.top \in Labels /\ Top.exit \in Labels
      /\ Top.top \in Target
      /\ {Top.top, Top.exit} \subseteq FrameLabels(Top)
  BY <1>1, ClosingFrame DEF ShapeOK
<1> HIDE DEF x
<1>3. Step(x, y, {Top.top}, {})
  BY <1>2, JumpIfReachedStep
<1> HIDE DEF y
<1>4. Step(y, e, {}, {Top.exit})
  BY <1>2, <1>3, AssembleForwardLabelStep DEF Step
<1> HIDE DEF e
<1>5. Step(x, e, {Top.top} \cup {}, {} \cup {Top.exit})
  BY <1>2, <1>3, <1>4, StepTrans
<1> QED
  BY <1>1, <1>2, <1>5, CloseKeeps DEF x

LEMMA CloseDoKeeps ==
  ASSUME IInv, NEW cond \in Conds, CloseDo(cond)
  PROVE  IInv'
<1> DEFINE x == Leave(enc, Top.block)
           y == AssembleForwardLabel(x, Top.cont)
           z == BranchUnless(y, cond, Top.top)
           e == AssembleForwardLabel(z, Top.exit)
<1>1. CanClose("do") /\ Close(e)
  BY DEF CloseDo
<1>2. /\ x \in Encoder /\ frames # <<>>
      /\ Top.top \in Labels /\ Top.exit \in Labels /\ Top.cont \in Labels
      /\ Top.top \in Target
      /\ {Top.top, Top.exit, Top.cont} \subseteq FrameLabels(Top)
  BY <1>1, ClosingFrame DEF ShapeOK
<1> HIDE DEF x
<1>3. Step(x, y, {}, {Top.cont})
  BY <1>2, AssembleForwardLabelStep
<1> HIDE DEF y
<1>4. Step(y, z, {Top.top}, {})
  BY <1>2, <1>3, BranchUnlessStep DEF Step
<1> HIDE DEF z
<1>5. Step(z, e, {}, {Top.exit})
  BY <1>2, <1>4, AssembleForwardLabelStep DEF Step
<1> HIDE DEF e
<1>6. Step(y, e, {Top.top} \cup {}, {} \cup {Top.exit})
  BY <1>3, <1>4, <1>5, StepTrans DEF Step
<1>7. Step(x, e, {} \cup ({Top.top} \cup {}), {Top.cont} \cup ({} \cup {Top.exit}))
  BY <1>2, <1>3, <1>6, StepTrans
<1> QED
  BY <1>1, <1>2, <1>7, CloseKeeps DEF x

LEMMA CloseForKeeps ==
  ASSUME IInv, CloseFor
  PROVE  IInv'
<1> DEFINE x == Leave(enc, Top.block)
           a == AssembleLabel(x, Top.cont)
           b == Assemble(a, "plain", NoLabel)
           c == Assemble(b, "jump", Top.top)
           j == JumpIfReached(x, Top.top)
           y == IF Top.mark THEN c ELSE j
           e == AssembleForwardLabel(y, Top.exit)
<1>1. CanClose("for") /\ Close(e)
  BY DEF CloseFor
<1>2. /\ x \in Encoder /\ frames # <<>>
      /\ Top.top \in Labels /\ Top.exit \in Labels /\ Top.cont \in Labels
      /\ Top.top \in Target
      /\ {Top.top, Top.exit, Top.cont} \subseteq FrameLabels(Top)
  BY <1>1, ClosingFrame DEF ShapeOK
<1> HIDE DEF x
<1>3. Step(x, a, {}, {Top.cont}) /\ a \in Encoder
  BY <1>2, AssembleLabelStep DEF Step
<1> HIDE DEF a
<1>4. Step(a, b, {NoLabel}, {}) /\ b \in Encoder
  BY <1>3, AssembleStep, LabelsFact DEF Step, Ops
<1> HIDE DEF b
<1>5. Step(b, c, {Top.top}, {})
  BY <1>2, <1>4, AssembleStep, LabelsFact DEF Ops
<1> HIDE DEF c
<1>6. Step(x, j, {Top.top}, {})
  BY <1>2, JumpIfReachedStep
<1> HIDE DEF j
<1>7. Step(x, y, {NoLabel, Top.top}, {Top.cont}) /\ y \in Encoder
  <2>1. Step(a, c, {NoLabel} \cup {Top.top}, {} \cup {})
    BY <1>3, <1>4, <1>5, StepTrans
  <2>2. Step(x, c, {} \cup ({NoLabel} \cup {Top.top}), {Top.cont} \cup ({} \cup {}))
    BY <1>2, <1>3, <2>1, StepTrans
  <2> QED
    BY <1>6, <2>2 DEF Step
<1> HIDE DEF y
<1>8. Step(y, e, {}, {Top.exit})
  BY <1>2, <1>7, AssembleForwardLabelStep
<1> HIDE DEF e
<1>9. Step(x, e, {Top.top}, {Top.cont, Top.exit})
  <2>1. Step(x, e, {NoLabel, Top.top} \cup {}, {Top.cont} \cup {Top.exit})
    BY <1>2, <1>7, <1>8, StepTrans
  <2> QED
    BY <2>1, LabelsFact DEF Step
<1> QED
  BY <1>1, <1>2, <1>9, CloseKeeps DEF x

LEMMA CloseSwitchKeeps ==
  ASSUME IInv, CloseSwitch
  PROVE  IInv'
<1> DEFINE y == IF Top.hush /\ ~Top.mark THEN AssembleLabel(enc, Top.top) ELSE enc
           x == Leave(y, Top.block)
           e == AssembleForwardLabel(x, Top.exit)
<1>1. CanClose("switch") /\ Close(e)
  BY DEF CloseSwitch
<1>2. /\ frames # <<>> /\ Top \in GoodFrame /\ Len(frames) \in DOMAIN frames
      /\ Top = frames[Len(frames)]
  BY <1>1, PopFacts DEF CanClose, IInv, BaseInv, Top
<1>3. /\ Top.exit \in Labels /\ Top.exit \in FrameLabels(Top) /\ Top.top \in FrameLabels(Top)
      /\ Top.hush /\ ~Top.mark => Top.top \in Labels
      /\ Top.block \in BOOLEAN /\ Top.stmt \in BOOLEAN
  BY <1>1, <1>2 DEF CanClose, GoodFrame, Frame, ShapeOK, FrameLabels
<1>4. enc \in Encoder
  BY DEF IInv, BaseInv
<1>5. Step(enc, y, {}, IF Top.hush /\ ~Top.mark THEN {Top.top} ELSE {}) /\ y \in Encoder
  BY <1>3, <1>4, AssembleLabelStep, StepRefl DEF Step
<1> HIDE DEF y
<1>6. /\ x \in Encoder /\ x.next = y.next /\ x.use = y.use
      /\ Top.block => Dead(x)
      /\ FlagsOK(y) /\ (Top.block => Dead(y)) => FlagsOK(x)
      /\ (Top.block => Dead(y)) /\ Matched(y) => Matched(x)
  BY <1>3, <1>5, LeaveType DEF Dead
<1> HIDE DEF x
<1>7. Step(x, e, {}, {Top.exit}) /\ e \in Encoder
  BY <1>3, <1>6, AssembleForwardLabelStep DEF Step
<1> HIDE DEF e
<1>8. BaseInv'
  <2>1. enc' \in Encoder
    BY <1>1, <1>3, <1>7, LeaveType DEF Close
  <2>2. Pop \in Seq(GoodFrame)
    BY <1>2, PopFacts DEF IInv, BaseInv
  <2> QED
    BY <1>1, <2>1, <2>2 DEF Close, IInv, BaseInv
<1>9. ASSUME Restricted PROVE FlagInv'
  <2>1. /\ Fresh(enc) /\ FlagsOK(enc) /\ Matched(enc)
        /\ Top.block => Dead(enc) /\ \A m \in FrameLabels(Top) \cap Labels : enc.use[m] = 0
    BY <1>2, <1>9 DEF IInv, FlagInv, Nested
  <2>2. FlagsOK(y) /\ Matched(y) /\ (Top.block => Dead(y) /\ y.use = enc.use)
    BY <1>3, <1>5, <1>9, <2>1 DEF Step
  <2>3. FlagsOK(e) /\ Matched(e) /\ (Top.block => Dead(e) /\ e.use = enc.use)
    BY <1>3, <1>6, <1>7, <1>9, <2>1, <2>2 DEF Step
  <2>4. e.next = enc.next /\ \A m \in Labels : e.use[m] = enc.use[m]
    BY <1>5, <1>6, <1>7 DEF Step
  <2>5. Fresh(e)
    BY <2>1, <2>4 DEF Fresh
  <2>6. enc' = Leave(e, Top.stmt) /\ frames' = Pop /\ sym' = sym
    BY <1>1 DEF Close
  <2> QED
    BY <1>2, <1>7, <1>9, <2>3, <2>4, <2>5, <2>6, FramePopped
<1> QED
  BY <1>8, <1>9 DEF IInv, Restricted

-----------------------------------------------------------------------------
(* Going from one clause of a statement to the next: n labels are          *)
(* allocated, the calls take x to e, and frame g replaces the top one.     *)

LEMMA ClauseKeeps ==
  ASSUME IInv, frames # <<>>, NEW n \in Nat, CanAlloc(enc, n),
         NEW x \in Encoder, x.next = enc.next + n, x.use = enc.use,
         Restricted => FlagsOK(x) /\ Matched(x) /\ (Top.block => Dead(x)),
         NEW e, NEW L, NEW B, Step(x, e, L, B),
         NEW g \in GoodFrame,
         L \cup B \cup FrameLabels(g)
           \subseteq FrameLabels(Top) \cup {enc.next + i : i \in 1 .. n},
         g.stmt = Top.stmt,
         Restricted => \/ g.block = Top.block
                       \/ g.block = Dead(e) /\ (Dead(x) => Top.block),
         enc' \in Encoder, enc'.next = e.next, enc'.use = e.use,
         FlagsOK(e) => FlagsOK(enc'), Dead(e) => Dead(enc'),
         Matched(e) => Matched(enc'),
         frames' = Append(Pop, g), UNCHANGED <<sym, ended>>
  PROVE  IInv'
<1> USE DEF IInv
<1> DEFINE k == Len(frames)
           new == {enc.next + i : i \in 1 .. n}
<1>1. /\ k \in Nat \ {0} /\ Top \in GoodFrame /\ Pop \in Seq(GoodFrame)
      /\ Len(Pop) = k - 1 /\ \A i \in 1 .. k - 1 : Pop[i] = frames[i]
  BY PopFacts DEF BaseInv
<1>2. frames' \in Seq(GoodFrame) /\ DOMAIN frames' = 1 .. k
      /\ frames'[k] = g /\ \A i \in 1 .. k - 1 : frames'[i] = frames[i]
  <2>1. /\ Append(Pop, g) \in Seq(GoodFrame) /\ Len(Append(Pop, g)) = Len(Pop) + 1
        /\ \A i \in 1 .. Len(Pop) : Append(Pop, g)[i] = Pop[i]
        /\ Append(Pop, g)[Len(Pop) + 1] = g
    BY <1>1, AppendProperties
  <2>2. Len(Pop) + 1 = k
    BY <1>1
  <2>3. DOMAIN Append(Pop, g) = 1 .. k
    BY <2>1, <2>2
  <2> HIDE DEF k
  <2> QED
    BY <1>1, <2>1, <2>2, <2>3
<1>3. BaseInv'
  BY <1>2 DEF BaseInv
<1>4. DOMAIN frames = 1 .. k /\ k \in DOMAIN frames /\ Top = frames[k]
  BY <1>1 DEF BaseInv, Top
<1> HIDE DEF k
<1>5. ASSUME Restricted PROVE FlagInv'
  <2>1. /\ Fresh(enc) /\ Allocated(enc, frames) /\ Nested(enc, frames)
        /\ enc.next \in Nat
        /\ \A u \in UserLabels : sym[u].label \in Nat /\ sym[u].label <= enc.next
    BY <1>5, LabelsInHand DEF FlagInv
  <2>2. /\ FlagsOK(e) /\ Matched(enc') /\ e.next = enc.next + n /\ (Dead(e) => Dead(x))
        /\ \A m \in Labels \ L : e.use[m] = enc.use[m]
    BY <1>5 DEF Step
  <2>3. /\ new \subseteq Labels
        /\ \A m \in new : enc.use[m] = 0 /\ m > enc.next /\ m <= enc.next + n
    <3>1. new \subseteq Labels
      BY AllocType DEF BaseInv
    <3>2. \A m \in new : m > enc.next /\ m <= enc.next + n
      BY <2>1
    <3> QED
      BY <2>1, <3>1, <3>2 DEF Fresh
  <2>4. \A m \in FrameLabels(Top) : m \in Nat /\ m <= enc.next
    BY <1>4, <2>1, LabelsInHand DEF Allocated
  <2> HIDE DEF new
  <2>5. ASSUME Top.block
        PROVE  /\ Dead(e) /\ e.use = enc.use
               /\ \A m \in FrameLabels(g) \cap Labels : e.use[m] = 0
    <3>1. \A m \in FrameLabels(Top) \cap Labels : enc.use[m] = 0
      BY <1>4, <2>1, <2>5 DEF Nested
    <3>2. B \cup FrameLabels(g) \subseteq FrameLabels(Top) \cup new
      BY DEF new
    <3>3. \A m \in (B \cup FrameLabels(g)) \cap Labels : enc.use[m] = 0
      BY <2>3, <3>1, <3>2
    <3>4. Dead(e) /\ e.use = enc.use
      BY <1>5, <2>5, <3>3 DEF Step
    <3> QED
      BY <3>3, <3>4
  <2>6. g.block => Top.block
    BY <1>5, <2>2
  <2>7. Fresh(enc')
    <3> SUFFICES ASSUME NEW m \in Labels, m > enc'.next
                 PROVE  enc'.use[m] = 0
      BY DEF Fresh
    <3>1. m > enc.next + n /\ m > enc.next /\ m \in Nat
      BY <2>1, <2>2, LabelsFact
    <3>2. L \subseteq FrameLabels(Top) \cup new
      BY DEF new
    <3>3. m \notin L
      BY <2>1, <2>3, <2>4, <3>1, <3>2
    <3> QED
      BY <2>1, <2>2, <3>1, <3>3 DEF Fresh
  <2>8. Allocated(enc', frames')
    <3>1. \A m \in FrameLabels(g) : m <= enc.next + n
      <4>1. FrameLabels(g) \subseteq FrameLabels(Top) \cup new
        BY DEF new
      <4> QED BY <2>1, <2>3, <2>4, <4>1
    <3>2. \A i \in DOMAIN frames : \A m \in FrameLabels(frames[i]) : m \in Nat /\ m <= enc.next
      BY <2>1, LabelsInHand DEF Allocated
    <3> QED
      BY <1>1, <1>2, <1>4, <2>1, <2>2, <3>1, <3>2 DEF Allocated
  <2>9. Nested(enc', frames')
    <3>1. Top.stmt => Top.block
      BY <1>4, <2>1 DEF Nested
    <3>2. g.stmt => g.block
      BY <1>5, <2>5, <3>1
    <3>3. ASSUME NEW i \in 1 .. k - 1, frames[i].block
          PROVE  /\ g.stmt /\ Dead(enc')
                 /\ \A m \in FrameLabels(frames[i]) \cap Labels : enc'.use[m] = 0
      <4>1. i \in DOMAIN frames /\ i < k
        BY <1>1, <1>4
      <4>2. Top.stmt /\ \A m \in FrameLabels(frames[i]) \cap Labels : enc.use[m] = 0
        BY <1>4, <2>1, <3>3, <4>1 DEF Nested
      <4> QED
        BY <2>5, <3>1, <4>2
    <3>4. g.block => /\ Dead(enc')
                     /\ \A m \in FrameLabels(g) \cap Labels : enc'.use[m] = 0
      BY <2>5, <2>6
    <3>5. /\ \A i \in 1 .. k - 1 : frames[i].stmt => frames[i].block
          /\ \A i, j \in 1 .. k - 1 : i < j /\ frames[i].block => frames[j].stmt
      <4>1. \A i \in 1 .. k - 1 : i \in DOMAIN frames
        BY <1>1, <1>4
      <4> QED BY <2>1, <4>1 DEF Nested
    <3>6. \A i \in 1 .. k : i \in 1 .. k - 1 \/ i = k
      BY <1>1
    <3>7. \A i \in DOMAIN frames' : frames'[i].stmt => frames'[i].block
      BY <1>2, <3>2, <3>5, <3>6
    <3>8. \A i, j \in DOMAIN frames' : i < j /\ frames'[i].block => frames'[j].stmt
      <4> SUFFICES ASSUME NEW i \in 1 .. k, NEW j \in 1 .. k, i < j, frames'[i].block
                   PROVE  frames'[j].stmt
        BY <1>2
      <4>1. i \in 1 .. k - 1 /\ frames[i].block
        BY <1>1, <1>2
      <4> QED
        BY <1>2, <3>3, <3>5, <3>6, <4>1
    <3>9. ASSUME NEW i \in DOMAIN frames', frames'[i].block
          PROVE  /\ Dead(enc')
                 /\ \A m \in FrameLabels(frames'[i]) \cap Labels : enc'.use[m] = 0
      BY <1>2, <3>3, <3>4, <3>6, <3>9
    <3> QED
      BY <3>7, <3>8, <3>9 DEF Nested
  <2>10. \A u \in UserLabels : sym'[u].label <= enc'.next
    BY <2>1, <2>2
  <2> QED
    BY <2>2, <2>7, <2>8, <2>9, <2>10 DEF FlagInv
<1> QED
  BY <1>3, <1>5 DEF Restricted

\* With n labels allocated, nothing else of the encoder has changed.
LEMMA AllocOnly ==
  ASSUME IInv, NEW n \in Nat, CanAlloc(enc, n), NEW a, a = AllocLabels(enc, n)
  PROVE  /\ a \in Encoder /\ a.next = enc.next + n /\ a.use = enc.use /\ a.exec = enc.exec
         /\ \A i \in 1 .. n : enc.next + i \in Labels
         /\ Restricted => Fresh(a) /\ Matched(a)
<1>1. /\ a \in Encoder /\ a.next = enc.next + n /\ a.use = enc.use /\ a.exec = enc.exec
      /\ \A i \in 1 .. n : enc.next + i \in Labels
      /\ Matched(enc) => Matched(a)
  BY AllocType DEF IInv, BaseInv
<1>2. ASSUME Restricted PROVE Fresh(a) /\ Matched(a)
  <2>0. Matched(a)
    BY <1>1, <1>2 DEF IInv, FlagInv
  <2> SUFFICES ASSUME NEW m \in Labels, m > a.next
               PROVE  a.use[m] = 0
    BY <2>0 DEF Fresh
  <2>1. m > enc.next
    BY <1>1, LabelsInHand, LabelsFact DEF IInv
  <2> QED
    BY <1>1, <1>2, <2>1 DEF IInv, FlagInv, Fresh
<1> QED
  BY <1>1, <1>2

LEMMA AllocOne ==
  ASSUME IInv, CanAlloc(enc, 1)
  PROVE  /\ AllocLabels(enc, 1) \in Encoder
         /\ AllocLabels(enc, 1).next = enc.next + 1
         /\ AllocLabels(enc, 1).use = enc.use
         /\ AllocLabels(enc, 1).exec = enc.exec
         /\ enc.next + 1 \in Labels /\ enc.next + 1 \in Target
         /\ Restricted => Fresh(AllocLabels(enc, 1)) /\ Matched(AllocLabels(enc, 1))
<1> DEFINE a == AllocLabels(enc, 1)
<1>1. /\ a \in Encoder /\ a.next = enc.next + 1 /\ a.use = enc.use /\ a.exec = enc.exec
      /\ \A i \in 1 .. 1 : enc.next + i \in Labels
      /\ Restricted => Fresh(a) /\ Matched(a)
  BY AllocOnly
<1> HIDE DEF a
<1>2. enc.next + 1 \in Labels
  BY <1>1
<1> QED
  BY <1>1, <1>2, LabelsFact DEF a

\* What Nested says of the top frame.
LEMMA TopDead ==
  ASSUME IInv, Restricted, frames # <<>>
  PROVE  FlagsOK(enc) /\ Matched(enc) /\ (Top.block => Dead(enc))
<1>1. Top = frames[Len(frames)] /\ Len(frames) \in DOMAIN frames
  BY PopFacts DEF IInv, BaseInv, Top
<1> QED
  BY <1>1 DEF IInv, FlagInv, Nested

LEMMA ElseClauseKeeps ==
  ASSUME IInv, ElseClause
  PROVE  IInv'
<1> DEFINE l  == enc.next + 1
           a  == AllocLabels(enc, 1)
           x  == Leave(a, Top.block)
           e1 == JumpIfReached(x, l)
           exists == e1.use[Top.top] > 0
           e2 == AssembleForwardLabel(e1, Top.top)
           e3 == NoWarnIf(e2, ~exists)
           g  == [Top EXCEPT !.kind = "else", !.exit = l, !.block = SavedEntire(e3),
                             !.mark = exists, !.hush = "NOWARN" \in e2.exec]
<1>1. /\ CanClose("if") /\ CanAlloc(enc, 1)
      /\ enc' = Enter(e3) /\ frames' = Append(Pop, g) /\ UNCHANGED <<sym, ended>>
  BY DEF ElseClause
<1>2. /\ frames # <<>> /\ Top \in Frame /\ Top.top \in Labels
      /\ Top.stmt \in BOOLEAN /\ Top.block \in BOOLEAN
      /\ FrameLabels(Top) = {Top.top, Top.exit, Top.cont}
  BY <1>1, ClosingFrame DEF Frame, ShapeOK
<1>3. /\ a \in Encoder /\ a.next = enc.next + 1 /\ a.use = enc.use /\ a.exec = enc.exec
      /\ l \in Labels /\ l \in Target
      /\ Restricted => Matched(a)
  BY <1>1, AllocOne
<1> HIDE DEF a
<1>4. /\ x \in Encoder /\ x.next = enc.next + 1 /\ x.use = enc.use
      /\ Dead(x) <=> Top.block
      /\ FlagsOK(a) /\ (Top.block => Dead(a)) => FlagsOK(x)
      /\ (Top.block => Dead(a)) /\ Matched(a) => Matched(x)
  BY <1>2, <1>3, LeaveType DEF Dead
<1> HIDE DEF x
<1>5. Restricted => FlagsOK(x) /\ Matched(x)
  BY <1>2, <1>3, <1>4, TopDead DEF FlagsOK, Dead
<1> HIDE DEF l
<1>6. Step(x, e1, {l}, {}) /\ e1 \in Encoder
  BY <1>3, <1>4, JumpIfReachedStep DEF Step
<1> HIDE DEF e1
<1>7. Step(e1, e2, {}, {Top.top}) /\ e2 \in Encoder
  BY <1>2, <1>6, AssembleForwardLabelStep DEF Step
<1> HIDE DEF e2
<1>8. exists \in BOOLEAN
  OBVIOUS
<1> HIDE DEF exists
<1>9. Step(e2, e3, {}, {}) /\ e3 \in Encoder
  BY <1>7, <1>8, NoWarnIfStep DEF Step
<1> HIDE DEF e3
<1>10. Step(x, e3, {l}, {Top.top})
  <2>1. Step(x, e2, {l} \cup {}, {} \cup {Top.top})
    BY <1>4, <1>6, <1>7, StepTrans
  <2>2. Step(x, e3, ({l} \cup {}) \cup {}, ({} \cup {Top.top}) \cup {})
    BY <1>4, <1>9, <2>1, StepTrans
  <2> QED
    BY <2>2 DEF Step
<1>11. SavedEntire(e3) \in BOOLEAN /\ SavedEntire(e3) = Dead(e3)
  BY DEF SavedEntire, Dead
<1>12. /\ g \in GoodFrame /\ g.stmt = Top.stmt /\ g.block = Dead(e3)
       /\ FrameLabels(g) = {Top.top, l, Top.cont}
  <2> DEFINE hush == "NOWARN" \in e2.exec
  <2>0. hush \in BOOLEAN
    OBVIOUS
  <2> HIDE DEF hush
  <2>1. /\ g \in Frame /\ g.kind = "else" /\ g.stmt = Top.stmt /\ g.block = SavedEntire(e3)
        /\ g.top = Top.top /\ g.exit = l /\ g.cont = Top.cont
    BY <1>2, <1>3, <1>8, <1>11, <2>0 DEF Frame, hush
  <2> HIDE DEF g
  <2> QED
    BY <1>3, <1>11, <2>1 DEF GoodFrame, ShapeOK, FrameLabels
<1> HIDE DEF g
<1>13. /\ enc' \in Encoder /\ enc'.next = e3.next /\ enc'.use = e3.use
       /\ FlagsOK(e3) => FlagsOK(enc')
       /\ Dead(e3) => Dead(enc')
       /\ Matched(e3) => Matched(enc')
  BY <1>1, <1>9, EnterType
<1>14. {l} \cup {Top.top} \cup FrameLabels(g)
         \subseteq FrameLabels(Top) \cup {enc.next + i : i \in 1 .. 1}
  BY <1>2, <1>12 DEF l
<1> QED
  BY <1>1, <1>2, <1>4, <1>5, <1>10, <1>12, <1>13, <1>14, ClauseKeeps

\* The end of the clause before.
LEMMA EndClauseStep ==
  ASSUME NEW e \in Encoder, NEW f \in GoodFrame, f.kind = "switch", ~f.mark
  PROVE  Step(e, EndClause(e, f), {f.exit}, {f.top})
<1> DEFINE j == JumpIfReached(e, f.exit)
           y == AssembleLabel(j, f.top)
<1>1. CASE f.hush
  <2>1. f.top \in Labels /\ f.exit \in Labels
    BY <1>1 DEF GoodFrame, Frame, ShapeOK
  <2>2. EndClause(e, f) = y
    BY <1>1 DEF EndClause
  <2>3. Step(e, j, {f.exit}, {}) /\ j \in Encoder
    BY <2>1, JumpIfReachedStep DEF Step
  <2> HIDE DEF j
  <2>4. Step(j, y, {}, {f.top})
    BY <2>1, <2>3, AssembleLabelStep
  <2> HIDE DEF y
  <2>5. Step(e, y, {f.exit} \cup {}, {} \cup {f.top})
    BY <2>3, <2>4, StepTrans
  <2> QED
    BY <2>2, <2>5
<1>2. CASE ~f.hush
  <2>1. EndClause(e, f) = e
    BY <1>2 DEF EndClause
  <2> QED
    BY <2>1 DEF Step
<1> QED
  BY <1>1, <1>2

LEMMA CaseClauseKeeps ==
  ASSUME IInv, CaseClause
  PROVE  IInv'
<1> DEFINE l == enc.next + 1
           a == AllocLabels(enc, 1)
           c == EndClause(a, Top)
           e == Assemble(c, "branch", l)
           g == [Top EXCEPT !.top = l, !.hush = TRUE]
<1>1. /\ frames # <<>> /\ Top.kind = "switch" /\ ~Top.mark /\ CanAlloc(enc, 1)
      /\ enc' = e /\ frames' = Append(Pop, g) /\ UNCHANGED <<sym, ended>>
  BY DEF CaseClause, InSwitch
<1>2. Top \in GoodFrame
  BY <1>1, PopFacts DEF IInv, BaseInv
<1>3. /\ a \in Encoder /\ a.next = enc.next + 1 /\ a.use = enc.use /\ a.exec = enc.exec
      /\ l \in Labels /\ l \in Target
      /\ Restricted => Matched(a)
  BY <1>1, AllocOne
<1> HIDE DEF a
<1>4. Restricted => FlagsOK(a) /\ Matched(a) /\ (Top.block => Dead(a))
  BY <1>1, <1>3, TopDead DEF FlagsOK, Dead
<1>5. Step(a, c, {Top.exit}, {Top.top}) /\ c \in Encoder
  BY <1>1, <1>2, <1>3, EndClauseStep DEF Step
<1> HIDE DEF c
<1> HIDE DEF l
<1>6. Step(c, e, {l}, {}) /\ e \in Encoder
  BY <1>3, <1>5, AssembleStep DEF Step, Ops
<1> HIDE DEF e
<1>7. Step(a, e, {Top.exit} \cup {l}, {Top.top} \cup {})
  BY <1>3, <1>5, <1>6, StepTrans
<1>8. /\ g \in GoodFrame /\ g.stmt = Top.stmt /\ g.block = Top.block
      /\ FrameLabels(g) = {l, Top.exit, Top.cont}
      /\ FrameLabels(Top) = {Top.top, Top.exit, Top.cont}
  <2>1. /\ g \in Frame /\ g.kind = Top.kind /\ g.stmt = Top.stmt /\ g.block = Top.block
        /\ g.top = l /\ g.exit = Top.exit /\ g.cont = Top.cont
    BY <1>2, <1>3 DEF GoodFrame, Frame
  <2> HIDE DEF g
  <2> QED
    BY <1>1, <1>2, <1>3, <2>1 DEF GoodFrame, ShapeOK, FrameLabels
<1> HIDE DEF g
<1>9. ({Top.exit} \cup {l}) \cup ({Top.top} \cup {}) \cup FrameLabels(g)
        \subseteq FrameLabels(Top) \cup {enc.next + i : i \in 1 .. 1}
  BY <1>8 DEF l
<1> QED
  BY <1>1, <1>3, <1>4, <1>6, <1>7, <1>8, <1>9, ClauseKeeps

LEMMA DefaultClauseKeeps ==
  ASSUME IInv, DefaultClause
  PROVE  IInv'
<1> DEFINE e == EndClause(enc, Top)
           g == [Top EXCEPT !.mark = TRUE, !.hush = TRUE]
<1>1. /\ frames # <<>> /\ Top.kind = "switch" /\ ~Top.mark
      /\ enc' = e /\ frames' = Append(Pop, g) /\ UNCHANGED <<sym, ended>>
  BY DEF DefaultClause, InSwitch
<1>2. Top \in GoodFrame /\ enc \in Encoder
  BY <1>1, PopFacts DEF IInv, BaseInv
<1>3. Restricted => FlagsOK(enc) /\ Matched(enc) /\ (Top.block => Dead(enc))
  BY <1>1, TopDead
<1>4. Step(enc, e, {Top.exit}, {Top.top}) /\ e \in Encoder
  BY <1>1, <1>2, EndClauseStep DEF Step
<1> HIDE DEF e
<1>5. /\ g \in GoodFrame /\ g.stmt = Top.stmt /\ g.block = Top.block
      /\ FrameLabels(g) = FrameLabels(Top)
      /\ {Top.exit, Top.top} \subseteq FrameLabels(Top)
  <2>1. /\ g \in Frame /\ g.kind = Top.kind /\ g.stmt = Top.stmt /\ g.block = Top.block
        /\ g.top = Top.top /\ g.exit = Top.exit /\ g.cont = Top.cont /\ g.mark = TRUE
    BY <1>2 DEF GoodFrame, Frame
  <2> HIDE DEF g
  <2> QED
    BY <1>1, <1>2, <2>1 DEF GoodFrame, ShapeOK, FrameLabels
<1> HIDE DEF g
<1>6. CanAlloc(enc, 0) /\ enc.next = enc.next + 0
  BY <1>2, BoundsAssumption DEF CanAlloc, Encoder, BoundsAssumption
<1> QED
  BY <1>1, <1>2, <1>3, <1>4, <1>5, <1>6, ClauseKeeps

-----------------------------------------------------------------------------
(* Statements without a block, and the end of the routine.                 *)

LEMMA SymKept ==
  ASSUME IInv
  PROVE  /\ enc \in Encoder /\ enc.next \in Nat
         /\ sym \in [UserLabels -> SymEntry]
         /\ Restricted => /\ Fresh(enc) /\ Matched(enc)
                          /\ \A u \in UserLabels : sym[u].label <= enc.next
                          /\ NoLabel <= enc.next
BY LabelsInHand DEF IInv, BaseInv, FlagInv, NoLabel

LEMMA PlainStatementKeeps ==
  ASSUME IInv, PlainStatement
  PROVE  IInv'
<1>1. PICK op \in {"plain", "return"} : Simple(enc, op, NoLabel)
  BY DEF PlainStatement
<1>2. op \in Ops /\ sym' = sym
  BY DEF Ops, PlainStatement
<1> QED
  BY <1>1, <1>2, SymKept, LabelsFact, SimpleKeeps

LEMMA JumpStatementKeeps ==
  ASSUME IInv, NEW u \in UserLabels, JumpStatement(u)
  PROVE  IInv'
<1>1. "jump" \in Ops
  BY DEF Ops
<1>2. CASE sym[u].state # "unknown"
  <2>1. Simple(enc, "jump", sym[u].label) /\ sym' = sym
    BY <1>2 DEF JumpStatement
  <2>2. sym[u].label \in Target /\ sym[u].label # NoLabel
    <3>1. sym[u] \in SymEntry
      BY SymKept
    <3> QED BY <1>2, <3>1, LabelsFact DEF SymEntry
  <2> QED
    BY <1>1, <2>1, <2>2, SymKept, SimpleKeeps
<1>3. CASE sym[u].state = "unknown"
  <2> DEFINE l == enc.next + 1
             a == AllocLabels(enc, 1)
             entry == [label |-> l, state |-> "forward"]
  <2>1. /\ CanAlloc(enc, 1) /\ Simple(a, "jump", l)
        /\ sym' = [sym EXCEPT ![u] = entry]
    BY <1>3 DEF JumpStatement
  <2>2. /\ a \in Encoder /\ a.next = l /\ a.use = enc.use /\ a.exec = enc.exec
        /\ l \in Labels /\ l \in Target /\ l # NoLabel
        /\ Restricted => Fresh(a) /\ Matched(a)
    BY <2>1, AllocOne, LabelsFact
  <2> HIDE DEF a
  <2>3. entry \in SymEntry /\ entry.label = l
    BY <2>2 DEF SymEntry
  <2> HIDE DEF entry
  <2>4. sym' \in [UserLabels -> SymEntry]
    BY <2>1, <2>3, SymKept
  <2>5. enc.next <= a.next /\ l <= a.next
    BY <2>2, SymKept
  <2>6. Restricted => \A v \in UserLabels : sym'[v].label <= a.next
    BY <2>1, <2>2, <2>3, SymKept, LabelsInHand DEF IInv, BaseInv
  <2> QED
    BY <1>1, <2>1, <2>2, <2>4, <2>5, <2>6, SimpleKeeps
<1> QED
  BY <1>2, <1>3

LEMMA LeaveLoopKeeps ==
  ASSUME IInv, NEW i \in DOMAIN frames, NEW l \in {frames[i].exit, frames[i].cont},
         l \in Labels,
         Simple(enc, "jump", l), UNCHANGED sym
  PROVE  IInv'
<1>1. l \in Target /\ (Restricted => l <= enc.next)
  BY LabelsInHand DEF FrameLabels, IInv, FlagInv, Allocated
<1>2. "jump" \in Ops /\ l # NoLabel
  BY LabelsFact DEF Ops
<1> QED
  BY <1>1, <1>2, SymKept, SimpleKeeps

LEMMA BreakStatementKeeps ==
  ASSUME IInv, BreakStatement
  PROVE  IInv'
<1>1. PICK i \in DOMAIN frames :
        Innermost(i, BreakKinds) /\ Simple(enc, "jump", frames[i].exit)
  BY DEF BreakStatement
<1>2. frames[i] \in GoodFrame
  BY LabelsInHand DEF IInv
<1>3. frames[i].exit \in Labels
  BY <1>1, <1>2 DEF GoodFrame, ShapeOK, Innermost, BreakKinds
<1> QED
  BY <1>1, <1>3, LeaveLoopKeeps DEF BreakStatement

LEMMA ContinueStatementKeeps ==
  ASSUME IInv, ContinueStatement
  PROVE  IInv'
<1>1. PICK i \in DOMAIN frames :
        Innermost(i, ContinueKinds) /\ Simple(enc, "jump", frames[i].cont)
  BY DEF ContinueStatement
<1>2. frames[i] \in GoodFrame
  BY LabelsInHand DEF IInv
<1>3. frames[i].cont \in Labels
  BY <1>1, <1>2 DEF GoodFrame, ShapeOK, Innermost, ContinueKinds
<1> QED
  BY <1>1, <1>3, LeaveLoopKeeps DEF ContinueStatement

LEMMA IfReturnStatementKeeps ==
  ASSUME IInv, NEW cond \in Conds, IfReturnStatement(cond)
  PROVE  IInv'
<1> DEFINE a == Enter(enc)
           b == CASE cond = "expr"  -> Assemble(a, "branch", NoLabel)
                  [] cond = "true"  -> Assemble(a, "return", NoLabel)
                  [] cond = "false" -> a
           f == NoWarnIf(b, Reachable(enc))
<1>1. enc' = Leave(f, SavedEntire(enc)) /\ UNCHANGED <<frames, sym, ended>>
  BY DEF IfReturnStatement
<1>2. a \in Encoder
  BY EnterType, SymKept
<1>3. Reachable(enc) \in BOOLEAN
  BY DEF Reachable
<1>4. Step(a, f, {NoLabel}, {})
  <2> HIDE DEF a
  <2>1. Step(a, b, {NoLabel}, {}) /\ b \in Encoder
    <3>1. CASE cond = "expr"
      BY <1>2, <3>1, AssembleStep, LabelsFact DEF Step, Ops
    <3>2. CASE cond = "true"
      BY <1>2, <3>2, AssembleStep, LabelsFact DEF Step, Ops
    <3>3. CASE cond = "false"
      BY <1>2, <3>3 DEF Step
    <3> QED
      BY <3>1, <3>2, <3>3, BoundsAssumption DEF BoundsAssumption
  <2> HIDE DEF b
  <2>2. Step(b, f, {}, {})
    BY <1>3, <2>1, NoWarnIfStep
  <2> HIDE DEF f
  <2>3. Step(a, f, {NoLabel} \cup {}, {} \cup {})
    BY <1>2, <2>1, <2>2, StepTrans
  <2> QED
    BY <2>3 DEF Step
<1> HIDE DEF f
<1> QED
  BY <1>1, <1>4, SymKept, LabelsFact, StatementKeeps

LEMMA LabelStatementKeeps ==
  ASSUME IInv, NEW u \in UserLabels, LabelStatement(u)
  PROVE  IInv'
<1> DEFINE fresh == sym[u].state = "unknown"
           l     == IF fresh THEN enc.next + 1 ELSE sym[u].label
           e     == IF fresh THEN AllocLabels(enc, 1) ELSE enc
           f     == AssembleLabel(e, l)
           entry == [label |-> l, state |-> "defined"]
<1>1. /\ fresh => CanAlloc(enc, 1)
      /\ JumpIntoDead \/ ~InDeadBlock \/ Stripped(enc, l)
      /\ enc' = f /\ sym' = [sym EXCEPT ![u] = entry] /\ UNCHANGED <<frames, ended>>
  BY DEF LabelStatement
<1>2. /\ e \in Encoder /\ l \in Labels /\ e.use = enc.use /\ e.exec = enc.exec
      /\ enc.next <= e.next
      /\ Restricted => Fresh(e) /\ Matched(e) /\ l <= e.next
  <2>1. CASE fresh
    <3> DEFINE a == AllocLabels(enc, 1)
    <3>1. /\ a \in Encoder /\ enc.next + 1 \in Labels /\ a.next = enc.next + 1
          /\ a.use = enc.use /\ a.exec = enc.exec /\ (Restricted => Fresh(a) /\ Matched(a))
      BY <1>1, <2>1, AllocOne
    <3>2. e = a /\ l = enc.next + 1
      BY <2>1
    <3> HIDE DEF a, e, l
    <3> QED
      BY <3>1, <3>2, SymKept
  <2>2. CASE ~fresh
    <3>1. e = enc /\ l = sym[u].label
      BY <2>2
    <3>2. sym[u] \in SymEntry
      BY SymKept
    <3> QED
      BY <2>2, <3>1, <3>2, SymKept DEF SymEntry
  <2> QED
    BY <2>1, <2>2
<1> HIDE DEF e, l, fresh
<1>3. Step(e, f, {}, {l}) /\ f \in Encoder
  BY <1>2, AssembleLabelStep DEF Step
<1> HIDE DEF f
<1>4. entry \in SymEntry /\ entry.label = l
  BY <1>2, LabelsFact DEF SymEntry
<1> HIDE DEF entry
<1>5. BaseInv'
  <2>1. sym' \in [UserLabels -> SymEntry]
    BY <1>1, <1>4, SymKept
  <2> QED
    BY <1>1, <1>3, <2>1 DEF IInv, BaseInv
<1>6. ASSUME Restricted PROVE FlagInv'
  <2>1. FlagsOK(f) /\ Matched(f) /\ f.next = e.next
    BY <1>2, <1>3, <1>6 DEF Step, IInv, FlagInv, FlagsOK
  <2>2. Fresh(f)
    BY <1>2, <1>3, <1>6, <2>1 DEF Step, Fresh
  <2>3. (\E i \in DOMAIN frames : frames[i].block) => Dead(f) /\ f.use = enc.use
    <3> SUFFICES ASSUME \E i \in DOMAIN frames : frames[i].block
                 PROVE  Dead(f) /\ f.use = enc.use
      OBVIOUS
    <3>1. Dead(e)
      BY <1>2, <1>6 DEF IInv, FlagInv, Nested, Dead
    <3>2. e.use[l] = 0
      BY <1>1, <1>2, <1>6 DEF Restricted, InDeadBlock, Stripped
    <3> QED
      BY <1>2, <1>3, <1>6, <3>1, <3>2 DEF Step
  <2>4. \A v \in UserLabels : sym'[v].label <= f.next
    <3> SUFFICES ASSUME NEW v \in UserLabels
                 PROVE  sym'[v].label <= f.next
      OBVIOUS
    <3>1. CASE v = u
      BY <1>1, <1>2, <1>4, <1>6, <2>1, <3>1, SymKept
    <3>2. CASE v # u
      <4>1. sym'[v] = sym[v]
        BY <1>1, <3>2, SymKept
      <4>2. sym[v].label \in Nat /\ sym[v].label <= enc.next
        BY <1>6, SymKept, LabelsInHand DEF IInv
      <4>3. enc.next \in Nat /\ f.next \in Nat /\ enc.next <= f.next
        BY <1>2, <1>3, <2>1, SymKept DEF Encoder
      <4> QED
        BY <4>1, <4>2, <4>3
    <3> QED BY <3>1, <3>2
  <2> QED
    BY <1>1, <1>2, <1>3, <1>6, <2>1, <2>2, <2>3, <2>4, FramesKept
<1> QED
  BY <1>5, <1>6 DEF IInv, Restricted

LEMMA EndRoutineKeeps ==
  ASSUME IInv, EndRoutine
  PROVE  IInv'
<1>1. "return" \in Ops /\ frames = <<>>
  BY DEF Ops, EndRoutine
<1>2. Step(enc, enc', {NoLabel}, {})
  BY <1>1, AssembleStep, AskedStep, LabelsFact, SymKept DEF EndRoutine
<1>3. UNCHANGED <<frames, sym>> /\ ended' = TRUE
  BY DEF EndRoutine
<1>4. enc' \in Encoder /\ enc'.next = enc.next
  BY <1>2 DEF Step
<1>5. BaseInv'
  BY <1>3, <1>4 DEF IInv, BaseInv
<1>6. ASSUME Restricted PROVE FlagInv'
  <2>1. FlagsOK(enc') /\ Matched(enc')
    BY <1>2, <1>6 DEF Step, IInv, FlagInv
  <2>2. Fresh(enc')
    BY <1>2, <1>6, LabelsFact DEF Step, IInv, FlagInv, Fresh
  <2>3. enc.next <= enc'.next /\ \A u \in UserLabels : sym'[u].label <= enc'.next
    BY <1>3, <1>4, <1>6, SymKept
  <2> QED
    BY <1>1, <1>3, <1>4, <1>6, <2>1, <2>2, <2>3, FramesKept
<1> QED
  BY <1>5, <1>6 DEF IInv, Restricted

-----------------------------------------------------------------------------
(* The theorems.                                                           *)

LEMMA InitKeeps == Init => IInv
<1> SUFFICES ASSUME Init PROVE IInv
  OBVIOUS
<1>1. Labels \subseteq Nat /\ 0 \in 0 .. MaxLabels
  BY LabelsFact, BoundsAssumption DEF BoundsAssumption
<1>2. /\ InitEnc \in Encoder /\ InitEnc.exec = {} /\ InitEnc.next = 0
      /\ InitEnc.use = [l \in Labels |-> 0] /\ InitEnc.code = <<>> /\ InitEnc.source = <<>>
      /\ InitEnc.offset = [l \in Labels |-> -1]
  BY <1>1 DEF InitEnc, Encoder
<1>3. /\ enc = InitEnc /\ frames = <<>> /\ ended = FALSE
      /\ sym = [u \in UserLabels |-> [label |-> NoLabel, state |-> "unknown"]]
  BY DEF Init
<1>4. [label |-> NoLabel, state |-> "unknown"] \in SymEntry
  BY LabelsFact DEF SymEntry
<1>5. BaseInv
  <2>1. enc \in Encoder /\ ended \in BOOLEAN
    BY <1>2, <1>3
  <2>2. frames \in Seq(GoodFrame)
    BY <1>3, EmptySeq
  <2>3. sym \in [UserLabels -> SymEntry]
    BY <1>3, <1>4
  <2> QED
    BY <2>1, <2>2, <2>3 DEF BaseInv
<1>6. FlagInv
  <2>1. Matched(enc)
    BY <1>2, <1>3 DEF Matched, At, Reachable
  <2> QED
    BY <1>2, <1>3, <2>1 DEF FlagInv, FlagsOK, Fresh, Allocated, Nested, NoLabel
<1> QED
  BY <1>5, <1>6 DEF IInv

LEMMA NextKeeps == IInv /\ [Next]_vars => IInv'
<1> SUFFICES ASSUME IInv, [Next]_vars PROVE IInv'
  OBVIOUS
<1>1. CASE UNCHANGED vars
  BY <1>1 DEF vars, IInv, BaseInv, FlagInv, FlagsOK, Fresh, Allocated, Nested, Restricted, Dead,
              Matched, At, Reachable
<1>2. CASE Next
  <2>1. PlainStatement => IInv'
    BY PlainStatementKeeps
  <2>2. \A u \in UserLabels : JumpStatement(u) \/ LabelStatement(u) => IInv'
    BY JumpStatementKeeps, LabelStatementKeeps
  <2>3. BreakStatement \/ ContinueStatement => IInv'
    BY BreakStatementKeeps, ContinueStatementKeeps
  <2>4. \A c \in Conds :
          IfReturnStatement(c) \/ OpenIf(c) \/ OpenWhile(c) \/ CloseDo(c) => IInv'
    BY IfReturnStatementKeeps, OpenIfKeeps, OpenWhileKeeps, CloseDoKeeps
  <2>5. OpenBlock \/ CloseBlock \/ CloseIf \/ ElseClause \/ CloseElse => IInv'
    BY OpenBlockKeeps, CloseBlockKeeps, CloseIfKeeps, ElseClauseKeeps, CloseElseKeeps
  <2>6. CloseWhile \/ OpenDo \/ CloseFor => IInv'
    BY CloseWhileKeeps, OpenDoKeeps, CloseForKeeps
  <2>7. \A u \in Updates, c \in Conds : OpenFor(u, c) => IInv'
    BY OpenForKeeps
  <2>8. OpenSwitch \/ CaseClause \/ DefaultClause \/ CloseSwitch => IInv'
    BY OpenSwitchKeeps, CaseClauseKeeps, DefaultClauseKeeps, CloseSwitchKeeps
  <2>9. EndRoutine => IInv'
    BY EndRoutineKeeps
  <2> QED
    BY <1>2, <2>1, <2>2, <2>3, <2>4, <2>5, <2>6, <2>7, <2>8, <2>9 DEF Next
<1> QED
  BY <1>1, <1>2

LEMMA Inductive == Spec => []IInv
<1>1. Init => IInv
  BY InitKeeps
<1>2. IInv /\ [Next]_vars => IInv'
  BY NextKeeps
<1> QED
  BY <1>1, <1>2, PTL DEF Spec

\* The encoder's and the parser's state keep their shape: in particular every
\* label that a frame or a symbol holds, or an instruction names, is one that
\* alloc_label can have returned, and the offsets and use counts stay defined.
THEOREM TypeCorrect == Spec => []TypeOK
<1>1. IInv => TypeOK
  <2> SUFFICES ASSUME IInv PROVE TypeOK
    OBVIOUS
  <2>1. frames \in Seq(Frame)
    BY DEF IInv, BaseInv, GoodFrame
  <2>2. sym \in [UserLabels -> [label : Target, state : {"unknown", "forward", "defined"}]]
    BY DEF IInv, BaseInv, SymEntry
  <2> QED
    BY <2>1, <2>2 DEF TypeOK, IInv, BaseInv
<1> QED
  BY <1>1, Inductive, PTL

\* With unreachable labels stripped, a routine that never jumps to a label
\* inside a block that cannot be entered from above keeps the rule of
\* header.h: a flag of execution_never_reaches_here is set only when
\* UNREACHABLE is, however statements are nested.
THEOREM FlagsSafe ==
  ASSUME ~JumpIntoDead, StripUnreachableLabels
  PROVE  Spec => []FlagsImplyUnreachable
<1>1. IInv => FlagsImplyUnreachable
  BY DEF IInv, Restricted, FlagInv, FlagsOK, FlagsImplyUnreachable
<1> QED
  BY <1>1, Inductive, PTL

-----------------------------------------------------------------------------
(***************************************************************************)
(* Labels: the label list and the use counts that the assembler hands on   *)
(* are exact (LabelsExact), and a label of the compiler's own is never     *)
(* dropped while something jumps to it (PromiseKept).                      *)
(*                                                                         *)
(* The argument follows a label through its life: allocated, pending in    *)
(* the frame or the symbol that is to place it, placed once or dropped.    *)
(* The labels pending in different places are different and have no        *)
(* offset, so none is linked twice; and a label that something jumps to    *)
(* has an offset or is pending (Owed).                                     *)
(***************************************************************************)
\* Where a dropped label could still be jumped to, nothing is promised.
Promised == StripUnreachableLabels => ~JumpIntoDead

\* The labels a frame has still to place, and the one it jumps back to.
Pending(f) ==
  CASE f.kind = "block"  -> {}
    [] f.kind = "if"     -> {f.top}
    [] f.kind = "else"   -> {f.exit}
    [] f.kind = "while"  -> {f.exit}
    [] f.kind = "do"     -> {f.cont, f.exit}
    [] f.kind = "for"    -> IF f.mark THEN {f.cont, f.exit} ELSE {f.exit}
    [] f.kind = "switch" -> IF f.hush /\ ~f.mark THEN {f.top, f.exit} ELSE {f.exit}

Back(f) == IF f.kind \in {"while", "do", "for"} THEN {f.top} ELSE {}

Distinct(f) ==
  /\ f.kind = "while" => f.cont = f.top
  /\ f.kind = "for" /\ ~f.mark => f.cont = f.top
  /\ f.kind = "do" => f.cont # f.exit
  /\ f.kind = "for" /\ f.mark => f.cont # f.exit
  /\ f.kind = "switch" /\ f.hush /\ ~f.mark => f.top # f.exit

Known(u) == sym[u].state # "unknown"
Named    == {m \in Labels : \E u \in UserLabels : Known(u) /\ sym[u].label = m}
Owing    == {m \in Labels : \E i \in DOMAIN frames : m \in Pending(frames[i])}

-----------------------------------------------------------------------------
(* What is true of the encoder.                                            *)

Jumps(e, m) == {k \in DOMAIN e.code : e.code[k].label = m}

CountsExact(e) == \A m \in Labels : e.use[m] = Cardinality(Jumps(e, m))

ChainExact(e) ==
  /\ \A i, j \in 1 .. Len(e.chain) :
       i < j => /\ e.chain[i] # e.chain[j]
                /\ e.offset[e.chain[i]] <= e.offset[e.chain[j]]
  /\ \A m \in Labels : e.offset[m] >= 0 <=> \E i \in 1 .. Len(e.chain) : e.chain[i] = m
  /\ \A m \in Labels : e.offset[m] <= Len(e.code)

\* Only a label of Q can be jumped to without having an offset.
Owed(e, Q) == \A m \in Labels \ Q : e.use[m] > 0 => e.offset[m] >= 0

Sound(e, Q) ==
  /\ e \in Encoder
  /\ CountsExact(e)
  /\ ChainExact(e)
  /\ Promised => Owed(e, Q)

\* f results from e by calls that place labels of P only.
After(e, f, P) ==
  /\ f.next = e.next
  /\ \A m \in Labels \ P : f.offset[m] = e.offset[m]
  /\ Dead(f) => Dead(e)
  /\ (Restricted /\ Dead(e) /\ \A m \in P \cap Labels : e.use[m] = 0)
       => Dead(f) /\ f.use = e.use

-----------------------------------------------------------------------------
(* The calls of the encoder.                                               *)

\* A call that changes neither the code nor a label.
Quiet(e, f) ==
  /\ f \in Encoder
  /\ f.code = e.code /\ f.use = e.use /\ f.offset = e.offset /\ f.chain = e.chain

LEMMA QuietSound ==
  ASSUME NEW e, NEW f, NEW Q, Sound(e, Q), Quiet(e, f)
  PROVE  Sound(f, Q)
BY DEF Sound, Quiet, CountsExact, Jumps, ChainExact, Owed

LEMMA SoundMore ==
  ASSUME NEW e, NEW Q, NEW R, Sound(e, Q), Q \cap Labels \subseteq R
  PROVE  Sound(e, R)
BY DEF Sound, Owed

LEMMA AskedQuiet ==
  ASSUME NEW e \in Encoder, NEW op \in Ops, NEW l \in Target
  PROVE  Quiet(e, Asked(e, op, l))
<1> DEFINE s == Append(e.source, [op |-> op, label |-> l])
<1>1. Asked(e, op, l) \in Encoder
  BY AskedType
<1>2. Asked(e, op, l) = [e EXCEPT !.source = s]
  BY DEF Asked, Encoder
<1> HIDE DEF s
<1> QED
  BY <1>1, <1>2 DEF Quiet, Encoder

LEMMA PlacedQuiet ==
  ASSUME NEW e \in Encoder, NEW l \in Labels
  PROVE  Quiet(e, Placed(e, l)) /\ Placed(e, l).exec = e.exec /\ Placed(e, l).next = e.next
<1> DEFINE p == [e.place EXCEPT ![l] = Len(e.source) + 1]
<1>1. Placed(e, l) \in Encoder /\ Placed(e, l).exec = e.exec /\ Placed(e, l).next = e.next
  BY PlacedType
<1>2. Placed(e, l) = [e EXCEPT !.place = p]
  BY DEF Placed
<1> HIDE DEF p
<1> QED
  BY <1>1, <1>2 DEF Quiet, Encoder

LEMMA EnterQuiet ==
  ASSUME NEW e \in Encoder
  PROVE  Quiet(e, Enter(e)) /\ Enter(e).next = e.next
<1> DEFINE x == e.exec \cup {"ENTIRE"}
<1>1. Enter(e) \in Encoder
  BY EnterType
<1>2. Enter(e) = IF Reachable(e) THEN e ELSE [e EXCEPT !.exec = x]
  BY DEF Enter, Encoder
<1> HIDE DEF x
<1> QED
  BY <1>1, <1>2 DEF Quiet, Encoder

LEMMA LeaveQuiet ==
  ASSUME NEW e \in Encoder, NEW saved \in BOOLEAN
  PROVE  Quiet(e, Leave(e, saved)) /\ Leave(e, saved).next = e.next
<1> DEFINE x == IF saved THEN e.exec \cup {"ENTIRE"} ELSE e.exec \ {"ENTIRE"}
<1>1. Leave(e, saved) \in Encoder
  BY LeaveType
<1>2. Leave(e, saved) = [e EXCEPT !.exec = x]
  BY DEF Leave, Encoder
<1> HIDE DEF x
<1> QED
  BY <1>1, <1>2 DEF Quiet, Encoder

LEMMA NoWarnQuiet ==
  ASSUME NEW e \in Encoder
  PROVE  /\ Quiet(e, NoWarn(e)) /\ NoWarn(e).next = e.next
         /\ Dead(NoWarn(e)) <=> Dead(e)
<1> DEFINE x == e.exec \cup {"NOWARN"}
<1>1. x \in SUBSET Flags
  BY DEF Encoder, Flags
<1>2. NoWarn(e) = [e EXCEPT !.exec = x]
  BY DEF NoWarn, Encoder
<1>3. "ENTIRE" \in x <=> "ENTIRE" \in e.exec
  OBVIOUS
<1> HIDE DEF x
<1> QED
  BY <1>1, <1>2, <1>3 DEF Quiet, Encoder, Dead

LEMMA AllocQuiet ==
  ASSUME NEW e \in Encoder, NEW n \in Nat, CanAlloc(e, n)
  PROVE  Quiet(e, AllocLabels(e, n))
<1>1. AllocLabels(e, n) \in Encoder
  BY AllocType
<1>2. AllocLabels(e, n) = [e EXCEPT !.next = e.next + n]
  BY DEF AllocLabels
<1> QED
  BY <1>1, <1>2 DEF Quiet, Encoder

LEMMA QuietAfter ==
  ASSUME NEW e, NEW f, Quiet(e, f), f.next = e.next, Dead(f) <=> Dead(e)
  PROVE  After(e, f, {})
BY DEF Quiet, After

LEMMA AfterTrans ==
  ASSUME NEW e, NEW f, NEW g, NEW P, NEW R, After(e, f, P), After(f, g, R)
  PROVE  After(e, g, P \cup R)
BY DEF After

LEMMA AfterMore ==
  ASSUME NEW e, NEW f, NEW P, NEW R, After(e, f, P), P \subseteq R
  PROVE  After(e, f, R)
BY DEF After

LEMMA JumpsFinite ==
  ASSUME NEW e \in Encoder, NEW m
  PROVE  IsFiniteSet(Jumps(e, m)) /\ Jumps(e, m) \subseteq 1 .. Len(e.code) /\ Len(e.code) \in Nat
<1>1. DOMAIN e.code = 1 .. Len(e.code) /\ Len(e.code) \in Nat
  BY LenProperties DEF Encoder
<1>2. Jumps(e, m) \subseteq 1 .. Len(e.code)
  BY <1>1 DEF Jumps
<1>3. IsFiniteSet(1 .. Len(e.code))
  BY <1>1, FS_Interval
<1> QED
  BY <1>1, <1>2, <1>3, FS_Subset

\* An instruction is added: to the code, and to the counts, or to neither.
LEMMA AssembleSound ==
  ASSUME NEW e, NEW Q, Sound(e, Q), NEW op \in Ops, NEW l \in Target,
         Promised /\ Reachable(e) /\ l # NoLabel => l \in Q \/ e.offset[l] >= 0
  PROVE  Sound(Assemble(e, op, l), Q) /\ After(e, Assemble(e, op, l), {})
<1> DEFINE f == Assemble(e, op, l)
<1>0. /\ e \in Encoder /\ f \in Encoder
      /\ Dead(f) => Dead(e)
      /\ \A m \in Labels \ {l} : f.use[m] = e.use[m]
      /\ f.next = e.next
  BY AssembleType DEF Sound
<1>1. CASE ~Reachable(e)
  <2> DEFINE q == Asked(e, op, l)
  <2>1. q \in Encoder /\ Quiet(e, q) /\ q.next = e.next /\ q.exec = e.exec
    BY <1>0, AskedType, AskedQuiet
  <2>2. f = NoWarn(q)
    BY <1>1 DEF Assemble, NoWarn
  <2> HIDE DEF q, f
  <2>3. Quiet(e, f) /\ f.next = e.next /\ (Dead(f) <=> Dead(e))
    BY <2>1, <2>2, NoWarnQuiet DEF Quiet, Dead
  <2>4. Sound(f, Q) /\ After(e, f, {})
    BY <2>3, QuietSound, QuietAfter
  <2> QED BY <2>4 DEF f
<1>2. CASE Reachable(e)
  <2> DEFINE n    == Len(e.code)
             item == [op |-> op, label |-> l, src |-> Len(e.source) + 1]
             x    == IF Terminates(op) THEN {"UNREACHABLE"} ELSE {}
             u    == IF l = NoLabel THEN e.use ELSE [e.use EXCEPT ![l] = @ + 1]
             s    == Append(e.source, [op |-> op, label |-> l])
             c    == Append(e.code, item)
  <2>1. Asked(e, op, l) = [e EXCEPT !.source = s]
    BY <1>0 DEF Asked, Encoder
  <2>2. f = [MarkLabelUsed(Asked(e, op, l), l) EXCEPT !.exec = x, !.code = Append(@, item)]
    BY <1>2 DEF Assemble
  <2> HIDE DEF s, item, x
  <2>3. f = [e EXCEPT !.source = s, !.use = u, !.exec = x, !.code = c]
    BY <1>0, <2>1, <2>2, ZenonT(40) DEF MarkLabelUsed, Encoder
  <2> HIDE DEF u, c, f
  <2>4. /\ f.next = e.next /\ f.offset = e.offset /\ f.chain = e.chain
        /\ f.use = u /\ f.code = c /\ f.exec = x
    BY <1>0, <2>3 DEF Encoder
  <2>5. n \in Nat /\ DOMAIN e.code = 1 .. n /\ e.code \in Seq(CodeItem) /\ item \in CodeItem
        /\ item.label = l
    <3>1. Len(e.source) \in Nat
      BY <1>0 DEF Encoder
    <3> QED BY <1>0, <3>1, LenProperties DEF Encoder, CodeItem, item
  <2>6. /\ DOMAIN c = 1 .. n + 1 /\ Len(c) = n + 1 /\ c[n + 1] = item
        /\ \A k \in 1 .. n : c[k] = e.code[k]
    BY <2>5, AppendProperties, LenProperties DEF c
  <2>7. e.use \in [Labels -> Nat]
    BY <1>0 DEF Encoder
  <2>8. \A m \in Labels : u[m] = IF m = l THEN e.use[m] + 1 ELSE e.use[m]
    BY <2>7, LabelsFact DEF u
  <2>9. ASSUME NEW m \in Labels PROVE f.use[m] = Cardinality(Jumps(f, m))
    <3>1. e.use[m] = Cardinality(Jumps(e, m))
      BY DEF Sound, CountsExact
    <3>2. CASE m = l
      <4>1. Jumps(f, m) = Jumps(e, m) \cup {n + 1}
        BY <2>4, <2>5, <2>6, <3>2 DEF Jumps
      <4>2. IsFiniteSet(Jumps(e, m)) /\ n + 1 \notin Jumps(e, m)
        BY <1>0, <2>5, JumpsFinite
      <4>3. Cardinality(Jumps(e, m) \cup {n + 1}) = Cardinality(Jumps(e, m)) + 1
        BY <4>2, FS_AddElement
      <4> QED BY <2>4, <2>8, <3>1, <3>2, <4>1, <4>3
    <3>3. CASE m # l
      <4>1. Jumps(f, m) = Jumps(e, m)
        BY <2>4, <2>5, <2>6, <3>3 DEF Jumps
      <4> QED BY <2>4, <2>8, <3>1, <3>3, <4>1
    <3> QED BY <3>2, <3>3
  <2>10. ChainExact(f)
    <3>1. \A m \in Labels : f.offset[m] <= Len(e.code) /\ e.offset[m] \in Int
      BY <1>0, <2>4 DEF Sound, ChainExact, Encoder
    <3>2. \A m \in Labels : f.offset[m] <= Len(f.code)
      BY <2>4, <2>5, <2>6, <3>1
    <3> QED BY <2>4, <3>2 DEF Sound, ChainExact
  <2>11. ASSUME Promised PROVE Owed(f, Q)
    <3>1. Owed(e, Q)
      BY <2>11 DEF Sound
    <3>2. \A m \in Labels \ Q : m # l => f.offset[m] = e.offset[m] /\ f.use[m] = e.use[m]
      BY <2>4, <2>8
    <3>3. l \in Labels \ Q => f.offset[l] >= 0
      BY <1>2, <2>4, <2>11, LabelsFact
    <3> QED BY <3>1, <3>2, <3>3 DEF Owed
  <2>12. Sound(f, Q)
    BY <1>0, <2>9, <2>10, <2>11 DEF Sound, CountsExact, f
  <2>13. ~Dead(e) /\ ~Dead(f)
    BY <1>2, <2>4 DEF Dead, Reachable, x
  <2>14. After(e, f, {})
    BY <2>4, <2>13 DEF After
  <2> QED BY <2>12, <2>14 DEF f
<1> QED
  BY <1>1, <1>2

LEMMA JumpIfReachedSound ==
  ASSUME NEW e, NEW Q, Sound(e, Q), NEW l \in Labels,
         Promised /\ Reachable(e) => l \in Q \/ e.offset[l] >= 0
  PROVE  Sound(JumpIfReached(e, l), Q) /\ After(e, JumpIfReached(e, l), {})
<1>0. l \in Target /\ "jump" \in Ops /\ e \in Encoder
  BY LabelsFact DEF Ops, Sound
<1>1. CASE Reachable(e)
  BY <1>0, <1>1, AssembleSound DEF JumpIfReached
<1>2. CASE ~Reachable(e)
  <2> DEFINE f == Asked(e, "jump", l)
  <2>1. Quiet(e, f) /\ f.next = e.next /\ (Dead(f) <=> Dead(e))
    BY <1>0, AskedQuiet, AskedType DEF Dead
  <2>2. JumpIfReached(e, l) = f
    BY <1>2 DEF JumpIfReached
  <2> HIDE DEF f
  <2> QED BY <2>1, <2>2, QuietSound, QuietAfter
<1> QED
  BY <1>1, <1>2

LEMMA BranchUnlessSound ==
  ASSUME NEW e, NEW Q, Sound(e, Q), NEW l \in Labels, NEW cond \in Conds,
         Promised /\ Reachable(e) => l \in Q \/ e.offset[l] >= 0
  PROVE  Sound(BranchUnless(e, cond, l), Q) /\ After(e, BranchUnless(e, cond, l), {})
<1>0. l \in Target /\ "jump" \in Ops /\ "branch" \in Ops
  BY LabelsFact DEF Ops
<1>1. CASE cond = "expr"
  BY <1>0, <1>1, AssembleSound DEF BranchUnless
<1>2. CASE cond = "false"
  BY <1>0, <1>2, AssembleSound DEF BranchUnless
<1>3. CASE cond = "true"
  BY <1>3 DEF BranchUnless, After
<1> QED
  BY <1>1, <1>2, <1>3, BoundsAssumption DEF BoundsAssumption

\* A label that has no offset is given one, and linked; or is left without.
LEMMA PlaceSound ==
  ASSUME NEW e, NEW Q, Sound(e, Q), NEW l \in Labels, e.offset[l] = -1, NEW kept \in BOOLEAN,
         ~kept => e.use[l] = 0
  PROVE  LET f == SetLabelOffset(Placed(e, l), l, kept)
         IN  /\ Sound(f, Q \ {l}) /\ f.next = e.next /\ f.exec = e.exec /\ f.use = e.use
             /\ \A m \in Labels \ {l} : f.offset[m] = e.offset[m]
             /\ kept => f.offset[l] >= 0
<1> DEFINE p == Placed(e, l)
           f == SetLabelOffset(p, l, kept)
           n == Len(e.code)
           here == [e.offset EXCEPT ![l] = n]
           linked == Append(e.chain, l)
           Good == /\ Sound(f, Q \ {l}) /\ f.next = e.next /\ f.exec = e.exec /\ f.use = e.use
                   /\ \A m \in Labels \ {l} : f.offset[m] = e.offset[m]
                   /\ kept => f.offset[l] >= 0
<1>1. e \in Encoder /\ Quiet(e, p) /\ p.exec = e.exec /\ p.next = e.next /\ p \in Encoder
  BY PlacedQuiet, PlacedType DEF Sound
<1> HIDE DEF p
<1>2. f \in Encoder /\ f.next = e.next /\ f.use = e.use /\ f.exec = e.exec
  BY <1>1, SetLabelOffsetType DEF Quiet
<1>3. ASSUME ~kept PROVE Good
  <2> DEFINE none == [e.offset EXCEPT ![l] = -1]
  <2>1. none = e.offset
    BY <1>1 DEF Encoder
  <2>2. f = [p EXCEPT !.offset = none]
    BY <1>1, <1>3 DEF SetLabelOffset, Quiet
  <2> HIDE DEF none, f
  <2>3. Quiet(e, f)
    BY <1>1, <1>2, <2>1, <2>2 DEF Quiet, Encoder, f
  <2>4. Sound(f, Q)
    BY <2>3, QuietSound
  <2>5. Sound(f, Q \ {l})
    BY <1>2, <1>3, <2>4 DEF Sound, Owed, f
  <2> QED BY <1>2, <1>3, <2>3, <2>5 DEF Quiet, f
<1>4. ASSUME kept PROVE Good
  <2>1. f = [p EXCEPT !.offset = here, !.chain = linked]
    BY <1>1, <1>4 DEF SetLabelOffset, Quiet
  <2> HIDE DEF here, linked, f
  <2>2. f.offset = here /\ f.chain = linked /\ f.code = e.code
    BY <1>1, <2>1 DEF Encoder, Quiet
  <2>3. n \in Nat /\ e.offset \in [Labels -> Nat \cup {-1}] /\ e.chain \in Seq(Labels)
    BY <1>1, LenProperties DEF Encoder
  <2>4. here[l] = n /\ \A m \in Labels \ {l} : here[m] = e.offset[m]
    BY <2>3 DEF here
  <2>5. /\ Len(linked) = Len(e.chain) + 1 /\ Len(e.chain) \in Nat
        /\ linked[Len(e.chain) + 1] = l
        /\ \A i \in 1 .. Len(e.chain) : linked[i] = e.chain[i] /\ linked[i] \in Labels
    BY <2>3, AppendProperties, LenProperties, ElementOfSeq DEF linked
  <2>6. \A i \in 1 .. Len(e.chain) : e.chain[i] # l
    BY <2>5 DEF Sound, ChainExact
  <2>7. \A i \in 1 .. Len(linked) : i \in 1 .. Len(e.chain) \/ i = Len(e.chain) + 1
    BY <2>5
  <2>8. \A i, j \in 1 .. Len(linked) :
          i < j => linked[i] # linked[j] /\ here[linked[i]] <= here[linked[j]]
    <3> SUFFICES ASSUME NEW i \in 1 .. Len(linked), NEW j \in 1 .. Len(linked), i < j
                 PROVE  linked[i] # linked[j] /\ here[linked[i]] <= here[linked[j]]
      OBVIOUS
    <3>1. i \in 1 .. Len(e.chain)
      BY <2>5, <2>7
    <3>2. linked[i] = e.chain[i] /\ linked[i] # l /\ here[linked[i]] = e.offset[e.chain[i]]
      BY <2>4, <2>5, <2>6, <3>1
    <3>3. CASE j \in 1 .. Len(e.chain)
      <4>1. linked[j] = e.chain[j] /\ here[linked[j]] = e.offset[e.chain[j]]
        BY <2>4, <2>5, <2>6, <3>3
      <4> QED BY <3>1, <3>2, <3>3, <4>1 DEF Sound, ChainExact
    <3>4. CASE j = Len(e.chain) + 1
      <4>1. linked[j] = l /\ here[linked[j]] = n
        BY <2>4, <2>5, <3>4
      <4>2. e.offset[e.chain[i]] <= n
        BY <2>5, <3>1 DEF Sound, ChainExact
      <4> QED BY <3>2, <4>1, <4>2
    <3> QED BY <2>7, <3>3, <3>4
  <2>9. \A m \in Labels : here[m] >= 0 <=> \E i \in 1 .. Len(linked) : linked[i] = m
    <3> SUFFICES ASSUME NEW m \in Labels
                 PROVE  here[m] >= 0 <=> \E i \in 1 .. Len(linked) : linked[i] = m
      OBVIOUS
    <3>1. CASE m = l
      BY <2>3, <2>4, <2>5, <3>1
    <3>2. CASE m # l
      <4>1. e.offset[m] >= 0 <=> \E i \in 1 .. Len(e.chain) : e.chain[i] = m
        BY DEF Sound, ChainExact
      <4>2. (\E i \in 1 .. Len(linked) : linked[i] = m) <=> \E i \in 1 .. Len(e.chain) : e.chain[i] = m
        BY <2>5, <2>7, <3>2
      <4> QED BY <2>4, <3>2, <4>1, <4>2
    <3> QED BY <3>1, <3>2
  <2>10. \A m \in Labels : here[m] <= n
    BY <2>3, <2>4 DEF Sound, ChainExact
  <2>11. ChainExact(f)
    BY <2>2, <2>8, <2>9, <2>10 DEF ChainExact
  <2>12. CountsExact(f)
    BY <1>2, <2>2 DEF Sound, CountsExact, Jumps, f
  <2>13. ASSUME Promised PROVE Owed(f, Q \ {l})
    BY <1>2, <2>2, <2>3, <2>4, <2>13 DEF Sound, Owed, f
  <2>14. Sound(f, Q \ {l})
    BY <1>2, <2>11, <2>12, <2>13 DEF Sound, f
  <2> QED BY <1>2, <2>2, <2>3, <2>4, <2>14 DEF f
<1> QED
  BY <1>3, <1>4 DEF p

LEMMA AssembleLabelSound ==
  ASSUME NEW e, NEW Q, Sound(e, Q), NEW l \in Labels, e.offset[l] = -1
  PROVE  /\ Sound(AssembleLabel(e, l), Q \ {l})
         /\ After(e, AssembleLabel(e, l), {l})
         /\ AssembleLabel(e, l).offset[l] >= 0 \/ (StripUnreachableLabels /\ Dead(e))
<1> DEFINE f == SetLabelOffset(Placed(e, l), l, ~Stripped(e, l))
           g == AssembleLabel(e, l)
<1>0. e \in Encoder /\ Step(e, g, {}, {l})
  BY AssembleLabelStep DEF Sound
<1>1. Stripped(e, l) => e.use[l] = 0 /\ StripUnreachableLabels /\ Dead(e)
  BY DEF Stripped, Dead
<1>2. /\ Sound(f, Q \ {l}) /\ f.next = e.next /\ f.exec = e.exec /\ f.use = e.use
      /\ \A m \in Labels \ {l} : f.offset[m] = e.offset[m]
      /\ ~Stripped(e, l) => f.offset[l] >= 0
  <2> DEFINE kept == ~Stripped(e, l)
  <2>1. kept \in BOOLEAN /\ (~kept => e.use[l] = 0)
    BY <1>1
  <2> HIDE DEF kept
  <2>2. LET h == SetLabelOffset(Placed(e, l), l, kept)
        IN  /\ Sound(h, Q \ {l}) /\ h.next = e.next /\ h.exec = e.exec /\ h.use = e.use
            /\ \A m \in Labels \ {l} : h.offset[m] = e.offset[m]
            /\ kept => h.offset[l] >= 0
    BY <2>1, PlaceSound
  <2> QED BY <2>2 DEF kept
<1>3. g = IF Stripped(e, l) THEN f ELSE [f EXCEPT !.exec = {}]
  BY DEF AssembleLabel
<1> HIDE DEF f, g
<1>4. Quiet(f, g) /\ g.next = f.next
  BY <1>2, <1>3 DEF Sound, Quiet, Encoder
<1>5. Sound(g, Q \ {l})
  BY <1>2, <1>4, QuietSound
<1>6. After(e, g, {l})
  BY <1>0, <1>2, <1>4 DEF After, Step, Quiet
<1> QED
  BY <1>1, <1>2, <1>4, <1>5, <1>6 DEF Quiet, g

LEMMA ForwardLabelSound ==
  ASSUME NEW e, NEW Q, Sound(e, Q), NEW l \in Labels, e.offset[l] = -1
  PROVE  /\ Sound(AssembleForwardLabel(e, l), Q \ {l})
         /\ After(e, AssembleForwardLabel(e, l), {l})
<1>1. CASE e.use[l] > 0
  BY <1>1, AssembleLabelSound DEF AssembleForwardLabel
<1>2. CASE ~(e.use[l] > 0)
  <2> DEFINE g == AssembleForwardLabel(e, l)
  <2>1. e.use[l] = 0
    BY <1>2 DEF Sound, Encoder
  <2>2. g = SetLabelOffset(Placed(e, l), l, FALSE)
    BY <1>2 DEF AssembleForwardLabel
  <2> HIDE DEF g
  <2>3. /\ Sound(g, Q \ {l}) /\ g.next = e.next /\ g.exec = e.exec /\ g.use = e.use
        /\ \A m \in Labels \ {l} : g.offset[m] = e.offset[m]
    BY <2>1, <2>2, PlaceSound
  <2>4. After(e, g, {l})
    BY <2>3 DEF After, Dead
  <2> QED BY <2>3, <2>4 DEF g
<1> QED
  BY <1>1, <1>2

-----------------------------------------------------------------------------
(* The inductive invariant.                                                *)

\* The labels pending in a frame have no offset, and no other place of theirs.
FramesPending ==
  /\ \A i \in DOMAIN frames : Distinct(frames[i])
  /\ \A i \in DOMAIN frames : \A m \in Pending(frames[i]) :
       m <= enc.next /\ enc.offset[m] = -1 /\ m \notin Named
  /\ \A i, j \in DOMAIN frames : i # j => \A m \in Pending(frames[i]) : m \notin Pending(frames[j])

NamesPending ==
  /\ \A u \in UserLabels : Known(u) => sym[u].label <= enc.next
  /\ \A u \in UserLabels : sym[u].state = "forward" => enc.offset[sym[u].label] = -1
  /\ \A u, v \in UserLabels : Known(u) /\ Known(v) /\ sym[u].label = sym[v].label => u = v

FreshUnplaced == \A m \in Labels : m > enc.next => enc.offset[m] = -1

\* A loop's top is placed, unless the whole loop cannot be reached.
BackPlaced ==
  \A i \in DOMAIN frames : \A m \in Back(frames[i]) :
    enc.offset[m] >= 0 \/ (StripUnreachableLabels /\ frames[i].block)

PendInv ==
  /\ FramesPending
  /\ NamesPending
  /\ FreshUnplaced
  /\ Promised => BackPlaced
  /\ Sound(enc, Owing \cup Named)

LInv == IInv /\ PendInv

LEMMA PendingLabels ==
  ASSUME NEW f \in GoodFrame
  PROVE  /\ Pending(f) \subseteq Labels /\ Back(f) \subseteq Labels
         /\ Pending(f) \cup Back(f) \subseteq FrameLabels(f)
<1>1. f \in Frame /\ ShapeOK(f)
  BY DEF GoodFrame
<1>2. f.kind \in {"block", "if", "else", "while", "do", "for", "switch"}
      /\ f.mark \in BOOLEAN /\ f.hush \in BOOLEAN
  BY <1>1 DEF Frame
<1>3. Back(f) \subseteq Labels /\ Back(f) \subseteq FrameLabels(f)
  BY <1>1, <1>2 DEF ShapeOK, Back, FrameLabels
<1>4. CASE f.kind = "block"
  BY <1>3, <1>4 DEF Pending
<1>5. CASE f.kind \in {"if", "else", "while"}
  BY <1>1, <1>3, <1>5 DEF Pending, ShapeOK, FrameLabels
<1>6. CASE f.kind \in {"do", "for"}
  BY <1>1, <1>2, <1>3, <1>6 DEF Pending, ShapeOK, FrameLabels
<1>7. CASE f.kind = "switch"
  BY <1>1, <1>2, <1>3, <1>7 DEF Pending, ShapeOK, FrameLabels
<1> QED
  BY <1>2, <1>4, <1>5, <1>6, <1>7

LEMMA FrameFacts ==
  ASSUME BaseInv
  PROVE  /\ DOMAIN frames = 1 .. Len(frames) /\ Len(frames) \in Nat
         /\ \A i \in DOMAIN frames : frames[i] \in GoodFrame /\ Pending(frames[i]) \subseteq Labels
                                     /\ Back(frames[i]) \subseteq Labels
         /\ \A u \in UserLabels : sym[u] \in SymEntry /\ (Known(u) => sym[u].label \in Labels)
         /\ enc \in Encoder /\ enc.next \in 0 .. MaxLabels
         /\ enc.offset \in [Labels -> Nat \cup {-1}]
<1>1. \A i \in DOMAIN frames : frames[i] \in GoodFrame
  BY LabelsInHand
<1>2. \A u \in UserLabels : sym[u] \in SymEntry
  BY DEF BaseInv
<1>3. \A u \in UserLabels : Known(u) => sym[u].label \in Labels
  BY <1>2 DEF SymEntry, Known
<1> QED
  BY <1>1, <1>2, <1>3, PendingLabels, LenProperties DEF BaseInv, Encoder

\* A step that keeps the first k frames, takes away the pending labels Freed
\* and leaves at most one frame more, whose labels are new or were freed.
LEMMA Moved ==
  ASSUME LInv, BaseInv', UNCHANGED sym,
         NEW k \in Nat, k <= Len(frames), k <= Len(frames'), Len(frames') <= k + 1,
         \A i \in 1 .. k : frames'[i] = frames[i],
         NEW Freed \in SUBSET Labels,
         \A i \in 1 .. k : \A m \in Pending(frames[i]) : m \notin Freed,
         \A m \in Freed : enc.offset[m] = -1 /\ m \notin Named,
         enc.next <= enc'.next,
         \A m \in Labels \ Freed : m <= enc.next => enc'.offset[m] = enc.offset[m],
         \A m \in Labels : m > enc'.next => enc'.offset[m] = -1,
         NEW R, Sound(enc', R),
         \A m \in R \cap Labels : \/ m \in Named
                                  \/ \E i \in 1 .. k : m \in Pending(frames[i])
                                  \/ k + 1 \in DOMAIN frames' /\ m \in Pending(frames'[k + 1]),
         k + 1 \in DOMAIN frames' =>
           /\ Distinct(frames'[k + 1])
           /\ \A m \in Pending(frames'[k + 1]) :
                (m \in Freed \/ m > enc.next) /\ m <= enc'.next /\ enc'.offset[m] = -1
           /\ Promised => \A m \in Back(frames'[k + 1]) :
                            enc'.offset[m] >= 0 \/ (StripUnreachableLabels /\ frames'[k + 1].block)
  PROVE  PendInv'
<1>1. BaseInv /\ FramesPending /\ NamesPending /\ FreshUnplaced /\ (Promised => BackPlaced)
  BY DEF LInv, IInv, PendInv
<1>2. /\ DOMAIN frames = 1 .. Len(frames) /\ Len(frames) \in Nat
      /\ \A i \in DOMAIN frames : frames[i] \in GoodFrame /\ Pending(frames[i]) \subseteq Labels
                                  /\ Back(frames[i]) \subseteq Labels
      /\ \A u \in UserLabels : Known(u) => sym[u].label \in Labels
      /\ enc.next \in Nat /\ enc.offset \in [Labels -> Nat \cup {-1}]
  BY <1>1, FrameFacts
<1>3. /\ DOMAIN frames' = 1 .. Len(frames') /\ Len(frames') \in Nat
      /\ \A i \in DOMAIN frames' : Pending(frames'[i]) \subseteq Labels
      /\ enc'.next \in Nat /\ enc'.offset \in [Labels -> Nat \cup {-1}]
  <2>1. frames' \in Seq(GoodFrame) /\ enc' \in Encoder
    BY DEF BaseInv
  <2>2. \A i \in DOMAIN frames' : frames'[i] \in GoodFrame
    BY <2>1, ElementOfSeq
  <2> QED BY <2>1, <2>2, PendingLabels, LenProperties DEF Encoder
<1>4. \A m \in Labels : m \in Nat
  BY LabelsFact
<1>5. \A i \in DOMAIN frames' : (i \in 1 .. k /\ i \in DOMAIN frames) \/ i = k + 1
  BY <1>2, <1>3
<1>6. Named' = Named /\ \A m \in Named : m <= enc.next /\ m \in Labels
  BY <1>1, <1>2 DEF Named, Known, NamesPending
<1>7. ASSUME NEW i \in DOMAIN frames', NEW m \in Pending(frames'[i])
      PROVE  m <= enc'.next /\ enc'.offset[m] = -1 /\ m \notin Named
  <2>1. CASE i \in 1 .. k /\ i \in DOMAIN frames
    <3>1. m \in Pending(frames[i]) /\ m \in Labels
      BY <1>2, <1>7, <2>1
    <3>2. m <= enc.next /\ enc.offset[m] = -1 /\ m \notin Named
      BY <1>1, <2>1, <3>1 DEF FramesPending
    <3>3. m \notin Freed
      BY <2>1, <3>1
    <3> QED BY <1>2, <1>3, <1>4, <3>1, <3>2, <3>3
  <2>2. CASE i = k + 1
    <3>1. k + 1 \in DOMAIN frames' /\ m \in Pending(frames'[k + 1]) /\ m \in Labels
      BY <1>3, <1>7, <2>2
    <3>2. (m \in Freed \/ m > enc.next) /\ m <= enc'.next /\ enc'.offset[m] = -1
      BY <3>1
    <3>3. m \notin Named
      BY <1>2, <1>4, <1>6, <3>1, <3>2
    <3> QED BY <3>2, <3>3
  <2> QED BY <1>5, <2>1, <2>2
<1>8. ASSUME NEW i \in DOMAIN frames', NEW j \in DOMAIN frames', i # j,
             NEW m \in Pending(frames'[i])
      PROVE  m \notin Pending(frames'[j])
  <2>1. m \in Labels
    BY <1>3, <1>8
  <2>2. ASSUME NEW a \in 1 .. k, a \in DOMAIN frames, m \in Pending(frames[a]),
               k + 1 \in DOMAIN frames', m \in Pending(frames'[k + 1])
        PROVE  FALSE
    <3>1. m <= enc.next
      BY <1>1, <2>2 DEF FramesPending
    <3>2. m \notin Freed
      BY <2>2
    <3>3. m \in Freed \/ m > enc.next
      BY <2>2
    <3> QED BY <1>2, <1>4, <2>1, <3>1, <3>2, <3>3
  <2>3. CASE i \in 1 .. k /\ i \in DOMAIN frames /\ j \in 1 .. k /\ j \in DOMAIN frames
    <3>1. frames'[i] = frames[i] /\ frames'[j] = frames[j]
      BY <2>3
    <3> QED BY <1>1, <1>8, <2>3, <3>1 DEF FramesPending
  <2>4. CASE i \in 1 .. k /\ i \in DOMAIN frames /\ j = k + 1
    <3>1. frames'[i] = frames[i]
      BY <2>4
    <3> QED BY <1>8, <2>2, <2>4, <3>1
  <2>5. CASE i = k + 1 /\ j \in 1 .. k /\ j \in DOMAIN frames
    <3>1. frames'[j] = frames[j]
      BY <2>5
    <3> QED BY <1>8, <2>2, <2>5, <3>1
  <2> QED BY <1>5, <1>8, <2>3, <2>4, <2>5
<1>9. \A i \in DOMAIN frames' : Distinct(frames'[i])
  <2>1. \A i \in 1 .. k : i \in DOMAIN frames => Distinct(frames'[i])
    BY <1>1 DEF FramesPending
  <2> QED BY <1>5, <2>1
<1>10. FramesPending'
  BY <1>6, <1>7, <1>8, <1>9 DEF FramesPending
<1>11. NamesPending'
  <2>1. \A u \in UserLabels : Known(u) => sym[u].label \in Named /\ sym[u].label <= enc.next
                                          /\ sym[u].label \in Labels
    BY <1>1, <1>2, <1>6 DEF Named, NamesPending
  <2>2. \A u \in UserLabels : Known(u) => sym[u].label <= enc'.next
    BY <1>2, <1>3, <1>4, <2>1
  <2>3. ASSUME NEW u \in UserLabels, sym[u].state = "forward"
        PROVE  enc'.offset[sym[u].label] = -1
    <3>1. Known(u)
      BY <2>3 DEF Known
    <3>2. sym[u].label \notin Freed
      BY <2>1, <3>1
    <3> QED BY <1>1, <2>1, <2>3, <3>1, <3>2 DEF NamesPending
  <2> QED BY <1>1, <2>2, <2>3 DEF NamesPending, Known
<1>12. FreshUnplaced'
  BY DEF FreshUnplaced
<1>13. ASSUME Promised PROVE BackPlaced'
  <2> SUFFICES ASSUME NEW i \in DOMAIN frames', NEW m \in Back(frames'[i])
               PROVE  enc'.offset[m] >= 0 \/ (StripUnreachableLabels /\ frames'[i].block)
    BY DEF BackPlaced
  <2>1. CASE i \in 1 .. k /\ i \in DOMAIN frames
    <3>1. frames'[i] = frames[i] /\ m \in Back(frames[i]) /\ m \in Labels
      BY <1>2, <2>1
    <3>2. enc.offset[m] >= 0 \/ (StripUnreachableLabels /\ frames[i].block)
      BY <1>1, <1>13, <2>1, <3>1 DEF BackPlaced
    <3>3. enc.offset[m] >= 0 => m \notin Freed /\ m <= enc.next
      BY <1>1, <1>2, <1>4, <3>1 DEF FreshUnplaced
    <3> QED BY <3>1, <3>2, <3>3
  <2>2. CASE i = k + 1
    BY <1>13, <2>2
  <2> QED BY <1>5, <2>1, <2>2
<1>14. Sound(enc', (Owing \cup Named)')
  <2>1. ASSUME NEW m \in R \cap Labels PROVE m \in (Owing \cup Named)'
    <3>1. CASE m \in Named
      BY <1>6, <3>1
    <3>2. CASE \E i \in 1 .. k : m \in Pending(frames[i])
      <4>1. PICK i \in 1 .. k : m \in Pending(frames[i])
        BY <3>2
      <4>2. i \in DOMAIN frames' /\ m \in Pending(frames'[i])
        BY <1>3, <4>1
      <4> QED BY <4>2 DEF Owing
    <3>3. CASE k + 1 \in DOMAIN frames' /\ m \in Pending(frames'[k + 1])
      BY <3>3 DEF Owing
    <3> QED BY <3>1, <3>2, <3>3
  <2> HIDE DEF Owing, Named
  <2> QED BY <2>1, SoundMore
<1> QED
  BY <1>10, <1>11, <1>12, <1>13, <1>14 DEF PendInv, Promised

\* What holds where an action starts.
LEMMA LFacts ==
  ASSUME LInv
  PROVE  /\ IInv /\ BaseInv /\ PendInv /\ Sound(enc, Owing \cup Named)
         /\ enc \in Encoder /\ enc.next \in Nat /\ enc.offset \in [Labels -> Nat \cup {-1}]
         /\ DOMAIN frames = 1 .. Len(frames) /\ Len(frames) \in Nat
         /\ \A i \in DOMAIN frames : frames[i] \in GoodFrame
BY FrameFacts DEF LInv, IInv, PendInv

\* A step that leaves the frames alone and places no label.
LEMMA Rested ==
  ASSUME LInv, BaseInv', UNCHANGED <<frames, sym>>, enc'.next = enc.next,
         enc'.offset = enc.offset, Sound(enc', Owing \cup Named)
  PROVE  PendInv'
<1> DEFINE k == Len(frames)
           R == Owing \cup Named
<1>1. k \in Nat /\ DOMAIN frames = 1 .. k /\ k + 1 \notin DOMAIN frames /\ enc.next \in Nat
      /\ FreshUnplaced
  BY LFacts DEF PendInv
<1>2. Len(frames') = k /\ DOMAIN frames' = 1 .. k
  BY <1>1
<1>3. \A m \in R \cap Labels : m \in Named \/ \E i \in 1 .. k : m \in Pending(frames[i])
  BY <1>1 DEF Owing
<1>4. {} \in SUBSET Labels /\ k + 1 \notin DOMAIN frames'
  BY <1>1
<1>5. Sound(enc', R)
  OBVIOUS
<1>6. \A i \in 1 .. k : frames'[i] = frames[i]
  OBVIOUS
<1>7. \A m \in Labels : m > enc'.next => enc'.offset[m] = -1
  BY <1>1 DEF FreshUnplaced
<1> HIDE DEF k, R
<1>8. k <= Len(frames) /\ k <= Len(frames') /\ Len(frames') <= k + 1 /\ enc.next <= enc'.next
  BY <1>1, <1>2 DEF k
<1> QED
  BY <1>1, <1>3, <1>4, <1>5, <1>6, <1>7, <1>8, Moved

\* What closing the innermost frame starts from: its block left.
LEMMA TopFacts ==
  ASSUME LInv, frames # <<>>
  PROVE  LET x == Leave(enc, Top.block)
         IN  /\ Sound(x, Owing \cup Named) /\ x \in Encoder
             /\ x.next = enc.next /\ x.use = enc.use /\ x.offset = enc.offset
             /\ Restricted /\ Top.block => Dead(x)
             /\ Top \in GoodFrame /\ Distinct(Top) /\ Pending(Top) \subseteq Owing
             /\ Pending(Top) \subseteq Labels /\ Back(Top) \subseteq Labels
             /\ \A m \in Pending(Top) : x.offset[m] = -1
             /\ Promised => \A m \in Back(Top) :
                              x.offset[m] >= 0 \/ (StripUnreachableLabels /\ Top.block)
             /\ Restricted /\ Top.block => \A m \in FrameLabels(Top) \cap Labels : x.use[m] = 0
<1> DEFINE n == Len(frames)
           x == Leave(enc, Top.block)
<1>1. n \in Nat \ {0} /\ Top \in GoodFrame /\ Top = frames[n] /\ n \in DOMAIN frames
  BY PopFacts, LFacts DEF IInv, BaseInv, Top
<1>2. Top.block \in BOOLEAN
  BY <1>1 DEF GoodFrame, Frame
<1>3. /\ x \in Encoder /\ x.next = enc.next /\ x.use = enc.use
      /\ Restricted => (Dead(x) <=> Top.block)
  BY LFacts, BlockLeft
<1>4. Quiet(enc, x)
  BY <1>2, LFacts, LeaveQuiet
<1>5. Sound(x, Owing \cup Named) /\ x.offset = enc.offset
  <2> HIDE DEF x
  <2> QED BY <1>4, LFacts, QuietSound DEF Quiet
<1>6. Pending(Top) \subseteq Labels /\ Back(Top) \subseteq Labels
  BY <1>1, PendingLabels
<1>7. Pending(Top) \subseteq Owing
  BY <1>1, <1>6 DEF Owing
<1>8. /\ Distinct(Top) /\ \A m \in Pending(Top) : enc.offset[m] = -1
      /\ Promised => \A m \in Back(Top) : enc.offset[m] >= 0 \/ (StripUnreachableLabels /\ Top.block)
  BY <1>1, LFacts DEF PendInv, FramesPending, BackPlaced
<1>9. Restricted /\ Top.block => \A m \in FrameLabels(Top) \cap Labels : enc.use[m] = 0
  BY <1>1, LFacts DEF IInv, FlagInv, Nested
<1> HIDE DEF x
<1>10. \A m \in Pending(Top) : x.offset[m] = -1
  BY <1>5, <1>8
<1> QED
  BY <1>1, <1>3, <1>5, <1>6, <1>7, <1>8, <1>9, <1>10 DEF x

\* Closing a statement: the calls after the block place what was pending.
LEMMA Popped ==
  ASSUME LInv, IInv', frames # <<>>, NEW e,
         Sound(e, (Owing \cup Named) \ Pending(Top)),
         e.next = enc.next,
         \A m \in Labels \ Pending(Top) : e.offset[m] = enc.offset[m],
         Close(e)
  PROVE  LInv'
<1> DEFINE n == Len(frames)
           k == n - 1
           R == (Owing \cup Named) \ Pending(Top)
<1>1. /\ enc' = Leave(e, Top.stmt) /\ frames' = Pop /\ sym' = sym
  BY DEF Close
<1>2. /\ n \in Nat \ {0} /\ Top \in GoodFrame /\ Len(Pop) = k
      /\ \A i \in 1 .. k : Pop[i] = frames[i]
      /\ DOMAIN frames = 1 .. n /\ n \in DOMAIN frames /\ Top = frames[n]
  <2>1. frames \in Seq(GoodFrame) /\ DOMAIN frames = 1 .. n
    BY LFacts DEF BaseInv
  <2>2. /\ n \in Nat \ {0} /\ Top \in GoodFrame /\ Len(Pop) = k
        /\ \A i \in 1 .. k : Pop[i] = frames[i]
    BY <2>1, PopFacts
  <2> QED BY <2>1, <2>2 DEF Top
<1>3. k \in Nat /\ k <= n /\ k # n /\ \A i \in 1 .. k : i \in DOMAIN frames /\ i # n
  BY <1>2
<1>4. Pending(Top) \in SUBSET Labels
  BY TopFacts
<1> HIDE DEF R, k
<1>5. Top.stmt \in BOOLEAN /\ e \in Encoder
  BY <1>2 DEF GoodFrame, Frame, Sound
<1>6. Quiet(e, enc') /\ enc'.next = e.next
  BY <1>1, <1>5, LeaveQuiet
<1>7. Sound(enc', R)
  BY <1>6, QuietSound DEF R
<1>8. enc'.next = enc.next /\ \A m \in Labels \ Pending(Top) : enc'.offset[m] = enc.offset[m]
  BY <1>6 DEF Quiet
<1>9. DOMAIN frames' = 1 .. k /\ Len(frames') = k /\ k + 1 \notin DOMAIN frames'
      /\ \A i \in 1 .. k : frames'[i] = frames[i]
  <2>1. frames' \in Seq(GoodFrame)
    BY DEF IInv, BaseInv
  <2>2. Len(frames') = k /\ \A i \in 1 .. k : frames'[i] = frames[i]
    BY <1>1, <1>2
  <2>3. DOMAIN frames' = 1 .. k
    BY <2>1, <2>2, LenProperties
  <2>4. k + 1 \notin 1 .. k
    BY <1>3
  <2> QED BY <2>2, <2>3, <2>4
<1>10. \A i \in 1 .. k : \A m \in Pending(frames[i]) : m \notin Pending(Top)
  BY <1>2, <1>3, LFacts DEF PendInv, FramesPending
<1>11. \A m \in Pending(Top) : enc.offset[m] = -1 /\ m \notin Named
  BY <1>2, LFacts DEF PendInv, FramesPending
<1>12. \A m \in Labels : m > enc'.next => enc'.offset[m] = -1
  <2>1. \A m \in Labels : m > enc.next => enc.offset[m] = -1
    BY LFacts DEF PendInv, FreshUnplaced
  <2>2. \A m \in Pending(Top) : m <= enc.next /\ m \in Labels
    BY <1>2, <1>4, LFacts DEF PendInv, FramesPending
  <2>3. \A m \in Labels : m > enc.next => m \notin Pending(Top)
    BY <2>2, LFacts, LabelsFact
  <2> QED BY <1>8, <2>1, <2>3
<1>13. \A m \in R \cap Labels : m \in Named \/ \E i \in 1 .. k : m \in Pending(frames[i])
  <2>1. \A i \in DOMAIN frames : i \in 1 .. k \/ i = n
    BY <1>2 DEF k
  <2> QED BY <1>2, <2>1 DEF R, Owing
<1>14. k <= Len(frames) /\ k <= Len(frames') /\ Len(frames') <= k + 1 /\ enc.next <= enc'.next
  <2>1. enc.next \in Nat
    BY LFacts
  <2> QED BY <1>3, <1>8, <1>9, <2>1
<1>15. PendInv'
  BY <1>1, <1>3, <1>4, <1>7, <1>8, <1>9, <1>10, <1>11, <1>12, <1>13, <1>14, Moved DEF IInv
<1> QED
  BY <1>15 DEF LInv

\* Opening a statement with n new labels, of which P are placed at once.
LEMMA Pushed ==
  ASSUME LInv, IInv', NEW n \in Nat, CanAlloc(enc, n), NEW e, NEW g \in Frame, NEW P,
         After(Enter(AllocLabels(enc, n)), e, P),
         Sound(e, (Owing \cup Named) \cup Pending(g)),
         P \subseteq {enc.next + i : i \in 1 .. n},
         Pending(g) \subseteq {enc.next + i : i \in 1 .. n} \ P,
         Distinct(g),
         Promised => \A m \in Back(g) : e.offset[m] >= 0 \/ (StripUnreachableLabels /\ Dead(e)),
         Open(e, g)
  PROVE  LInv'
<1> DEFINE k == Len(frames)
           a == Enter(AllocLabels(enc, n))
           h == [g EXCEPT !.block = SavedEntire(e)]
           new == {enc.next + i : i \in 1 .. n}
           R == (Owing \cup Named) \cup Pending(g)
<1>1. enc' = Enter(e) /\ frames' = Append(frames, h) /\ sym' = sym
  BY DEF Open
<1>2. /\ Pending(h) = Pending(g) /\ Back(h) = Back(g) /\ (Distinct(h) <=> Distinct(g))
      /\ h.block = Dead(e)
  <2>1. /\ h.kind = g.kind /\ h.top = g.top /\ h.exit = g.exit /\ h.cont = g.cont
        /\ h.mark = g.mark /\ h.hush = g.hush /\ h.block = SavedEntire(e)
    BY DEF Frame
  <2> HIDE DEF h
  <2> QED BY <2>1 DEF Pending, Back, Distinct, SavedEntire, Dead
<1> HIDE DEF h
<1>3. /\ a.next = enc.next + n /\ a.offset = enc.offset /\ new \subseteq Labels
      /\ \A m \in new : m > enc.next /\ m <= enc.next + n
  <2>1. /\ AllocLabels(enc, n) \in Encoder /\ AllocLabels(enc, n).next = enc.next + n
        /\ new \subseteq Labels
    BY LFacts, AllocType
  <2>2. Quiet(enc, AllocLabels(enc, n))
    BY LFacts, AllocQuiet
  <2>3. Quiet(AllocLabels(enc, n), a) /\ a.next = AllocLabels(enc, n).next
    BY <2>1, EnterQuiet
  <2>4. \A m \in new : m > enc.next /\ m <= enc.next + n
    BY LFacts
  <2> HIDE DEF new, a
  <2> QED BY <2>1, <2>2, <2>3, <2>4 DEF Quiet
<1>4. k \in Nat /\ DOMAIN frames = 1 .. k /\ frames \in Seq(GoodFrame) /\ enc.next \in Nat
      /\ FreshUnplaced
  BY LFacts DEF BaseInv, PendInv
<1>5. /\ Len(frames') = k + 1 /\ frames'[k + 1] = h
      /\ \A i \in 1 .. k : frames'[i] = frames[i]
  <2>1. frames \in Seq(GoodFrame \cup {h})
    <3>1. \A i \in 1 .. k : frames[i] \in GoodFrame \cup {h}
      BY <1>4, LFacts
    <3> QED BY <1>4, <3>1, SeqDef
  <2> QED BY <1>1, <1>4, <2>1, AppendProperties
<1> HIDE DEF a, new, k, R
<1>6. e \in Encoder /\ Quiet(e, enc') /\ enc'.next = e.next
  BY <1>1, EnterQuiet DEF Sound
<1>7. /\ enc'.next = enc.next + n
      /\ \A m \in Labels \ P : enc'.offset[m] = enc.offset[m]
      /\ P \subseteq new /\ Pending(g) \subseteq new \ P
  BY <1>3, <1>6 DEF After, Quiet, a, new
<1>8. Sound(enc', R)
  BY <1>6, QuietSound DEF R
<1>9. \A m \in Labels : m <= enc.next \/ m > enc'.next => m \notin P
  <2>1. ASSUME NEW m \in Labels, m \in P
        PROVE  m \in Nat /\ m > enc.next /\ m <= enc'.next
    BY <1>3, <1>7, <2>1, LabelsFact
  <2>2. enc.next \in Nat /\ enc'.next \in Nat
    BY <1>1, <1>4, <1>6 DEF Quiet, Encoder
  <2> QED BY ONLY <2>1, <2>2
<1>10. \A m \in Labels \ {} : m <= enc.next => enc'.offset[m] = enc.offset[m]
  BY <1>7, <1>9
<1>11. \A m \in Labels : m > enc'.next => enc'.offset[m] = -1
  <2>1. \A m \in Labels : m > enc'.next => m > enc.next
    BY <1>4, <1>7, LabelsFact
  <2> QED BY <1>4, <1>7, <1>9, <2>1 DEF FreshUnplaced
<1>12. \A m \in Pending(h) : m > enc.next /\ m <= enc'.next /\ enc'.offset[m] = -1
  BY <1>2, <1>3, <1>4, <1>7 DEF FreshUnplaced
<1>13. Promised => \A m \in Back(h) : enc'.offset[m] >= 0 \/ (StripUnreachableLabels /\ h.block)
  BY <1>2, <1>6 DEF Quiet
<1>14. \A m \in R \cap Labels : \/ m \in Named
                                \/ \E i \in 1 .. k : m \in Pending(frames[i])
                                \/ m \in Pending(h)
  BY <1>2, <1>4, SMTT(30) DEF R, Owing
<1>15. k + 1 \in DOMAIN frames'
  <2>1. frames' \in Seq(GoodFrame)
    BY DEF IInv, BaseInv
  <2> QED BY <1>4, <1>5, <2>1, LenProperties
<1>16. k <= Len(frames) /\ k <= Len(frames') /\ Len(frames') <= k + 1 /\ enc.next <= enc'.next
  BY <1>4, <1>5, <1>7 DEF k
<1>17. {} \in SUBSET Labels /\ BaseInv' /\ Distinct(h)
  BY <1>2 DEF IInv
<1>18. PendInv'
  BY ONLY <1>1, <1>4, <1>5, <1>8, <1>10, <1>11, <1>12, <1>13, <1>14, <1>15, <1>16, <1>17, Moved, LInv, IInv', ZenonT(60)
<1> QED
  BY <1>18 DEF LInv

-----------------------------------------------------------------------------
(* Opening a statement.                                                    *)
LEMMA OpenStart ==
  ASSUME LInv, NEW n \in Nat, CanAlloc(enc, n)
  PROVE  LET a == Enter(AllocLabels(enc, n))
         IN  /\ Sound(a, Owing \cup Named)
             /\ \A i \in 1 .. n : /\ enc.next + i \in Labels /\ a.offset[enc.next + i] = -1
                                  /\ Restricted => a.use[enc.next + i] = 0
<1> DEFINE a == Enter(AllocLabels(enc, n))
           b == AllocLabels(enc, n)
<1>1. /\ b \in Encoder /\ \A i \in 1 .. n : enc.next + i \in Labels
      /\ Quiet(enc, b)
  BY LFacts, AllocType, AllocQuiet
<1>2. Quiet(b, a)
  <2> HIDE DEF b
  <2> QED BY <1>1, EnterQuiet DEF b
<1> HIDE DEF a, b
<1>3. Sound(a, Owing \cup Named)
  <2>1. Sound(b, Owing \cup Named)
    BY <1>1, LFacts, QuietSound
  <2> QED BY <1>2, <2>1, QuietSound
<1>4. \A i \in 1 .. n : enc.next + i > enc.next
  BY LFacts
<1>5. FreshUnplaced /\ (Restricted => Fresh(enc)) /\ a.offset = enc.offset /\ a.use = enc.use
  BY <1>1, <1>2, LFacts DEF Quiet, PendInv, IInv, FlagInv
<1>6. \A i \in 1 .. n : /\ a.offset[enc.next + i] = -1
                        /\ Restricted => a.use[enc.next + i] = 0
  BY <1>1, <1>4, <1>5 DEF FreshUnplaced, Fresh
<1> QED
  BY <1>1, <1>3, <1>6 DEF a

\* A label placed on the way, when the way is dead to its end if it is dead.
LEMMA BackKept ==
  ASSUME NEW a, NEW e, NEW P, After(a, e, P), NEW m,
         e.offset[m] >= 0 \/ (StripUnreachableLabels /\ Dead(a)),
         Restricted => \A l \in P : a.use[l] = 0
  PROVE  Promised => e.offset[m] >= 0 \/ (StripUnreachableLabels /\ Dead(e))
BY DEF After, Promised, Restricted

LEMMA OpenBlockL ==
  ASSUME LInv, OpenBlock
  PROVE  LInv'
<1> DEFINE a == Enter(AllocLabels(enc, 0))
           g == NewFrame("block", NoLabel, NoLabel, NoLabel)
<1>0. IInv'
  BY LFacts, OpenBlockKeeps
<1>1. CanAlloc(enc, 0) /\ Open(Enter(enc), g)
  BY DEF OpenBlock, CanOpen
<1>2. AllocLabels(enc, 0) = enc
  BY LFacts DEF AllocLabels, Encoder
<1>3. FrameIs(g, "block", NoLabel, NoLabel, NoLabel)
  BY NewFrameOK, LabelsFact DEF Kinds
<1>4. g \in Frame /\ Pending(g) = {} /\ Back(g) = {} /\ Distinct(g)
  <2> HIDE DEF g
  <2> QED BY <1>3 DEF FrameIs, Pending, Back, Distinct
<1>5. Sound(a, Owing \cup Named)
  BY <1>1, OpenStart
<1> HIDE DEF g
<1>6. After(a, a, {})
  BY DEF After
<1>7. Open(a, g)
  BY <1>1, <1>2
<1> HIDE DEF a
<1>8. Sound(a, (Owing \cup Named) \cup Pending(g))
  BY <1>4, <1>5
<1> QED
  BY <1>0, <1>1, <1>4, <1>6, <1>7, <1>8, Pushed DEF a

LEMMA OpenIfL ==
  ASSUME LInv, NEW cond \in Conds, OpenIf(cond)
  PROVE  LInv'
<1> DEFINE l == enc.next + 1
           Q == Owing \cup Named
           a == Enter(AllocLabels(enc, 1))
           b == BranchUnless(a, cond, l)
           e == NoWarnIf(b, Reachable(enc))
           g == NewFrame("if", l, NoLabel, NoLabel)
<1>0. IInv'
  BY LFacts, OpenIfKeeps
<1>1. CanAlloc(enc, 1) /\ Open(e, g)
  BY DEF OpenIf, CanOpen
<1>2. Sound(a, Q) /\ l \in Labels
  <2>1. 1 \in 1 .. 1
    OBVIOUS
  <2>2. enc.next \in Nat
    BY LFacts
  <2>3. /\ Sound(a, Q)
        /\ \A i \in 1 .. 1 : /\ enc.next + i \in Labels /\ a.offset[enc.next + i] = -1
                             /\ Restricted => a.use[enc.next + i] = 0
    BY <1>1, OpenStart
  <2> HIDE DEF a, Q
  <2> QED BY <2>1, <2>2, <2>3
<1>3. FrameIs(g, "if", l, NoLabel, NoLabel)
  BY <1>2, NewFrameOK, LabelsFact DEF Kinds
<1> HIDE DEF g
<1>4. g \in Frame /\ Pending(g) = {l} /\ Back(g) = {} /\ Distinct(g)
  BY <1>3 DEF FrameIs, Pending, Back, Distinct
<1>5. Sound(e, Q \cup {l}) /\ After(a, e, {})
  <2> HIDE DEF l, a, Q
  <2>1. Sound(a, Q \cup {l})
    BY <1>2, SoundMore
  <2>2. Sound(b, Q \cup {l}) /\ After(a, b, {})
    BY <1>2, <2>1, BranchUnlessSound
  <2> HIDE DEF b
  <2>3. Sound(e, Q \cup {l}) /\ After(b, e, {})
    <3>1. CASE e = b
      BY <2>2, <3>1 DEF After
    <3>2. CASE e = NoWarn(b)
      <4>1. Quiet(b, NoWarn(b)) /\ NoWarn(b).next = b.next /\ (Dead(NoWarn(b)) <=> Dead(b))
        BY <2>2, NoWarnQuiet DEF Sound
      <4> QED BY <2>2, <3>2, <4>1, QuietSound, QuietAfter
    <3> QED BY <3>1, <3>2 DEF NoWarnIf
  <2> HIDE DEF e
  <2>4. After(a, e, {} \cup {})
    BY <2>2, <2>3, AfterTrans
  <2> QED BY <2>3, <2>4
<1> HIDE DEF e
<1>6. {l} \subseteq {enc.next + i : i \in 1 .. 1} \ {}
  OBVIOUS
<1> HIDE DEF l
<1> QED
  BY <1>0, <1>1, <1>4, <1>5, <1>6, Pushed DEF a

LEMMA OpenWhileL ==
  ASSUME LInv, NEW cond \in Conds, OpenWhile(cond)
  PROVE  LInv'
<1> DEFINE top  == enc.next + 1
           exit == enc.next + 2
           Q == Owing \cup Named
           a == Enter(AllocLabels(enc, 2))
           b == AssembleLabel(a, top)
           e == BranchUnless(b, cond, exit)
           g == NewFrame("while", top, exit, top)
<1>0. IInv'
  BY LFacts, OpenWhileKeeps
<1>1. CanAlloc(enc, 2) /\ Open(e, g)
  BY DEF OpenWhile, CanOpen
<1>2. Sound(a, Q) /\ top \in Labels /\ exit \in Labels /\ top # exit
      /\ a.offset[top] = -1 /\ (Restricted => a.use[top] = 0)
  <2>1. 1 \in 1 .. 2 /\ 2 \in 1 .. 2
    OBVIOUS
  <2>2. enc.next \in Nat
    BY LFacts
  <2>3. /\ Sound(a, Q)
        /\ \A i \in 1 .. 2 : /\ enc.next + i \in Labels /\ a.offset[enc.next + i] = -1
                             /\ Restricted => a.use[enc.next + i] = 0
    BY <1>1, OpenStart
  <2> HIDE DEF a, Q
  <2> QED BY <2>1, <2>2, <2>3
<1>3. FrameIs(g, "while", top, exit, top)
  BY <1>2, NewFrameOK, LabelsFact DEF Kinds
<1> HIDE DEF g
<1>4. g \in Frame /\ Pending(g) = {exit} /\ Back(g) = {top} /\ Distinct(g)
  BY <1>3 DEF FrameIs, Pending, Back, Distinct
<1>5. /\ Sound(e, Q \cup {exit}) /\ After(a, e, {top})
      /\ e.offset[top] >= 0 \/ (StripUnreachableLabels /\ Dead(a))
  <2> HIDE DEF top, exit, a, Q
  <2>1. Sound(a, Q \cup {exit})
    BY <1>2, SoundMore
  <2>2. /\ Sound(b, (Q \cup {exit}) \ {top}) /\ After(a, b, {top})
        /\ b.offset[top] >= 0 \/ (StripUnreachableLabels /\ Dead(a))
    BY <1>2, <2>1, AssembleLabelSound
  <2> HIDE DEF b
  <2>3. exit \in (Q \cup {exit}) \ {top}
    BY <1>2
  <2>4. Sound(e, (Q \cup {exit}) \ {top}) /\ After(b, e, {})
    BY <1>2, <2>2, <2>3, BranchUnlessSound
  <2> HIDE DEF e
  <2>5. Sound(e, Q \cup {exit}) /\ After(a, e, {top} \cup {}) /\ e.offset[top] = b.offset[top]
    BY <1>2, <2>2, <2>4, SoundMore, AfterTrans DEF After
  <2> QED BY <2>2, <2>5
<1> HIDE DEF e
<1>6. {exit} \subseteq {enc.next + i : i \in 1 .. 2} \ {top} /\ {top} \subseteq {enc.next + i : i \in 1 .. 2}
  BY LFacts
<1> HIDE DEF top, exit
<1>7. Promised => \A m \in Back(g) : e.offset[m] >= 0 \/ (StripUnreachableLabels /\ Dead(e))
  BY <1>2, <1>4, <1>5, BackKept
<1> QED
  BY <1>0, <1>1, <1>4, <1>5, <1>6, <1>7, Pushed DEF a

LEMMA OpenDoL ==
  ASSUME LInv, OpenDo
  PROVE  LInv'
<1> DEFINE top  == enc.next + 1
           cont == enc.next + 2
           exit == enc.next + 3
           Q == Owing \cup Named
           a == Enter(AllocLabels(enc, 3))
           e == AssembleLabel(a, top)
           g == NewFrame("do", top, exit, cont)
<1>0. IInv'
  BY LFacts, OpenDoKeeps
<1>1. CanAlloc(enc, 3) /\ Open(e, g)
  BY DEF OpenDo, CanOpen
<1>2. Sound(a, Q) /\ top \in Labels /\ exit \in Labels /\ cont \in Labels
      /\ a.offset[top] = -1 /\ (Restricted => a.use[top] = 0)
  <2>1. 1 \in 1 .. 3 /\ 2 \in 1 .. 3 /\ 3 \in 1 .. 3
    OBVIOUS
  <2>2. enc.next \in Nat
    BY LFacts
  <2>3. /\ Sound(a, Q)
        /\ \A i \in 1 .. 3 : /\ enc.next + i \in Labels /\ a.offset[enc.next + i] = -1
                             /\ Restricted => a.use[enc.next + i] = 0
    BY <1>1, OpenStart
  <2> HIDE DEF a, Q
  <2> QED BY <2>1, <2>2, <2>3
<1>3. FrameIs(g, "do", top, exit, cont) /\ cont # exit
  BY <1>2, NewFrameOK, LabelsFact, LFacts DEF Kinds
<1> HIDE DEF g
<1>4. g \in Frame /\ Pending(g) = {cont, exit} /\ Back(g) = {top} /\ Distinct(g)
  <2> HIDE DEF top, cont, exit
  <2> QED BY <1>3 DEF FrameIs, Pending, Back, Distinct
<1>5. /\ Sound(e, Q \cup {cont, exit}) /\ After(a, e, {top})
      /\ e.offset[top] >= 0 \/ (StripUnreachableLabels /\ Dead(a))
  <2> HIDE DEF top, exit, cont, a, Q
  <2>1. /\ Sound(e, Q \ {top}) /\ After(a, e, {top})
        /\ e.offset[top] >= 0 \/ (StripUnreachableLabels /\ Dead(a))
    BY <1>2, AssembleLabelSound
  <2> HIDE DEF e
  <2> QED BY <2>1, SoundMore
<1> HIDE DEF e
<1>6. {cont, exit} \subseteq {enc.next + i : i \in 1 .. 3} \ {top} /\ {top} \subseteq {enc.next + i : i \in 1 .. 3}
  BY LFacts
<1> HIDE DEF top, exit, cont
<1>7. Promised => \A m \in Back(g) : e.offset[m] >= 0 \/ (StripUnreachableLabels /\ Dead(e))
  BY <1>2, <1>4, <1>5, BackKept
<1> QED
  BY <1>0, <1>1, <1>4, <1>5, <1>6, <1>7, Pushed DEF a

LEMMA OpenSwitchL ==
  ASSUME LInv, OpenSwitch
  PROVE  LInv'
<1> DEFINE exit == enc.next + 1
           Q == Owing \cup Named
           a == Enter(AllocLabels(enc, 1))
           e == Assemble(a, "plain", NoLabel)
           g == NewFrame("switch", NoLabel, exit, NoLabel)
<1>0. IInv'
  BY LFacts, OpenSwitchKeeps
<1>1. CanAlloc(enc, 1) /\ Open(e, g)
  BY DEF OpenSwitch, CanOpen
<1>2. Sound(a, Q) /\ exit \in Labels
  <2>1. 1 \in 1 .. 1
    OBVIOUS
  <2>2. enc.next \in Nat
    BY LFacts
  <2>3. /\ Sound(a, Q)
        /\ \A i \in 1 .. 1 : /\ enc.next + i \in Labels /\ a.offset[enc.next + i] = -1
                             /\ Restricted => a.use[enc.next + i] = 0
    BY <1>1, OpenStart
  <2> HIDE DEF a, Q
  <2> QED BY <2>1, <2>2, <2>3
<1>3. FrameIs(g, "switch", NoLabel, exit, NoLabel)
  BY <1>2, NewFrameOK, LabelsFact DEF Kinds
<1> HIDE DEF g
<1>4. g \in Frame /\ Pending(g) = {exit} /\ Back(g) = {} /\ Distinct(g)
  BY <1>3 DEF FrameIs, Pending, Back, Distinct
<1>5. Sound(e, Q \cup {exit}) /\ After(a, e, {})
  <2> HIDE DEF exit, a, Q
  <2>1. NoLabel \in Target /\ "plain" \in Ops
    BY LabelsFact DEF Ops
  <2>2. Sound(e, Q) /\ After(a, e, {})
    BY <1>2, <2>1, AssembleSound
  <2> HIDE DEF e
  <2> QED BY <2>2, SoundMore
<1> HIDE DEF e
<1>6. {exit} \subseteq {enc.next + i : i \in 1 .. 1} \ {}
  OBVIOUS
<1> HIDE DEF exit
<1> QED
  BY <1>0, <1>1, <1>4, <1>5, <1>6, Pushed DEF a

LEMMA OpenForL ==
  ASSUME LInv, NEW u \in Updates, NEW cond \in Conds, OpenFor(u, cond)
  PROVE  LInv'
<1> DEFINE ln  == enc.next + 1
           ln2 == enc.next + 2
           ln3 == enc.next + 3
           Q == Owing \cup Named
           a == Enter(AllocLabels(enc, 3))
           b == AssembleLabel(a, ln)
           c == AssembleLabel(b, ln2)
           p == Assemble(a, "jump", ln2)
           q == AssembleLabel(p, ln)
           r == Assemble(q, "plain", NoLabel)
           s == AssembleLabel(r, ln2)
           top == CASE u = "none"   -> c
                    [] u = "incdec" -> b
                    [] u = "other"  -> s
           e == BranchUnless(top, cond, ln3)
           h == NewFrame("for", ln, ln3, IF u = "incdec" THEN ln2 ELSE ln)
           g == [h EXCEPT !.mark = u = "incdec"]
           P == IF u = "incdec" THEN {ln} ELSE {ln, ln2}
           W == IF u = "incdec" THEN {ln2, ln3} ELSE {ln3}
           Dd == StripUnreachableLabels /\ Dead(a)
<1>0. IInv'
  BY LFacts, OpenForKeeps
<1>1. CanAlloc(enc, 3) /\ Open(e, g)
  BY DEF OpenFor, CanOpen
<1>2. /\ Sound(a, Q) /\ ln \in Labels /\ ln2 \in Labels /\ ln3 \in Labels
      /\ ln # ln2 /\ ln # ln3 /\ ln2 # ln3 /\ a.offset[ln] = -1 /\ a.offset[ln2] = -1
      /\ Restricted => a.use[ln] = 0 /\ a.use[ln2] = 0
  <2>1. 1 \in 1 .. 3 /\ 2 \in 1 .. 3 /\ 3 \in 1 .. 3
    OBVIOUS
  <2>2. enc.next \in Nat
    BY LFacts
  <2>3. /\ Sound(a, Q)
        /\ \A i \in 1 .. 3 : /\ enc.next + i \in Labels /\ a.offset[enc.next + i] = -1
                             /\ Restricted => a.use[enc.next + i] = 0
    BY <1>1, OpenStart
  <2> HIDE DEF a, Q
  <2> QED BY <2>1, <2>2, <2>3
<1>3. FrameIs(h, "for", ln, ln3, IF u = "incdec" THEN ln2 ELSE ln)
  <2>1. (IF u = "incdec" THEN ln2 ELSE ln) \in Target
    BY <1>2, LabelsFact
  <2> QED
    BY <1>2, <2>1, NewFrameOK, LabelsFact DEF Kinds
<1> HIDE DEF h
<1>4. g \in Frame /\ Pending(g) = W /\ Back(g) = {ln} /\ Distinct(g)
  <2>1. /\ g \in Frame /\ g.kind = "for" /\ g.top = h.top /\ g.exit = h.exit /\ g.cont = h.cont
        /\ g.mark = (u = "incdec")
    BY <1>3 DEF FrameIs, Frame
  <2> HIDE DEF g, ln, ln2, ln3
  <2> QED BY <1>2, <1>3, <2>1 DEF FrameIs, Pending, Back, Distinct
<1> HIDE DEF g
<1>5. /\ Sound(top, (Q \cup {ln2, ln3}) \ P) /\ After(a, top, P)
      /\ top.offset[ln] >= 0 \/ Dd
  <2> HIDE DEF ln, ln2, ln3, a, Q
  <2>1. Sound(a, Q \cup {ln2, ln3})
    BY <1>2, SoundMore
  <2>2. /\ Sound(b, (Q \cup {ln2, ln3}) \ {ln}) /\ After(a, b, {ln}) /\ (b.offset[ln] >= 0 \/ Dd)
    BY <1>2, <2>1, AssembleLabelSound
  <2>3. CASE u = "incdec"
    <3>1. top = b
      BY <2>3
    <3> HIDE DEF b
    <3> QED BY <2>2, <2>3, <3>1
  <2>4. CASE u = "none"
    <3>1. b.offset[ln2] = -1
      BY <1>2, <2>2 DEF After
    <3> HIDE DEF b
    <3>2. Sound(c, ((Q \cup {ln2, ln3}) \ {ln}) \ {ln2}) /\ After(b, c, {ln2})
      BY <1>2, <2>2, <3>1, AssembleLabelSound
    <3> HIDE DEF c
    <3>3. After(a, c, {ln} \cup {ln2}) /\ c.offset[ln] = b.offset[ln]
      BY <1>2, <2>2, <3>2, AfterTrans DEF After
    <3>4. top = c /\ P = {ln} \cup {ln2}
          /\ ((Q \cup {ln2, ln3}) \ {ln}) \ {ln2} = (Q \cup {ln2, ln3}) \ ({ln} \cup {ln2})
      BY <2>4
    <3> QED BY <2>2, <3>2, <3>3, <3>4
  <2>5. CASE u = "other"
    <3>1. ln2 \in Target /\ NoLabel \in Target /\ "jump" \in Ops /\ "plain" \in Ops
      BY <1>2, LabelsFact DEF Ops
    <3>2. Sound(p, Q \cup {ln2, ln3}) /\ After(a, p, {})
      BY <2>1, <3>1, AssembleSound
    <3> HIDE DEF p
    <3>3. p.offset[ln] = -1
      BY <1>2, <3>2 DEF After
    <3>4. /\ Sound(q, (Q \cup {ln2, ln3}) \ {ln}) /\ After(p, q, {ln})
          /\ q.offset[ln] >= 0 \/ (StripUnreachableLabels /\ Dead(p))
      BY <1>2, <3>2, <3>3, AssembleLabelSound
    <3> HIDE DEF q
    <3>5. Sound(r, (Q \cup {ln2, ln3}) \ {ln}) /\ After(q, r, {})
      BY <3>1, <3>4, AssembleSound
    <3> HIDE DEF r
    <3>6. r.offset[ln2] = -1 /\ r.offset[ln] = q.offset[ln]
      BY <1>2, <3>2, <3>4, <3>5 DEF After
    <3>7. Sound(s, ((Q \cup {ln2, ln3}) \ {ln}) \ {ln2}) /\ After(r, s, {ln2})
      BY <1>2, <3>5, <3>6, AssembleLabelSound
    <3> HIDE DEF s
    <3>8. After(a, q, {} \cup {ln})
      BY <3>2, <3>4, AfterTrans
    <3>9. After(a, r, ({} \cup {ln}) \cup {})
      BY <3>5, <3>8, AfterTrans
    <3>10. After(a, s, (({} \cup {ln}) \cup {}) \cup {ln2})
      BY <3>7, <3>9, AfterTrans
    <3>11. s.offset[ln] = q.offset[ln] /\ (q.offset[ln] >= 0 \/ Dd)
      BY <1>2, <3>2, <3>4, <3>6, <3>7 DEF After
    <3>12. top = s /\ P = (({} \cup {ln}) \cup {}) \cup {ln2}
           /\ ((Q \cup {ln2, ln3}) \ {ln}) \ {ln2} = (Q \cup {ln2, ln3}) \ ({ln} \cup {ln2})
           /\ P = {ln} \cup {ln2}
      BY <2>5
    <3> QED BY <3>7, <3>10, <3>11, <3>12
  <2> QED BY <2>3, <2>4, <2>5 DEF Updates
<1> HIDE DEF top, Dd
<1>6. ln3 \in (Q \cup {ln2, ln3}) \ P /\ ln \in P
  BY <1>2
<1>7. Sound(e, (Q \cup {ln2, ln3}) \ P) /\ After(top, e, {})
  <2> HIDE DEF ln, ln2, ln3, Q, P
  <2> QED BY <1>2, <1>5, <1>6, BranchUnlessSound
<1> HIDE DEF e
<1>8. Sound(e, Q \cup W) /\ After(a, e, P) /\ (e.offset[ln] >= 0 \/ Dd)
  <2>1. ((Q \cup {ln2, ln3}) \ P) \cap Labels \subseteq Q \cup W
    OBVIOUS
  <2> HIDE DEF ln, ln2, ln3, Q, W, a, P
  <2>2. Sound(e, Q \cup W)
    BY <1>7, <2>1, SoundMore
  <2>3. After(a, e, P \cup {}) /\ e.offset[ln] = top.offset[ln]
    BY <1>2, <1>5, <1>7, AfterTrans DEF After
  <2> QED BY <1>5, <2>2, <2>3
<1>9. P \subseteq {enc.next + i : i \in 1 .. 3} /\ W \subseteq {enc.next + i : i \in 1 .. 3} \ P
  BY LFacts
<1>10. Promised => \A m \in Back(g) : e.offset[m] >= 0 \/ (StripUnreachableLabels /\ Dead(e))
  <2>1. Restricted => \A m \in P : a.use[m] = 0
    BY <1>2
  <2> HIDE DEF ln, ln2, ln3, a, P
  <2> QED BY <1>4, <1>8, <2>1, BackKept DEF Dd
<1> HIDE DEF P, W
<1> QED
  BY <1>0, <1>1, <1>4, <1>8, <1>9, <1>10, Pushed DEF a

-----------------------------------------------------------------------------
(* Closing a statement.                                                    *)

LEMMA NoWarnIfSound ==
  ASSUME NEW e, NEW Q, Sound(e, Q), NEW c
  PROVE  Sound(NoWarnIf(e, c), Q) /\ After(e, NoWarnIf(e, c), {})
<1>1. CASE NoWarnIf(e, c) = e
  BY <1>1 DEF After
<1>2. CASE NoWarnIf(e, c) = NoWarn(e)
  <2>1. Quiet(e, NoWarn(e)) /\ NoWarn(e).next = e.next /\ (Dead(NoWarn(e)) <=> Dead(e))
    BY NoWarnQuiet DEF Sound
  <2> QED BY <1>2, <2>1, QuietSound, QuietAfter
<1> QED
  BY <1>1, <1>2 DEF NoWarnIf

\* The way back to the top of a loop: the top is placed, or the way is dead.
LEMMA BackTarget ==
  ASSUME NEW x, NEW y, NEW P, After(x, y, P), NEW m \in Labels, NEW block \in BOOLEAN,
         Promised => x.offset[m] >= 0 \/ (StripUnreachableLabels /\ block),
         \A l \in P : x.offset[l] = -1,
         Restricted /\ block => Dead(x) /\ \A l \in P \cap Labels : x.use[l] = 0
  PROVE  Promised /\ Reachable(y) => y.offset[m] >= 0
<1> SUFFICES ASSUME Promised, Reachable(y) PROVE y.offset[m] >= 0
  OBVIOUS
<1>1. ~Dead(y)
  BY DEF Reachable, Dead
<1>2. x.offset[m] >= 0
  BY <1>1 DEF Promised, Restricted, After
<1>3. m \notin P
  BY <1>2
<1> QED
  BY <1>2, <1>3 DEF After

LEMMA CloseBlockL ==
  ASSUME LInv, CloseBlock
  PROVE  LInv'
<1> DEFINE x == Leave(enc, Top.block)
<1>0. IInv'
  BY LFacts, CloseBlockKeeps
<1>1. CanClose("block") /\ Close(x)
  BY DEF CloseBlock
<1>2. frames # <<>> /\ Top.kind = "block"
  BY <1>1 DEF CanClose
<1>3. Pending(Top) = {}
  BY <1>2 DEF Pending
<1>4. Sound(x, Owing \cup Named) /\ x.next = enc.next /\ x.offset = enc.offset
  BY <1>2, TopFacts
<1> HIDE DEF x
<1>5. (Owing \cup Named) \ {} = Owing \cup Named
  OBVIOUS
<1> QED
  BY <1>0, <1>1, <1>2, <1>3, <1>4, <1>5, Popped

LEMMA CloseIfL ==
  ASSUME LInv, CloseIf
  PROVE  LInv'
<1> DEFINE x == Leave(enc, Top.block)
           l == Top.top
           Q == Owing \cup Named
           y == AssembleForwardLabel(x, l)
           e == NoWarnIf(y, ~Top.pre)
<1>0. IInv'
  BY LFacts, CloseIfKeeps
<1>1. CanClose("if") /\ Close(e)
  BY DEF CloseIf
<1>2. frames # <<>> /\ Top.kind = "if"
  BY <1>1 DEF CanClose
<1>3. Pending(Top) = {l}
  BY <1>2 DEF Pending
<1>4. /\ Sound(x, Q) /\ x.next = enc.next /\ x.offset = enc.offset
      /\ l \in Labels /\ x.offset[l] = -1
  BY <1>2, <1>3, TopFacts
<1> HIDE DEF x, l, Q
<1>5. Sound(y, Q \ {l}) /\ After(x, y, {l})
  BY <1>4, ForwardLabelSound
<1> HIDE DEF y
<1>6. Sound(e, Q \ {l}) /\ After(y, e, {})
  BY <1>5, NoWarnIfSound
<1> HIDE DEF e
<1>7. e.next = enc.next /\ \A m \in Labels \ {l} : e.offset[m] = enc.offset[m]
  BY <1>4, <1>5, <1>6 DEF After
<1> QED
  BY <1>0, <1>1, <1>2, <1>3, <1>6, <1>7, Popped DEF Q

LEMMA CloseElseL ==
  ASSUME LInv, CloseElse
  PROVE  LInv'
<1> DEFINE x == Leave(enc, Top.block)
           l == Top.exit
           Q == Owing \cup Named
           w == [x EXCEPT !.exec = @ \ {"NOWARN"}]
           y == IF Reachable(x) \/ Top.mark THEN x ELSE IF Top.hush THEN NoWarn(x) ELSE w
           e == AssembleForwardLabel(y, l)
<1>0. IInv'
  BY LFacts, CloseElseKeeps
<1>1. CanClose("else") /\ Close(e)
  BY DEF CloseElse
<1>2. frames # <<>> /\ Top.kind = "else"
  BY <1>1 DEF CanClose
<1>3. Pending(Top) = {l}
  BY <1>2 DEF Pending
<1>4. /\ Sound(x, Q) /\ x.next = enc.next /\ x.offset = enc.offset
      /\ l \in Labels /\ x.offset[l] = -1
  BY <1>2, <1>3, TopFacts
<1> HIDE DEF x, l, Q
<1>5. Sound(y, Q) /\ y.next = x.next /\ y.offset = x.offset
  <2>1. x \in Encoder
    BY <1>4 DEF Sound
  <2>2. Quiet(x, NoWarn(x)) /\ NoWarn(x).next = x.next
    BY <2>1, NoWarnQuiet
  <2>3. Quiet(x, w) /\ w.next = x.next
    BY <2>1 DEF Quiet, Encoder, Flags
  <2>4. Quiet(x, x)
    BY <2>1 DEF Quiet
  <2> HIDE DEF w
  <2>5. y \in {x, NoWarn(x), w}
    OBVIOUS
  <2> HIDE DEF y
  <2>6. Quiet(x, y) /\ y.next = x.next
    BY <2>2, <2>3, <2>4, <2>5
  <2> QED BY <1>4, <2>6, QuietSound DEF Quiet
<1> HIDE DEF y
<1>6. Sound(e, Q \ {l}) /\ After(y, e, {l})
  BY <1>4, <1>5, ForwardLabelSound
<1> HIDE DEF e
<1>7. e.next = enc.next /\ \A m \in Labels \ {l} : e.offset[m] = enc.offset[m]
  BY <1>4, <1>5, <1>6 DEF After
<1> QED
  BY <1>0, <1>1, <1>2, <1>3, <1>6, <1>7, Popped DEF Q

LEMMA CloseWhileL ==
  ASSUME LInv, CloseWhile
  PROVE  LInv'
<1> DEFINE x == Leave(enc, Top.block)
           t == Top.top
           l == Top.exit
           Q == Owing \cup Named
           y == JumpIfReached(x, t)
           e == AssembleForwardLabel(y, l)
<1>0. IInv'
  BY LFacts, CloseWhileKeeps
<1>1. CanClose("while") /\ Close(e)
  BY DEF CloseWhile
<1>2. frames # <<>> /\ Top.kind = "while"
  BY <1>1 DEF CanClose
<1>3. Pending(Top) = {l} /\ Back(Top) = {t}
  BY <1>2 DEF Pending, Back
<1>4. /\ Sound(x, Q) /\ x.next = enc.next /\ x.offset = enc.offset
      /\ l \in Labels /\ x.offset[l] = -1 /\ t \in Labels
      /\ Promised => x.offset[t] >= 0 \/ (StripUnreachableLabels /\ Top.block)
      /\ Restricted /\ Top.block => Dead(x)
  BY <1>2, <1>3, TopFacts
<1>5. Top.block \in BOOLEAN
  BY <1>2, TopFacts DEF GoodFrame, Frame
<1> HIDE DEF x, l, t, Q
<1>6. Promised /\ Reachable(x) => x.offset[t] >= 0
  <2>1. After(x, x, {})
    BY DEF After
  <2> QED BY <1>4, <1>5, <2>1, BackTarget
<1>7. Sound(y, Q) /\ After(x, y, {})
  BY <1>4, <1>6, JumpIfReachedSound
<1> HIDE DEF y
<1>8. Sound(e, Q \ {l}) /\ After(y, e, {l})
  BY <1>4, <1>7, ForwardLabelSound DEF After
<1> HIDE DEF e
<1>9. e.next = enc.next /\ \A m \in Labels \ {l} : e.offset[m] = enc.offset[m]
  BY <1>4, <1>7, <1>8 DEF After
<1> QED
  BY <1>0, <1>1, <1>2, <1>3, <1>8, <1>9, Popped DEF Q

LEMMA CloseDoL ==
  ASSUME LInv, NEW cond \in Conds, CloseDo(cond)
  PROVE  LInv'
<1> DEFINE x == Leave(enc, Top.block)
           t == Top.top
           c == Top.cont
           l == Top.exit
           Q == Owing \cup Named
           y == AssembleForwardLabel(x, c)
           z == BranchUnless(y, cond, t)
           e == AssembleForwardLabel(z, l)
<1>0. IInv'
  BY LFacts, CloseDoKeeps
<1>1. CanClose("do") /\ Close(e)
  BY DEF CloseDo
<1>2. frames # <<>> /\ Top.kind = "do"
  BY <1>1 DEF CanClose
<1>3. Pending(Top) = {c, l} /\ Back(Top) = {t} /\ (Distinct(Top) => c # l) /\ c \in FrameLabels(Top)
  BY <1>2 DEF Pending, Back, Distinct, FrameLabels
<1>4. /\ Sound(x, Q) /\ x.next = enc.next /\ x.offset = enc.offset
      /\ l \in Labels /\ c \in Labels /\ x.offset[l] = -1 /\ x.offset[c] = -1 /\ c # l
      /\ t \in Labels
      /\ Promised => x.offset[t] >= 0 \/ (StripUnreachableLabels /\ Top.block)
      /\ Restricted /\ Top.block => Dead(x) /\ x.use[c] = 0
  BY <1>2, <1>3, TopFacts
<1>5. Top.block \in BOOLEAN
  BY <1>2, TopFacts DEF GoodFrame, Frame
<1> HIDE DEF x, l, t, c, Q
<1>6. Sound(y, Q \ {c}) /\ After(x, y, {c})
  BY <1>4, ForwardLabelSound
<1> HIDE DEF y
<1>7. Promised /\ Reachable(y) => y.offset[t] >= 0
  BY <1>4, <1>5, <1>6, BackTarget
<1>8. Sound(z, Q \ {c}) /\ After(y, z, {})
  BY <1>4, <1>6, <1>7, BranchUnlessSound
<1> HIDE DEF z
<1>9. z.offset[l] = -1
  BY <1>4, <1>6, <1>8 DEF After
<1>10. Sound(e, (Q \ {c}) \ {l}) /\ After(z, e, {l})
  BY <1>4, <1>8, <1>9, ForwardLabelSound
<1> HIDE DEF e
<1>11. e.next = enc.next /\ \A m \in Labels \ {c, l} : e.offset[m] = enc.offset[m]
  BY <1>4, <1>6, <1>8, <1>10 DEF After
<1>12. (Q \ {c}) \ {l} = Q \ {c, l}
  OBVIOUS
<1> QED
  BY <1>0, <1>1, <1>2, <1>3, <1>10, <1>11, <1>12, Popped DEF Q

LEMMA CloseForL ==
  ASSUME LInv, CloseFor
  PROVE  LInv'
<1> DEFINE x == Leave(enc, Top.block)
           t == Top.top
           c == Top.cont
           l == Top.exit
           Q == Owing \cup Named
           P == IF Top.mark THEN {c} ELSE {}
           a == AssembleLabel(x, c)
           b == Assemble(a, "plain", NoLabel)
           d == Assemble(b, "jump", t)
           j == JumpIfReached(x, t)
           y == IF Top.mark THEN d ELSE j
           e == AssembleForwardLabel(y, l)
<1>0. IInv'
  BY LFacts, CloseForKeeps
<1>1. CanClose("for") /\ Close(e)
  BY DEF CloseFor
<1>2. frames # <<>> /\ Top.kind = "for"
  BY <1>1 DEF CanClose
<1>3. /\ Pending(Top) = P \cup {l} /\ Back(Top) = {t} /\ c \in FrameLabels(Top)
      /\ Distinct(Top) /\ Top.mark => c # l
  BY <1>2 DEF Pending, Back, Distinct, FrameLabels
<1>4. /\ Sound(x, Q) /\ x.next = enc.next /\ x.offset = enc.offset
      /\ l \in Labels /\ x.offset[l] = -1
      /\ Top.mark => c \in Labels /\ x.offset[c] = -1 /\ c # l
      /\ t \in Labels
      /\ Promised => x.offset[t] >= 0 \/ (StripUnreachableLabels /\ Top.block)
      /\ Restricted /\ Top.block => Dead(x) /\ (Top.mark => x.use[c] = 0)
  BY <1>2, <1>3, TopFacts
<1>5. Top.block \in BOOLEAN /\ Top.mark \in BOOLEAN
  BY <1>2, TopFacts DEF GoodFrame, Frame
<1>6. \A m \in P : x.offset[m] = -1 /\ (Restricted /\ Top.block => x.use[m] = 0)
  BY <1>4
<1> HIDE DEF x, l, t, c, Q
<1>7. Sound(y, Q \ P) /\ After(x, y, P)
  <2>1. ASSUME Top.mark PROVE Sound(d, Q \ {c}) /\ After(x, d, {c})
    <3>1. Sound(a, Q \ {c}) /\ After(x, a, {c})
      BY <1>4, <2>1, AssembleLabelSound
    <3> HIDE DEF a
    <3>2. NoLabel \in Target /\ t \in Target /\ "plain" \in Ops /\ "jump" \in Ops
      BY <1>4, LabelsFact DEF Ops
    <3>3. Sound(b, Q \ {c}) /\ After(a, b, {})
      BY <3>1, <3>2, AssembleSound
    <3> HIDE DEF b
    <3>4. After(x, b, {c} \cup {})
      BY <3>1, <3>3, AfterTrans
    <3>5. After(x, b, {c})
      BY <3>4, AfterMore
    <3>6. Promised /\ Reachable(b) => b.offset[t] >= 0
      <4>1. \A m \in {c} : x.offset[m] = -1
        BY <1>4, <2>1
      <4>2. Restricted /\ Top.block => Dead(x) /\ \A m \in {c} \cap Labels : x.use[m] = 0
        BY <1>4, <2>1
      <4> QED BY <1>4, <1>5, <3>5, <4>1, <4>2, BackTarget
    <3>7. Sound(d, Q \ {c}) /\ After(b, d, {})
      BY <3>2, <3>3, <3>6, AssembleSound
    <3> HIDE DEF d
    <3>8. After(x, d, {c} \cup {})
      BY <3>5, <3>7, AfterTrans
    <3> QED BY <3>7, <3>8, AfterMore
  <2>2. ASSUME ~Top.mark PROVE Sound(j, Q) /\ After(x, j, {})
    <3>1. After(x, x, {})
      BY DEF After
    <3>2. Promised /\ Reachable(x) => x.offset[t] >= 0
      BY <1>4, <1>5, <3>1, BackTarget
    <3> QED BY <1>4, <3>2, JumpIfReachedSound
  <2>3. Q \ {} = Q
    OBVIOUS
  <2> QED BY <1>5, <2>1, <2>2, <2>3
<1> HIDE DEF y
<1>8. l \notin P
  BY <1>3, <1>4
<1> HIDE DEF P
<1>9. Sound(e, (Q \ P) \ {l}) /\ After(y, e, {l})
  BY <1>4, <1>7, <1>8, ForwardLabelSound DEF After
<1> HIDE DEF e
<1>10. e.next = enc.next /\ \A m \in Labels \ (P \cup {l}) : e.offset[m] = enc.offset[m]
  BY <1>4, <1>7, <1>9 DEF After
<1>11. (Q \ P) \ {l} = Q \ (P \cup {l})
  OBVIOUS
<1> QED
  BY <1>0, <1>1, <1>2, <1>3, <1>9, <1>10, <1>11, Popped DEF Q

LEMMA CloseSwitchL ==
  ASSUME LInv, CloseSwitch
  PROVE  LInv'
<1> DEFINE t == Top.top
           l == Top.exit
           Q == Owing \cup Named
           open == Top.hush /\ ~Top.mark
           P == IF open THEN {t} ELSE {}
           y == IF open THEN AssembleLabel(enc, t) ELSE enc
           x == Leave(y, Top.block)
           e == AssembleForwardLabel(x, l)
<1>0. IInv'
  BY LFacts, CloseSwitchKeeps
<1>1. CanClose("switch") /\ Close(e)
  BY DEF CloseSwitch
<1>2. frames # <<>> /\ Top.kind = "switch"
  BY <1>1 DEF CanClose
<1>3. Pending(Top) = P \cup {l} /\ (Distinct(Top) /\ open => t # l)
  BY <1>2 DEF Pending, Distinct
<1>4. /\ \A m \in Pending(Top) : m \in Labels /\ Leave(enc, Top.block).offset[m] = -1
      /\ Leave(enc, Top.block).offset = enc.offset /\ Distinct(Top) /\ Top \in GoodFrame
  BY <1>2, TopFacts
<1>5. l \in Labels /\ enc.offset[l] = -1 /\ l \notin P
      /\ (open => t \in Labels /\ enc.offset[t] = -1)
  BY <1>3, <1>4
<1>6. Top.block \in BOOLEAN /\ Sound(enc, Q)
  BY <1>4, LFacts DEF GoodFrame, Frame
<1> HIDE DEF t, l, Q
<1>7. Sound(y, Q \ P) /\ After(enc, y, P)
  <2>1. CASE open
    BY <1>5, <1>6, <2>1, AssembleLabelSound
  <2>2. CASE ~open
    <3>1. Q \ P = Q /\ y = enc
      BY <2>2
    <3> HIDE DEF y, P
    <3> QED BY <1>6, <3>1 DEF After
  <2> QED BY <2>1, <2>2
<1> HIDE DEF y
<1>8. Quiet(y, x) /\ x.next = y.next
  BY <1>6, <1>7, LeaveQuiet DEF Sound
<1> HIDE DEF x
<1>9. Sound(x, Q \ P) /\ x.offset = y.offset
  BY <1>7, <1>8, QuietSound DEF Quiet
<1> HIDE DEF P
<1>10. Sound(e, (Q \ P) \ {l}) /\ After(x, e, {l})
  <2>1. x.offset[l] = -1
    BY <1>5, <1>7, <1>9 DEF After
  <2> QED BY <1>5, <1>9, <2>1, ForwardLabelSound
<1> HIDE DEF e
<1>11. e.next = enc.next /\ \A m \in Labels \ (P \cup {l}) : e.offset[m] = enc.offset[m]
  BY <1>7, <1>8, <1>9, <1>10 DEF After
<1>12. (Q \ P) \ {l} = Q \ (P \cup {l})
  OBVIOUS
<1> QED
  BY <1>0, <1>1, <1>2, <1>3, <1>10, <1>11, <1>12, Popped DEF Q

-----------------------------------------------------------------------------
(* Clauses: the innermost frame goes on with other labels pending.         *)

LEMMA Replaced ==
  ASSUME LInv, IInv', frames # <<>>, NEW n \in Nat, enc'.next = enc.next + n,
         NEW g \in GoodFrame, Distinct(g), Back(g) = {},
         NEW Freed, Freed \subseteq Pending(Top), Pending(Top) \ Freed \subseteq Pending(g),
         Pending(g) \subseteq (Pending(Top) \ Freed) \cup {enc.next + i : i \in 1 .. n},
         \A m \in Labels \ Freed : enc'.offset[m] = enc.offset[m],
         Sound(enc', ((Owing \cup Named) \ Freed) \cup Pending(g)),
         frames' = Append(Pop, g), sym' = sym
  PROVE  LInv'
<1> DEFINE N == Len(frames)
           k == N - 1
           R == ((Owing \cup Named) \ Freed) \cup Pending(g)
           new == {enc.next + i : i \in 1 .. n}
           T0 == Pending(Top)
<1>1. /\ N \in Nat \ {0} /\ Top \in GoodFrame /\ Len(Pop) = k /\ Pop \in Seq(GoodFrame)
      /\ \A i \in 1 .. k : Pop[i] = frames[i]
      /\ DOMAIN frames = 1 .. N /\ N \in DOMAIN frames /\ Top = frames[N]
  BY PopFacts, LFacts DEF BaseInv, Top
<1>2. /\ k \in Nat /\ k <= N /\ k # N /\ \A i \in 1 .. k : i \in DOMAIN frames /\ i # N
      /\ \A i \in DOMAIN frames : i \in 1 .. k \/ i = N
  BY <1>1
<1>3. /\ T0 \subseteq Labels /\ enc.next \in Nat /\ FreshUnplaced
      /\ \A m \in T0 : m <= enc.next /\ enc.offset[m] = -1 /\ m \notin Named
      /\ \A i \in 1 .. k : \A m \in Pending(frames[i]) : m \notin T0
  <2>1. T0 \subseteq Labels
    BY <1>1, PendingLabels
  <2>2. PendInv /\ enc.next \in Nat
    BY LFacts
  <2> QED BY <1>1, <1>2, <2>1, <2>2 DEF PendInv, FramesPending
<1>4. \A m \in new : m > enc.next /\ m <= enc'.next
  BY <1>3
<1>5. Len(frames') = k + 1 /\ frames'[k + 1] = g /\ \A i \in 1 .. k : frames'[i] = frames[i]
  BY <1>1, AppendProperties
<1>6. k + 1 \in DOMAIN frames'
  <2>1. frames' \in Seq(GoodFrame)
    BY DEF IInv, BaseInv
  <2>2. DOMAIN frames' = 1 .. k + 1
    BY <1>5, <2>1, LenProperties
  <2> HIDE DEF k
  <2> QED BY <1>2, <2>2
<1>7. Sound(enc', R)
  OBVIOUS
<1>8. \A m \in R \cap Labels : \/ m \in Named
                               \/ \E i \in 1 .. k : m \in Pending(frames[i])
                               \/ m \in Pending(g)
  BY <1>1, <1>2 DEF Owing
<1> HIDE DEF k, R, new, T0
<1>9. \A m \in Pending(g) : m \in Labels
  BY PendingLabels
<1>10. \A m \in Pending(g) : (m \in T0 \/ m > enc.next) /\ m <= enc'.next /\ enc'.offset[m] = -1
  <2> SUFFICES ASSUME NEW m \in Pending(g)
               PROVE  (m \in T0 \/ m > enc.next) /\ m <= enc'.next /\ enc'.offset[m] = -1
    OBVIOUS
  <2>1. m \in Labels /\ m \in Nat
    BY <1>9, LabelsFact
  <2>2. CASE m \in T0 /\ m \notin Freed
    BY <1>3, <2>1, <2>2
  <2>3. CASE m \in new
    <3>1. m > enc.next /\ m <= enc'.next
      BY <1>4, <2>3
    <3>2. m \notin Freed
      BY <1>3, <2>1, <3>1 DEF T0
    <3> QED BY <1>3, <2>1, <3>1, <3>2 DEF FreshUnplaced
  <2> QED BY <2>2, <2>3 DEF T0, new
<1>11. \A m \in Labels \ T0 : m <= enc.next => enc'.offset[m] = enc.offset[m]
  BY DEF T0
<1>12. \A m \in Labels : m > enc'.next => enc'.offset[m] = -1
  <2> SUFFICES ASSUME NEW m \in Labels, m > enc'.next PROVE enc'.offset[m] = -1
    OBVIOUS
  <2>1. m > enc.next
    BY <1>3, LabelsFact
  <2>2. m \notin Freed
    BY <1>3, <2>1, LabelsFact DEF T0
  <2> QED BY <1>3, <2>1, <2>2 DEF FreshUnplaced
<1>13. k <= Len(frames) /\ k <= Len(frames') /\ Len(frames') <= k + 1 /\ enc.next <= enc'.next
  BY <1>2, <1>3, <1>5
<1>14. BaseInv' /\ T0 \in SUBSET Labels
  BY <1>3 DEF IInv
<1>15. PendInv'
  BY <1>2, <1>3, <1>5, <1>6, <1>7, <1>8, <1>10, <1>11, <1>12, <1>13, <1>14, Moved
<1> QED
  BY <1>15 DEF LInv

LEMMA EndClauseSound ==
  ASSUME NEW e, NEW Q, Sound(e, Q), NEW f, f.exit \in Labels, f.exit \in Q, f.hush \in BOOLEAN,
         f.hush => f.top \in Labels /\ e.offset[f.top] = -1
  PROVE  LET P == IF f.hush THEN {f.top} ELSE {}
         IN  Sound(EndClause(e, f), Q \ P) /\ After(e, EndClause(e, f), P)
<1> DEFINE P == IF f.hush THEN {f.top} ELSE {}
           j == JumpIfReached(e, f.exit)
           y == AssembleLabel(j, f.top)
           Good == Sound(EndClause(e, f), Q \ P) /\ After(e, EndClause(e, f), P)
<1>1. ASSUME f.hush PROVE Good
  <2>1. EndClause(e, f) = y /\ P = {f.top}
    BY <1>1 DEF EndClause
  <2>2. Sound(j, Q) /\ After(e, j, {})
    BY JumpIfReachedSound
  <2> HIDE DEF j
  <2>3. Sound(y, Q \ {f.top}) /\ After(j, y, {f.top})
    BY <1>1, <2>2, AssembleLabelSound DEF After
  <2> HIDE DEF y
  <2>4. After(e, y, {} \cup {f.top})
    BY <2>2, <2>3, AfterTrans
  <2> HIDE DEF P
  <2> QED BY <2>1, <2>3, <2>4
<1>2. ASSUME ~f.hush PROVE Good
  <2>1. EndClause(e, f) = e /\ Q \ P = Q /\ P = {}
    BY <1>2 DEF EndClause
  <2> HIDE DEF P
  <2> QED BY <2>1 DEF After
<1> QED
  BY <1>1, <1>2

\* The innermost "switch" before a clause.
LEMMA SwitchTop ==
  ASSUME LInv, InSwitch
  PROVE  LET P == IF Top.hush THEN {Top.top} ELSE {}
         IN  /\ frames # <<>> /\ Top \in GoodFrame /\ Top.kind = "switch" /\ ~Top.mark
             /\ Top.hush \in BOOLEAN /\ Top.exit \in Labels /\ Top.exit \in Owing
             /\ Pending(Top) = P \cup {Top.exit} /\ Top.exit \notin P
             /\ Top.hush => Top.top \in Labels /\ enc.offset[Top.top] = -1 /\ Top.top <= enc.next
<1>1. frames # <<>> /\ Top.kind = "switch" /\ ~Top.mark
  BY DEF InSwitch
<1>2. /\ Top \in GoodFrame /\ Distinct(Top) /\ Pending(Top) \subseteq Owing
      /\ Pending(Top) \subseteq Labels
      /\ Leave(enc, Top.block).offset = enc.offset
      /\ \A m \in Pending(Top) : Leave(enc, Top.block).offset[m] = -1
  BY <1>1, TopFacts
<1>3. Top.hush \in BOOLEAN
  BY <1>2 DEF GoodFrame, Frame
<1>4. Pending(Top) = IF Top.hush THEN {Top.top, Top.exit} ELSE {Top.exit}
  BY <1>1 DEF Pending
<1>5. \A m \in Pending(Top) : m <= enc.next
  <2>1. Top = frames[Len(frames)] /\ Len(frames) \in DOMAIN frames
    BY <1>1, PopFacts, LFacts DEF BaseInv, Top
  <2> QED BY <2>1, LFacts DEF PendInv, FramesPending
<1>6. Top.hush => Top.top # Top.exit
  BY <1>1, <1>2 DEF Distinct
<1> QED
  BY <1>1, <1>2, <1>3, <1>4, <1>5, <1>6

LEMMA CaseClauseL ==
  ASSUME LInv, CaseClause
  PROVE  LInv'
<1> DEFINE l == enc.next + 1
           Q == Owing \cup Named
           P == IF Top.hush THEN {Top.top} ELSE {}
           a == AllocLabels(enc, 1)
           c == EndClause(a, Top)
           e == Assemble(c, "branch", l)
           g == [Top EXCEPT !.top = l, !.hush = TRUE]
<1>0. IInv'
  BY LFacts, CaseClauseKeeps
<1>1. InSwitch /\ CanAlloc(enc, 1) /\ enc' = e /\ frames' = Append(Pop, g) /\ sym' = sym
  BY DEF CaseClause
<1>2. /\ frames # <<>> /\ Top \in GoodFrame /\ Top.kind = "switch" /\ ~Top.mark
      /\ Top.hush \in BOOLEAN /\ Top.exit \in Labels /\ Top.exit \in Owing
      /\ Pending(Top) = P \cup {Top.exit} /\ Top.exit \notin P
      /\ Top.hush => Top.top \in Labels /\ enc.offset[Top.top] = -1 /\ Top.top <= enc.next
  BY <1>1, SwitchTop
<1>3. /\ Sound(a, Q) /\ a.next = l /\ a.offset = enc.offset /\ l \in Labels
  <2>1. a.next = l /\ l \in Labels
    BY <1>1, LFacts, AllocOne
  <2>2. Quiet(enc, a)
    BY <1>1, LFacts, AllocQuiet
  <2> HIDE DEF a
  <2> QED BY <2>1, <2>2, LFacts, QuietSound DEF Quiet
<1>4. enc.next \in Nat /\ l \notin P /\ l # Top.exit
  <2>1. enc.next \in Nat
    BY LFacts
  <2>2. \A m \in Pending(Top) : m <= enc.next
    <3>1. Top = frames[Len(frames)] /\ Len(frames) \in DOMAIN frames
      BY <1>2, PopFacts, LFacts DEF BaseInv, Top
    <3> QED BY <3>1, LFacts DEF PendInv, FramesPending
  <2>3. l \notin Pending(Top)
    BY <2>1, <2>2
  <2> HIDE DEF l, P
  <2> QED BY <1>2, <2>1, <2>3
<1>5. /\ g \in GoodFrame /\ Back(g) = {} /\ Distinct(g) /\ Pending(g) = {l, Top.exit}
  <2>1. /\ g \in Frame /\ g.kind = "switch" /\ g.top = l /\ g.exit = Top.exit /\ g.hush = TRUE
        /\ g.mark = Top.mark
    BY <1>2, <1>3, LabelsFact DEF GoodFrame, Frame
  <2> HIDE DEF g, l
  <2> QED BY <1>2, <1>3, <1>4, <2>1 DEF GoodFrame, ShapeOK, Back, Distinct, Pending
<1>6. {l} \subseteq {enc.next + i : i \in 1 .. 1}
  OBVIOUS
<1> HIDE DEF a, g, l, Q
<1>7. Sound(c, (Q \cup {l}) \ P) /\ After(a, c, P)
  <2>1. Sound(a, Q \cup {l}) /\ Top.exit \in Q \cup {l}
    BY <1>2, <1>3, SoundMore DEF Q
  <2> QED BY <1>2, <1>3, <2>1, EndClauseSound
<1> HIDE DEF c
<1>8. Sound(e, (Q \cup {l}) \ P) /\ After(c, e, {})
  <2>1. l \in (Q \cup {l}) \ P
    BY <1>4
  <2>2. l \in Target /\ "branch" \in Ops
    BY <1>3, LabelsFact DEF Ops
  <2> QED BY <1>7, <2>1, <2>2, AssembleSound
<1> HIDE DEF e, P
<1>9. enc'.next = enc.next + 1 /\ \A m \in Labels \ P : enc'.offset[m] = enc.offset[m]
  BY <1>1, <1>3, <1>7, <1>8 DEF After, l
<1>10. Sound(enc', (Q \ P) \cup Pending(g))
  <2>1. ((Q \cup {l}) \ P) \cap Labels \subseteq (Q \ P) \cup Pending(g)
    BY <1>5
  <2> QED BY <1>1, <1>8, <2>1, SoundMore
<1>11. P \subseteq Pending(Top) /\ Pending(Top) \ P \subseteq Pending(g)
  BY <1>2, <1>5
<1>12. Pending(g) \subseteq (Pending(Top) \ P) \cup {enc.next + i : i \in 1 .. 1}
  BY <1>2, <1>5, <1>6
<1> QED
  BY <1>0, <1>1, <1>2, <1>5, <1>9, <1>10, <1>11, <1>12, Replaced DEF Q

LEMMA DefaultClauseL ==
  ASSUME LInv, DefaultClause
  PROVE  LInv'
<1> DEFINE Q == Owing \cup Named
           P == IF Top.hush THEN {Top.top} ELSE {}
           e == EndClause(enc, Top)
           g == [Top EXCEPT !.mark = TRUE, !.hush = TRUE]
<1>0. IInv'
  BY LFacts, DefaultClauseKeeps
<1>1. InSwitch /\ enc' = e /\ frames' = Append(Pop, g) /\ sym' = sym
  BY DEF DefaultClause
<1>2. /\ frames # <<>> /\ Top \in GoodFrame /\ Top.kind = "switch" /\ ~Top.mark
      /\ Top.hush \in BOOLEAN /\ Top.exit \in Labels /\ Top.exit \in Owing
      /\ Pending(Top) = P \cup {Top.exit} /\ Top.exit \notin P
      /\ Top.hush => Top.top \in Labels /\ enc.offset[Top.top] = -1 /\ Top.top <= enc.next
  BY <1>1, SwitchTop
<1>3. /\ g \in GoodFrame /\ Back(g) = {} /\ Distinct(g) /\ Pending(g) = {Top.exit}
  <2>1. /\ g \in Frame /\ g.kind = "switch" /\ g.exit = Top.exit /\ g.mark = TRUE
    BY <1>2 DEF GoodFrame, Frame
  <2> HIDE DEF g
  <2> QED BY <1>2, <2>1 DEF GoodFrame, ShapeOK, Back, Distinct, Pending
<1> HIDE DEF g
<1>4. Sound(e, Q \ P) /\ After(enc, e, P)
  <2>1. Sound(enc, Q) /\ Top.exit \in Q
    BY <1>2, LFacts
  <2> HIDE DEF Q
  <2> QED BY <1>2, <2>1, EndClauseSound
<1> HIDE DEF e, P, Q
<1>5. enc'.next = enc.next + 0 /\ \A m \in Labels \ P : enc'.offset[m] = enc.offset[m]
  BY <1>1, <1>4, LFacts DEF After
<1>6. Sound(enc', (Q \ P) \cup Pending(g))
  BY <1>1, <1>4, SoundMore
<1>7. P \subseteq Pending(Top) /\ Pending(Top) \ P \subseteq Pending(g)
      /\ Pending(g) \subseteq (Pending(Top) \ P) \cup {enc.next + i : i \in 1 .. 0}
  BY <1>2, <1>3
<1>8. 0 \in Nat
  OBVIOUS
<1> QED
  BY <1>0, <1>1, <1>2, <1>3, <1>5, <1>6, <1>7, <1>8, Replaced DEF Q

LEMMA ElseClauseL ==
  ASSUME LInv, ElseClause
  PROVE  LInv'
<1> DEFINE l  == enc.next + 1
           t  == Top.top
           Q  == Owing \cup Named
           P  == {t}
           a  == AllocLabels(enc, 1)
           x  == Leave(a, Top.block)
           e1 == JumpIfReached(x, l)
           exists == e1.use[t] > 0
           e2 == AssembleForwardLabel(e1, t)
           e3 == NoWarnIf(e2, ~exists)
           g  == [Top EXCEPT !.kind = "else", !.exit = l, !.block = SavedEntire(e3),
                             !.mark = exists, !.hush = "NOWARN" \in e2.exec]
<1>0. IInv'
  BY LFacts, ElseClauseKeeps
<1>1. /\ CanClose("if") /\ CanAlloc(enc, 1)
      /\ enc' = Enter(e3) /\ frames' = Append(Pop, g) /\ sym' = sym
  BY DEF ElseClause
<1>2. frames # <<>> /\ Top.kind = "if"
  BY <1>1 DEF CanClose
<1>3. Pending(Top) = {t}
  BY <1>2 DEF Pending
<1>4. /\ Top \in GoodFrame /\ t \in Labels /\ enc.offset[t] = -1 /\ t <= enc.next
      /\ Top.block \in BOOLEAN /\ Top \in Frame
  <2>1. Top = frames[Len(frames)] /\ Len(frames) \in DOMAIN frames /\ Top \in GoodFrame
    BY <1>2, PopFacts, LFacts DEF BaseInv, Top
  <2>2. \A m \in Pending(Top) : m <= enc.next /\ enc.offset[m] = -1
    BY <2>1, LFacts DEF PendInv, FramesPending
  <2>3. Pending(Top) \subseteq Labels
    BY <2>1, PendingLabels
  <2> HIDE DEF t
  <2> QED BY <1>3, <2>1, <2>2, <2>3 DEF GoodFrame, Frame
<1>5. /\ Sound(a, Q) /\ a.next = l /\ a.offset = enc.offset /\ l \in Labels
  <2>1. a.next = l /\ l \in Labels
    BY <1>1, LFacts, AllocOne
  <2>2. Quiet(enc, a)
    BY <1>1, LFacts, AllocQuiet
  <2> HIDE DEF a
  <2> QED BY <2>1, <2>2, LFacts, QuietSound DEF Quiet
<1> HIDE DEF a
<1>6. Sound(x, Q) /\ x.next = l /\ x.offset = enc.offset
  <2>1. Quiet(a, x) /\ x.next = a.next
    BY <1>4, <1>5, LeaveQuiet DEF Sound
  <2> HIDE DEF x
  <2> QED BY <1>5, <2>1, QuietSound DEF Quiet
<1>7. l # t /\ {l} \subseteq {enc.next + i : i \in 1 .. 1}
  <2>1. enc.next \in Nat
    BY LFacts
  <2> HIDE DEF t
  <2> QED BY <1>4, <2>1
<1> HIDE DEF x
<1>8. g \in GoodFrame /\ Back(g) = {} /\ Distinct(g) /\ Pending(g) = {l}
  <2> DEFINE hush == "NOWARN" \in e2.exec
             block == SavedEntire(e3)
  <2>1. hush \in BOOLEAN /\ exists \in BOOLEAN /\ block \in BOOLEAN
    BY DEF SavedEntire
  <2> HIDE DEF hush, exists, block
  <2>2. g \in Frame /\ g.kind = "else" /\ g.exit = l
    BY <1>4, <1>5, <2>1, LabelsFact DEF Frame, hush, block
  <2> HIDE DEF g, l
  <2> QED BY <1>5, <2>2 DEF GoodFrame, ShapeOK, Back, Distinct, Pending
<1> HIDE DEF g, l, t, Q
<1>9. Sound(e1, Q \cup {l}) /\ After(x, e1, {})
  <2>1. Sound(x, Q \cup {l})
    BY <1>6, SoundMore
  <2> QED BY <1>5, <2>1, JumpIfReachedSound
<1> HIDE DEF e1
<1>10. Sound(e2, (Q \cup {l}) \ {t}) /\ After(e1, e2, {t})
  <2>1. e1.offset[t] = -1
    BY <1>4, <1>6, <1>9 DEF After
  <2> QED BY <1>4, <1>9, <2>1, ForwardLabelSound
<1> HIDE DEF e2, exists
<1>11. Sound(e3, (Q \cup {l}) \ {t}) /\ After(e2, e3, {})
  BY <1>10, NoWarnIfSound
<1> HIDE DEF e3
<1>12. Quiet(e3, enc') /\ enc'.next = e3.next
  BY <1>1, <1>11, EnterQuiet DEF Sound
<1>13. Sound(enc', (Q \ P) \cup Pending(g))
  <2>1. Sound(enc', (Q \cup {l}) \ {t})
    BY <1>11, <1>12, QuietSound
  <2>2. ((Q \cup {l}) \ {t}) \cap Labels \subseteq (Q \ {t}) \cup Pending(g)
    BY <1>8
  <2> QED BY <2>1, <2>2, SoundMore
<1>14. enc'.next = enc.next + 1 /\ \A m \in Labels \ P : enc'.offset[m] = enc.offset[m]
  BY <1>6, <1>9, <1>10, <1>11, <1>12 DEF After, Quiet, l
<1>15. P \subseteq Pending(Top) /\ Pending(Top) \ P \subseteq Pending(g)
       /\ Pending(g) \subseteq (Pending(Top) \ P) \cup {enc.next + i : i \in 1 .. 1}
  BY <1>3, <1>7, <1>8
<1> HIDE DEF P
<1>16. 1 \in Nat /\ frames' = Append(Pop, g) /\ sym' = sym
  BY <1>1
<1> QED
  BY <1>0, <1>1, <1>2, <1>8, <1>13, <1>14, <1>15, <1>16, Replaced DEF Q

-----------------------------------------------------------------------------
(* Statements without a block.                                             *)

\* A statement that changes neither frames nor symbols and places no label.
LEMMA StatementL ==
  ASSUME LInv, IInv', UNCHANGED <<frames, sym>>, NEW f, Sound(f, Owing \cup Named),
         After(Enter(enc), f, {}), enc' = Leave(f, SavedEntire(enc))
  PROVE  LInv'
<1>1. Quiet(enc, Enter(enc)) /\ Enter(enc).next = enc.next
  BY LFacts, EnterQuiet
<1>2. SavedEntire(enc) \in BOOLEAN /\ f \in Encoder
  BY DEF SavedEntire, Sound
<1>3. Quiet(f, enc') /\ enc'.next = f.next
  BY <1>2, LeaveQuiet
<1>4. Sound(enc', Owing \cup Named)
  BY <1>3, QuietSound
<1>5. enc'.next = enc.next /\ \A m \in Labels : enc'.offset[m] = enc.offset[m]
  BY <1>1, <1>3 DEF After, Quiet
<1>6. enc'.offset = enc.offset
  <2>1. enc' \in Encoder /\ enc \in Encoder
    BY <1>3, LFacts DEF Quiet
  <2> QED BY <1>5, <2>1 DEF Encoder
<1> QED
  BY <1>4, <1>5, <1>6, Rested DEF LInv, IInv

LEMMA EnterReach ==
  ASSUME LInv
  PROVE  /\ Enter(enc) \in Encoder /\ Sound(Enter(enc), Owing \cup Named)
         /\ Enter(enc).offset = enc.offset
         /\ Reachable(Enter(enc)) => Reachable(enc)
<1>1. Quiet(enc, Enter(enc)) /\ Enter(enc) \in Encoder
  BY LFacts, EnterQuiet, EnterType
<1>2. Reachable(Enter(enc)) => Reachable(enc)
  BY LFacts, EnterType DEF Reachable, Dead
<1> QED
  BY <1>1, <1>2, LFacts, QuietSound DEF Quiet

LEMMA SimpleL ==
  ASSUME LInv, IInv', NEW op \in Ops, NEW l \in Target, Simple(enc, op, l), sym' = sym,
         Promised /\ Reachable(enc) /\ l # NoLabel => l \in Owing \cup Named \/ enc.offset[l] >= 0
  PROVE  LInv'
<1> DEFINE a == Enter(enc)
           f == Assemble(a, op, l)
           Q == Owing \cup Named
<1>1. enc' = Leave(f, SavedEntire(enc)) /\ UNCHANGED <<frames, sym>>
  BY DEF Simple
<1>2. Sound(a, Q) /\ (Promised /\ Reachable(a) /\ l # NoLabel => l \in Q \/ a.offset[l] >= 0)
  BY EnterReach
<1> HIDE DEF Q, a
<1>3. Sound(f, Q) /\ After(a, f, {})
  BY <1>2, AssembleSound
<1> HIDE DEF f
<1> QED
  BY <1>1, <1>3, StatementL DEF Q, a

LEMMA PlainStatementL ==
  ASSUME LInv, PlainStatement
  PROVE  LInv'
<1>0. IInv'
  BY LFacts, PlainStatementKeeps
<1>1. PICK op \in {"plain", "return"} : Simple(enc, op, NoLabel)
  BY DEF PlainStatement
<1>2. op \in Ops /\ sym' = sym
  BY DEF Ops, PlainStatement
<1> QED
  BY <1>0, <1>1, <1>2, LabelsFact, SimpleL

\* "break" and "continue" jump to a label their statement has still to place,
\* or to the top of the loop.
LEMMA BreakStatementL ==
  ASSUME LInv, BreakStatement
  PROVE  LInv'
<1>0. IInv'
  BY LFacts, BreakStatementKeeps
<1>1. PICK i \in DOMAIN frames : frames[i].kind \in BreakKinds /\ Simple(enc, "jump", frames[i].exit)
  BY DEF BreakStatement, Innermost
<1>2. frames[i] \in GoodFrame /\ sym' = sym /\ "jump" \in Ops
  BY LFacts DEF BreakStatement, Ops
<1>3. frames[i].exit \in Labels /\ frames[i].exit \in Target
  BY <1>1, <1>2, LabelsFact DEF GoodFrame, ShapeOK, BreakKinds
<1>4. frames[i].exit \in Pending(frames[i])
  BY <1>1 DEF BreakKinds, Pending
<1>5. frames[i].exit \in Owing \cup Named
  BY <1>3, <1>4 DEF Owing
<1> QED
  BY <1>0, <1>1, <1>2, <1>3, <1>5, SimpleL

LEMMA ContinueStatementL ==
  ASSUME LInv, ContinueStatement
  PROVE  LInv'
<1>0. IInv'
  BY LFacts, ContinueStatementKeeps
<1>1. PICK i \in DOMAIN frames : frames[i].kind \in ContinueKinds /\ Simple(enc, "jump", frames[i].cont)
  BY DEF ContinueStatement, Innermost
<1> DEFINE l == frames[i].cont
<1>2. frames[i] \in GoodFrame /\ sym' = sym /\ "jump" \in Ops
  BY LFacts DEF ContinueStatement, Ops
<1>3. l \in Labels /\ l \in Target
  BY <1>1, <1>2, LabelsFact DEF GoodFrame, ShapeOK, ContinueKinds
<1>4. l \in Pending(frames[i]) \/ l \in Back(frames[i])
  <2>1. Distinct(frames[i]) /\ frames[i].mark \in BOOLEAN
    BY <1>2, LFacts DEF PendInv, FramesPending, GoodFrame, Frame
  <2>2. CASE frames[i].kind \in {"while", "for"}
    BY <2>1, <2>2 DEF Pending, Back, Distinct
  <2>3. CASE frames[i].kind = "do"
    BY <2>3 DEF Pending
  <2> QED BY <1>1, <2>2, <2>3 DEF ContinueKinds
<1>5. Promised /\ Reachable(enc) => l \in Owing \cup Named \/ enc.offset[l] >= 0
  <2> SUFFICES ASSUME Promised, Reachable(enc), l \in Back(frames[i])
               PROVE  enc.offset[l] >= 0
    BY <1>3, <1>4 DEF Owing
  <2>1. enc.offset[l] >= 0 \/ (StripUnreachableLabels /\ frames[i].block)
    BY LFacts DEF PendInv, BackPlaced
  <2>2. Restricted /\ frames[i].block => Dead(enc)
    BY LFacts DEF IInv, FlagInv, Nested
  <2>3. ~Dead(enc)
    BY DEF Reachable, Dead
  <2> QED BY <2>1, <2>2, <2>3 DEF Promised, Restricted
<1> HIDE DEF l
<1>6. Simple(enc, "jump", l)
  BY <1>1 DEF l
<1> QED
  BY <1>0, <1>2, <1>3, <1>5, <1>6, SimpleL

LEMMA IfReturnStatementL ==
  ASSUME LInv, NEW cond \in Conds, IfReturnStatement(cond)
  PROVE  LInv'
<1> DEFINE a == Enter(enc)
           b == CASE cond = "expr"  -> Assemble(a, "branch", NoLabel)
                  [] cond = "true"  -> Assemble(a, "return", NoLabel)
                  [] cond = "false" -> a
           f == NoWarnIf(b, Reachable(enc))
           Q == Owing \cup Named
<1>0. IInv'
  BY LFacts, IfReturnStatementKeeps
<1>1. enc' = Leave(f, SavedEntire(enc)) /\ UNCHANGED <<frames, sym>>
  BY DEF IfReturnStatement
<1>2. Sound(a, Q)
  BY EnterReach
<1> HIDE DEF Q, a
<1>3. Sound(b, Q) /\ After(a, b, {})
  <2>1. NoLabel \in Target /\ "branch" \in Ops /\ "return" \in Ops
    BY LabelsFact DEF Ops
  <2>2. CASE cond = "expr"
    BY <1>2, <2>1, <2>2, AssembleSound
  <2>3. CASE cond = "true"
    BY <1>2, <2>1, <2>3, AssembleSound
  <2>4. CASE cond = "false"
    BY <1>2, <2>4 DEF After
  <2> QED BY <2>2, <2>3, <2>4, BoundsAssumption DEF BoundsAssumption
<1> HIDE DEF b
<1>4. Sound(f, Q) /\ After(b, f, {})
  BY <1>3, NoWarnIfSound
<1> HIDE DEF f
<1>5. After(a, f, {})
  <2>1. After(a, f, {} \cup {})
    BY <1>3, <1>4, AfterTrans
  <2> QED BY <2>1, AfterMore
<1> QED
  BY <1>0, <1>1, <1>4, <1>5, StatementL DEF Q, a

-----------------------------------------------------------------------------
(* Labels the programmer names.                                            *)

LEMMA Renamed ==
  ASSUME LInv, BaseInv', frames' = frames, NEW u \in UserLabels, NEW l \in Labels,
         NEW s \in {"forward", "defined"}, sym' = [sym EXCEPT ![u] = [label |-> l, state |-> s]],
         \/ sym[u].state = "unknown" /\ l = enc.next + 1 /\ enc'.next = enc.next + 1
         \/ sym[u].state = "forward" /\ l = sym[u].label /\ enc'.next = enc.next,
         \A m \in Labels \ {l} : enc'.offset[m] = enc.offset[m],
         s = "forward" => enc'.offset[l] = -1,
         Sound(enc', (Owing \cup Named) \cup {l})
  PROVE  PendInv'
<1> DEFINE new == [label |-> l, state |-> s]
<1>1. /\ PendInv /\ enc.next \in Nat /\ enc.offset \in [Labels -> Nat \cup {-1}]
      /\ DOMAIN frames = 1 .. Len(frames) /\ l \in Nat
      /\ \A i \in DOMAIN frames : Pending(frames[i]) \subseteq Labels /\ Back(frames[i]) \subseteq Labels
      /\ \A v \in UserLabels : Known(v) => sym[v].label \in Labels
      /\ sym \in [UserLabels -> SymEntry]
  BY LFacts, FrameFacts, LabelsFact DEF BaseInv
<1>2. new.label = l /\ new.state = s /\ new.state # "unknown"
  OBVIOUS
<1>3. sym'[u] = new /\ \A v \in UserLabels \ {u} : sym'[v] = sym[v]
  BY <1>1
<1> HIDE DEF new
<1>4. /\ enc.offset[l] = -1 /\ l <= enc'.next /\ enc.next <= enc'.next /\ enc'.next \in Nat
      /\ \A i \in DOMAIN frames : l \notin Pending(frames[i])
      /\ \A v \in UserLabels \ {u} : Known(v) => sym[v].label # l
  <2>1. CASE sym[u].state = "unknown" /\ l = enc.next + 1 /\ enc'.next = enc.next + 1
    <3>1. l > enc.next
      BY <1>1, <2>1
    <3>2. \A m \in Labels : m <= enc.next => m # l
      BY <1>1, <3>1
    <3>3. \A v \in UserLabels : Known(v) => sym[v].label # l
      BY <1>1, <3>2 DEF PendInv, NamesPending
    <3>4. \A i \in DOMAIN frames : l \notin Pending(frames[i])
      BY <1>1, <3>2 DEF PendInv, FramesPending
    <3> QED BY <1>1, <2>1, <3>1, <3>3, <3>4 DEF PendInv, FreshUnplaced
  <2>2. CASE sym[u].state = "forward" /\ l = sym[u].label /\ enc'.next = enc.next
    <3>1. Known(u) /\ l \in Named
      BY <2>2 DEF Known, Named
    <3>2. \A v \in UserLabels \ {u} : Known(v) => sym[v].label # l
      BY <1>1, <2>2, <3>1 DEF PendInv, NamesPending
    <3>3. enc.offset[l] = -1 /\ l <= enc.next
      BY <1>1, <2>2, <3>1 DEF PendInv, NamesPending
    <3>4. \A i \in DOMAIN frames : l \notin Pending(frames[i])
      BY <1>1, <3>1 DEF PendInv, FramesPending
    <3> QED BY <1>1, <2>2, <3>2, <3>3, <3>4
  <2> QED BY <2>1, <2>2
<1>5. /\ Known(u)' /\ \A v \in UserLabels \ {u} : Known(v)' <=> Known(v)
      /\ sym'[u].label = l
  BY <1>2, <1>3 DEF Known
<1>6. Named' \subseteq Named \cup {l} /\ Named \subseteq Named' /\ l \in Named'
  <2>1. ASSUME NEW m \in Named' PROVE m \in Named \cup {l}
    <3>1. PICK v \in UserLabels : Known(v)' /\ sym'[v].label = m
      BY DEF Named
    <3>2. m \in Labels
      BY DEF Named
    <3> QED BY <1>3, <1>5, <3>1, <3>2 DEF Named
  <2>2. l \in Named'
    BY <1>5 DEF Named
  <2>3. ASSUME NEW m \in Named PROVE m \in Named'
    <3>1. PICK v \in UserLabels : Known(v) /\ sym[v].label = m
      BY DEF Named
    <3>2. m \in Labels
      BY DEF Named
    <3>3. CASE v # u
      BY <1>3, <1>5, <3>1, <3>2, <3>3 DEF Named
    <3>4. CASE v = u
      BY <2>2, <3>1, <3>4 DEF Known
    <3> QED BY <3>3, <3>4
  <2> QED BY <2>1, <2>2, <2>3
<1>7. FramesPending'
  <2>1. \A i \in DOMAIN frames : Distinct(frames[i])
    BY <1>1 DEF PendInv, FramesPending
  <2>2. ASSUME NEW i \in DOMAIN frames, NEW m \in Pending(frames[i])
        PROVE  m <= enc'.next /\ enc'.offset[m] = -1 /\ m \notin Named'
    <3>1. m \in Labels /\ m \in Nat /\ m # l
      BY <1>1, <1>4, LabelsFact
    <3>2. m <= enc.next /\ enc.offset[m] = -1 /\ m \notin Named
      BY <1>1 DEF PendInv, FramesPending
    <3> QED BY <1>1, <1>4, <1>6, <3>1, <3>2
  <2>3. \A i, j \in DOMAIN frames : i # j => \A m \in Pending(frames[i]) : m \notin Pending(frames[j])
    BY <1>1 DEF PendInv, FramesPending
  <2> QED BY <2>1, <2>2, <2>3 DEF FramesPending
<1>8. NamesPending'
  <2>1. ASSUME NEW v \in UserLabels, Known(v)' PROVE sym'[v].label <= enc'.next
    <3>1. CASE v = u
      BY <1>4, <1>5, <3>1
    <3>2. CASE v # u
      <4>1. sym[v].label \in Labels /\ sym[v].label <= enc.next /\ sym'[v] = sym[v]
        BY <1>1, <1>3, <1>5, <2>1, <3>2 DEF PendInv, NamesPending
      <4> DEFINE m == sym[v].label
      <4>2. m \in Nat /\ m <= enc.next /\ sym'[v].label = m
        BY <4>1, LabelsFact
      <4>3. enc.next \in Nat /\ enc.next <= enc'.next /\ enc'.next \in Nat
        BY <1>1, <1>4
      <4> HIDE DEF m
      <4> QED BY <4>2, <4>3
    <3> QED BY <3>1, <3>2
  <2>2. ASSUME NEW v \in UserLabels, sym'[v].state = "forward" PROVE enc'.offset[sym'[v].label] = -1
    <3>1. CASE v = u
      BY <1>2, <1>3, <2>2, <3>1
    <3>2. CASE v # u
      <4>1. sym'[v] = sym[v] /\ Known(v)
        BY <1>3, <2>2, <3>2 DEF Known
      <4> QED BY <1>1, <1>4, <2>2, <3>2, <4>1 DEF PendInv, NamesPending
    <3> QED BY <3>1, <3>2
  <2>3. ASSUME NEW v \in UserLabels, NEW w \in UserLabels, Known(v)', Known(w)',
               sym'[v].label = sym'[w].label
        PROVE  v = w
    <3>1. CASE v = u
      BY <1>3, <1>4, <1>5, <2>3, <3>1
    <3>2. CASE w = u
      BY <1>3, <1>4, <1>5, <2>3, <3>2
    <3>3. CASE v # u /\ w # u
      BY <1>1, <1>3, <1>5, <2>3, <3>3 DEF PendInv, NamesPending
    <3> QED BY <3>1, <3>2, <3>3
  <2> QED BY <2>1, <2>2, <2>3 DEF NamesPending, Known
<1>9. FreshUnplaced'
  <2> SUFFICES ASSUME NEW m \in Labels, m > enc'.next PROVE enc'.offset[m] = -1
    BY DEF FreshUnplaced
  <2>1. m > enc.next /\ m # l
    <3>1. m \in Nat /\ l \in Nat /\ enc.next \in Nat /\ enc'.next \in Nat
      BY <1>1, <1>4, LabelsFact
    <3>2. enc.next <= enc'.next /\ l <= enc'.next
      BY <1>4
    <3> QED BY <3>1, <3>2
  <2> QED BY <1>1, <2>1 DEF PendInv, FreshUnplaced
<1>10. ASSUME Promised PROVE BackPlaced'
  <2> SUFFICES ASSUME NEW i \in DOMAIN frames, NEW m \in Back(frames[i])
               PROVE  enc'.offset[m] >= 0 \/ (StripUnreachableLabels /\ frames[i].block)
    BY DEF BackPlaced
  <2>1. m \in Labels /\ (enc.offset[m] >= 0 \/ (StripUnreachableLabels /\ frames[i].block))
    BY <1>1, <1>10 DEF PendInv, BackPlaced
  <2>2. enc.offset[m] >= 0 => m # l
    BY <1>4
  <2> QED BY <2>1, <2>2
<1>11. Sound(enc', (Owing \cup Named)')
  <2>1. Owing' = Owing
    BY DEF Owing
  <2>2. ((Owing \cup Named) \cup {l}) \cap Labels \subseteq (Owing \cup Named)'
    BY <1>6, <2>1
  <2> HIDE DEF Owing, Named
  <2> QED BY <2>2, SoundMore
<1> QED
  BY <1>7, <1>8, <1>9, <1>10, <1>11 DEF PendInv, Promised

LEMMA JumpStatementL ==
  ASSUME LInv, NEW u \in UserLabels, JumpStatement(u)
  PROVE  LInv'
<1>0. IInv' /\ "jump" \in Ops
  BY LFacts, JumpStatementKeeps DEF Ops
<1>1. CASE sym[u].state # "unknown"
  <2>1. Simple(enc, "jump", sym[u].label) /\ sym' = sym
    BY <1>1 DEF JumpStatement
  <2>2. sym[u].label \in Labels /\ sym[u].label \in Named
    BY <1>1, LFacts, FrameFacts DEF Named, Known
  <2>3. sym[u].label \in Target
    BY <2>2, LabelsFact
  <2> QED BY <1>0, <2>1, <2>2, <2>3, SimpleL
<1>2. CASE sym[u].state = "unknown"
  <2> DEFINE l == enc.next + 1
             Q == Owing \cup Named
             a == AllocLabels(enc, 1)
             b == Enter(a)
             f == Assemble(b, "jump", l)
  <2>1. /\ CanAlloc(enc, 1) /\ Simple(a, "jump", l)
        /\ sym' = [sym EXCEPT ![u] = [label |-> l, state |-> "forward"]]
    BY <1>2 DEF JumpStatement
  <2>2. enc' = Leave(f, SavedEntire(a)) /\ frames' = frames
    BY <2>1 DEF Simple
  <2>3. /\ a \in Encoder /\ a.next = l /\ l \in Labels /\ l \in Target /\ Quiet(enc, a)
    BY <2>1, LFacts, AllocOne, AllocQuiet
  <2> HIDE DEF a
  <2>4. Quiet(a, b) /\ b.next = l
    BY <2>3, EnterQuiet
  <2> HIDE DEF b
  <2>5. Sound(b, Q \cup {l}) /\ b.offset = enc.offset
    <3>1. Sound(a, Q)
      BY <2>3, LFacts, QuietSound
    <3>2. Sound(b, Q)
      BY <2>4, <3>1, QuietSound
    <3>3. b.offset = enc.offset
      BY <2>3, <2>4 DEF Quiet
    <3> HIDE DEF Q
    <3> QED BY <3>2, <3>3, SoundMore
  <2> HIDE DEF Q
  <2>6. Sound(f, Q \cup {l}) /\ After(b, f, {})
    BY <1>0, <2>3, <2>5, AssembleSound
  <2> HIDE DEF f
  <2>7. Quiet(f, enc') /\ enc'.next = f.next
    <3>1. f \in Encoder /\ SavedEntire(a) \in BOOLEAN
      BY <2>6 DEF SavedEntire, Sound
    <3> QED BY <2>2, <3>1, LeaveQuiet
  <2>8. Sound(enc', Q \cup {l})
    BY <2>6, <2>7, QuietSound
  <2>9. enc'.next = l /\ \A m \in Labels : enc'.offset[m] = enc.offset[m]
    BY <2>4, <2>5, <2>6, <2>7 DEF After, Quiet
  <2>10. enc.offset[l] = -1
    <3>1. l > enc.next
      BY LFacts
    <3> QED BY <2>3, <3>1, LFacts DEF PendInv, FreshUnplaced
  <2>11. /\ sym[u].state = "unknown" /\ l = enc.next + 1 /\ enc'.next = enc.next + 1
         /\ enc'.offset[l] = -1
    BY <1>2, <2>3, <2>9, <2>10
  <2> HIDE DEF l
  <2>12. PendInv'
    BY <1>0, <2>1, <2>2, <2>3, <2>8, <2>9, <2>11, Renamed DEF IInv, Q
  <2> QED BY <1>0, <2>12 DEF LInv
<1> QED
  BY <1>1, <1>2

LEMMA LabelStatementL ==
  ASSUME LInv, NEW u \in UserLabels, LabelStatement(u)
  PROVE  LInv'
<1> DEFINE fresh == sym[u].state = "unknown"
           l     == IF fresh THEN enc.next + 1 ELSE sym[u].label
           e     == IF fresh THEN AllocLabels(enc, 1) ELSE enc
           f     == AssembleLabel(e, l)
           Q     == Owing \cup Named
           Way   == \/ sym[u].state = "unknown" /\ l = enc.next + 1 /\ e.next = enc.next + 1
                    \/ sym[u].state = "forward" /\ l = sym[u].label /\ e.next = enc.next
           Good  == /\ l \in Labels /\ Quiet(enc, e) /\ enc.offset[l] = -1 /\ Way
<1>0. IInv'
  BY LFacts, LabelStatementKeeps
<1>1. /\ fresh => CanAlloc(enc, 1)
      /\ sym[u].state # "defined"
      /\ enc' = f /\ frames' = frames
      /\ sym' = [sym EXCEPT ![u] = [label |-> l, state |-> "defined"]]
  BY DEF LabelStatement
<1>2. ASSUME fresh PROVE Good
  <2> DEFINE a == AllocLabels(enc, 1)
             m == enc.next + 1
  <2>1. a \in Encoder /\ a.next = m /\ m \in Labels /\ Quiet(enc, a)
    BY <1>1, <1>2, LFacts, AllocOne, AllocQuiet
  <2>2. enc.offset[m] = -1
    <3>1. m > enc.next
      BY LFacts
    <3> QED BY <2>1, <3>1, LFacts DEF PendInv, FreshUnplaced
  <2>3. e = a /\ l = m /\ sym[u].state = "unknown"
    BY <1>2
  <2> HIDE DEF e, l, a
  <2> QED BY <2>1, <2>2, <2>3
<1>3. ASSUME ~fresh PROVE Good
  <2>1. sym[u] \in SymEntry /\ e = enc /\ l = sym[u].label
    BY <1>3, LFacts, FrameFacts
  <2>2. sym[u].state = "forward" /\ Known(u)
    BY <1>1, <1>3, <2>1 DEF SymEntry, Known
  <2> HIDE DEF e, l
  <2>3. l \in Labels /\ enc.offset[l] = -1
    BY <2>1, <2>2, LFacts, FrameFacts DEF PendInv, NamesPending
  <2>4. Quiet(enc, e)
    BY <2>1, LFacts DEF Quiet
  <2> QED BY <2>1, <2>2, <2>3, <2>4
<1>4. Good
  BY <1>2, <1>3
<1> HIDE DEF Way, e, l, Q
<1>5. Sound(e, Q) /\ e.offset[l] = -1
  <2>1. Sound(e, Q)
    BY <1>4, LFacts, QuietSound DEF Q
  <2> QED BY <1>4, <2>1 DEF Quiet
<1>6. Sound(f, Q \ {l}) /\ After(e, f, {l})
  BY <1>4, <1>5, AssembleLabelSound
<1> HIDE DEF f
<1>7. Sound(enc', Q \cup {l})
  BY <1>1, <1>6, SoundMore
<1>8. enc'.next = e.next /\ \A m \in Labels \ {l} : enc'.offset[m] = enc.offset[m]
  BY <1>1, <1>4, <1>6 DEF After, Quiet
<1>9. \/ sym[u].state = "unknown" /\ l = enc.next + 1 /\ enc'.next = enc.next + 1
      \/ sym[u].state = "forward" /\ l = sym[u].label /\ enc'.next = enc.next
  BY <1>4, <1>8 DEF Way
<1>10. PendInv'
  BY <1>0, <1>1, <1>4, <1>7, <1>8, <1>9, Renamed DEF IInv, Q
<1> QED
  BY <1>0, <1>10 DEF LInv

-----------------------------------------------------------------------------
(* The end of the routine, and the theorems.                               *)

LEMMA EndRoutineL ==
  ASSUME LInv, EndRoutine
  PROVE  LInv'
<1> DEFINE Q == Owing \cup Named
<1>0. IInv' /\ "return" \in Ops /\ NoLabel \in Target
  BY LFacts, EndRoutineKeeps, LabelsFact DEF Ops
<1>1. /\ frames' = frames /\ sym' = sym
      /\ enc' = IF Reachable(enc) THEN Assemble(enc, "return", NoLabel)
                                  ELSE Asked(enc, "return", NoLabel)
  BY DEF EndRoutine
<1>2. Sound(enc, Q) /\ enc \in Encoder
  BY LFacts
<1> HIDE DEF Q
<1>3. Sound(enc', Q) /\ enc'.next = enc.next /\ \A m \in Labels : enc'.offset[m] = enc.offset[m]
  <2>1. CASE Reachable(enc)
    <3>1. Sound(enc', Q) /\ After(enc, enc', {})
      BY <1>0, <1>1, <1>2, <2>1, AssembleSound
    <3> QED BY <3>1 DEF After
  <2>2. CASE ~Reachable(enc)
    <3>1. Quiet(enc, enc') /\ enc'.next = enc.next
      BY <1>0, <1>1, <1>2, <2>2, AskedQuiet, AskedType
    <3> QED BY <1>2, <3>1, QuietSound DEF Quiet
  <2> QED BY <2>1, <2>2
<1>4. enc'.offset = enc.offset
  BY <1>2, <1>3 DEF Sound, Encoder
<1> QED
  BY <1>0, <1>1, <1>3, <1>4, Rested DEF LInv, IInv, Q

LEMMA InitL == Init => LInv
<1> SUFFICES ASSUME Init PROVE LInv
  OBVIOUS
<1>1. IInv
  BY InitKeeps
<1>2. /\ enc = InitEnc /\ frames = <<>>
      /\ sym = [u \in UserLabels |-> [label |-> NoLabel, state |-> "unknown"]]
  BY DEF Init
<1>3. /\ enc.offset = [l \in Labels |-> -1] /\ enc.use = [l \in Labels |-> 0]
      /\ enc.chain = <<>> /\ enc.code = <<>> /\ enc \in Encoder
  BY <1>1, <1>2 DEF InitEnc, IInv, BaseInv
<1>4. \A u \in UserLabels : sym[u].state = "unknown"
  BY <1>2
<1>5. FramesPending /\ BackPlaced
  BY <1>2 DEF FramesPending, BackPlaced
<1>6. NamesPending /\ FreshUnplaced
  BY <1>3, <1>4 DEF NamesPending, Known, FreshUnplaced
<1>7. CountsExact(enc)
  <2>1. \A m \in Labels : Jumps(enc, m) = {} /\ enc.use[m] = 0
    BY <1>3 DEF Jumps
  <2> QED BY <2>1, FS_EmptySet DEF CountsExact
<1>8. ChainExact(enc)
  BY <1>3 DEF ChainExact
<1>9. Owed(enc, Owing \cup Named)
  BY <1>3 DEF Owed
<1> QED
  BY <1>1, <1>3, <1>5, <1>6, <1>7, <1>8, <1>9 DEF LInv, PendInv, Sound

LEMMA NextL == LInv /\ [Next]_vars => LInv'
<1> SUFFICES ASSUME LInv, [Next]_vars PROVE LInv'
  OBVIOUS
<1>1. CASE UNCHANGED vars
  <2>1. IInv'
    BY LFacts, NextKeeps
  <2>2. enc' = enc /\ frames' = frames /\ sym' = sym
    BY <1>1 DEF vars
  <2>3. PendInv'
    BY <2>2, LFacts DEF PendInv, FramesPending, NamesPending, FreshUnplaced, BackPlaced,
                        Named, Known, Owing
  <2> QED BY <2>1, <2>3 DEF LInv
<1>2. CASE Next
  <2>1. PlainStatement => LInv'
    BY PlainStatementL
  <2>2. \A u \in UserLabels : JumpStatement(u) \/ LabelStatement(u) => LInv'
    BY JumpStatementL, LabelStatementL
  <2>3. BreakStatement \/ ContinueStatement => LInv'
    BY BreakStatementL, ContinueStatementL
  <2>4. \A c \in Conds :
          IfReturnStatement(c) \/ OpenIf(c) \/ OpenWhile(c) \/ CloseDo(c) => LInv'
    BY IfReturnStatementL, OpenIfL, OpenWhileL, CloseDoL
  <2>5. OpenBlock \/ CloseBlock \/ CloseIf \/ ElseClause \/ CloseElse => LInv'
    BY OpenBlockL, CloseBlockL, CloseIfL, ElseClauseL, CloseElseL
  <2>6. CloseWhile \/ OpenDo \/ CloseFor => LInv'
    BY CloseWhileL, OpenDoL, CloseForL
  <2>7. \A u \in Updates, c \in Conds : OpenFor(u, c) => LInv'
    BY OpenForL
  <2>8. OpenSwitch \/ CaseClause \/ DefaultClause \/ CloseSwitch => LInv'
    BY OpenSwitchL, CaseClauseL, DefaultClauseL, CloseSwitchL
  <2>9. EndRoutine => LInv'
    BY EndRoutineL
  <2> QED
    BY <1>2, <2>1, <2>2, <2>3, <2>4, <2>5, <2>6, <2>7, <2>8, <2>9 DEF Next
<1> QED
  BY <1>1, <1>2

LEMMA LabelInductive == Spec => []LInv
<1>1. Init => LInv
  BY InitL
<1>2. LInv /\ [Next]_vars => LInv'
  BY NextL
<1> QED
  BY <1>1, <1>2, PTL DEF Spec

\* Only assemble_routine_end ends a routine.
LEMMA Unended ==
  ASSUME Next, ~EndRoutine
  PROVE  ~ended'
<1>1. PlainStatement => ~ended /\ ended' = ended
  BY DEF PlainStatement, AtStatement, Simple
<1>2. \A u \in UserLabels : JumpStatement(u) \/ LabelStatement(u) => ~ended /\ ended' = ended
  BY DEF JumpStatement, LabelStatement, AtStatement, Simple
<1>3. BreakStatement \/ ContinueStatement => ~ended /\ ended' = ended
  BY DEF BreakStatement, ContinueStatement, AtStatement, Simple
<1>4. \A c \in Conds :
        IfReturnStatement(c) \/ OpenIf(c) \/ OpenWhile(c) \/ CloseDo(c) => ~ended /\ ended' = ended
  BY DEF IfReturnStatement, OpenIf, OpenWhile, CloseDo, AtStatement, CanOpen, CanClose, Open, Close
<1>5. OpenBlock \/ CloseBlock \/ CloseIf \/ ElseClause \/ CloseElse => ~ended /\ ended' = ended
  BY DEF OpenBlock, CloseBlock, CloseIf, ElseClause, CloseElse, AtStatement, CanOpen, CanClose,
         Open, Close
<1>6. CloseWhile \/ OpenDo \/ CloseFor => ~ended /\ ended' = ended
  BY DEF CloseWhile, OpenDo, CloseFor, AtStatement, CanOpen, CanClose, Open, Close
<1>7. \A u \in Updates, c \in Conds : OpenFor(u, c) => ~ended /\ ended' = ended
  BY DEF OpenFor, AtStatement, CanOpen, Open
<1>8. OpenSwitch \/ CaseClause \/ DefaultClause \/ CloseSwitch => ~ended /\ ended' = ended
  BY DEF OpenSwitch, CaseClause, DefaultClause, CloseSwitch, InSwitch, AtStatement, CanOpen,
         CanClose, Open, Close
<1> QED
  BY <1>1, <1>2, <1>3, <1>4, <1>5, <1>6, <1>7, <1>8 DEF Next

\* A routine ends only when no statement of it is open.
Bare == ended => frames = <<>>

LEMMA EndsBare == Spec => []Bare
<1>1. Init => Bare
  BY DEF Init, Bare
<1>2. Bare /\ [Next]_vars => Bare'
  <2> SUFFICES ASSUME Bare, [Next]_vars PROVE Bare'
    OBVIOUS
  <2>1. CASE UNCHANGED vars
    BY <2>1 DEF vars, Bare
  <2>2. CASE EndRoutine
    BY <2>2 DEF EndRoutine, Bare
  <2>3. ASSUME Next, ~EndRoutine PROVE Bare'
    BY <2>3, Unended DEF Bare
  <2> QED BY <2>1, <2>2, <2>3
<1> QED
  BY <1>1, <1>2, PTL DEF Spec

\* What assemble_label_no, assemble_forward_label_no and mark_label_used leave
\* for transfer_routine_z and _g: the list from first_label on holds exactly
\* the labels with an offset, once each and in the order of the code, and
\* labeluse[] counts the transfers of the code.
THEOREM LabelsHold == Spec => []LabelsExact
<1>1. LInv => LabelsExact
  <2> SUFFICES ASSUME LInv PROVE LabelsExact
    OBVIOUS
  <2>1. enc \in Encoder /\ CountsExact(enc) /\ ChainExact(enc)
    BY LFacts DEF Sound
  <2>2. DOMAIN enc.chain = 1 .. Len(enc.chain) /\ \A i \in DOMAIN enc.chain : enc.chain[i] \in Labels
    BY <2>1, LenProperties, ElementOfSeq DEF Encoder
  <2>3. UseCounted
    BY <2>1 DEF UseCounted, CountsExact, Jumps
  <2>4. ChainInOrder
    BY <2>1, <2>2 DEF ChainInOrder, ChainExact
  <2> QED BY <2>3, <2>4 DEF LabelsExact
<1> QED
  BY <1>1, LabelInductive, PTL

\* A label of the compiler's own that is dropped is never jumped to, wherever
\* the statement it belongs to stands, however that is nested and whatever its
\* conditions; with unreachable labels stripped, provided that no label of the
\* programmer's makes a dead block reachable in its middle.
THEOREM PromiseHolds ==
  ASSUME StripUnreachableLabels => ~JumpIntoDead
  PROVE  Spec => []PromiseKept
<1>1. LInv /\ Bare => PromiseKept
  <2> SUFFICES ASSUME LInv, frames = <<>>, NEW k \in DOMAIN enc.code, NEW l,
                      l = enc.code[k].label, l # NoLabel,
                      \A u \in UserLabels : sym[u].label # l
               PROVE  enc.offset[l] >= 0
    BY DEF PromiseKept, Bare
  <2>1. Sound(enc, Owing \cup Named) /\ enc \in Encoder
    BY LFacts
  <2>2. l \in Labels
    <3>1. enc.code \in Seq(CodeItem)
      BY <2>1 DEF Encoder, CodeItem
    <3>2. enc.code[k] \in CodeItem
      BY <3>1, ElementOfSeq, LenProperties
    <3> QED BY <3>2, LabelsFact DEF CodeItem
  <2>3. l \notin Owing \cup Named
    BY DEF Owing, Named
  <2>4. enc.use[l] > 0
    <3>1. k \in Jumps(enc, l) /\ IsFiniteSet(Jumps(enc, l))
      BY <2>1, JumpsFinite DEF Jumps
    <3>2. Cardinality(Jumps(enc, l)) \in Nat /\ Cardinality(Jumps(enc, l)) # 0
      BY <3>1, FS_EmptySet, FS_CardinalityType
    <3> QED BY <2>1, <2>2, <3>2 DEF Sound, CountsExact
  <2> QED BY <2>1, <2>2, <2>3, <2>4 DEF Sound, Owed, Promised
<1> QED
  BY <1>1, LabelInductive, EndsBare, PTL

-----------------------------------------------------------------------------
(* Third part: the code of a finished routine runs as its source does.     *)
(* Matched says so instruction by instruction; what follows carries it     *)
(* along the paths that CanExecute, SourceArrives and CodeArrives take.    *)

\* A set of numbers that is not empty has a least one.
LEMMA LeastNumber ==
  ASSUME NEW T \in SUBSET Nat, T # {}
  PROVE  \E x \in T : \A y \in T : x <= y
<1>1. \E x \in T : \A y \in T : ~ (<<y, x>> \in OpToRel(<, Nat))
  BY NatLessThanWellFounded, WFMin
<1>2. PICK x \in T : \A y \in T : ~ (<<y, x>> \in OpToRel(<, Nat))
  BY <1>1
<1>3. ASSUME NEW y \in T PROVE x <= y
  <2>1. ~ (y < x)
    BY <1>2 DEF OpToRel
  <2> QED BY <2>1
<1> QED BY <1>3

\* What holds at 0 and passes from each number to the next holds up to N.
LEMMA UpTo ==
  ASSUME NEW N \in Nat, NEW K, 0 \in K, \A n \in 1 .. N : n - 1 \in K => n \in K
  PROVE  \A n \in 0 .. N : n \in K
<1> SUFFICES ASSUME NEW m \in 0 .. N, m \notin K PROVE FALSE
  OBVIOUS
<1> DEFINE Missing == {n \in 0 .. N : n \notin K}
<1>1. PICK x \in Missing : \A y \in Missing : x <= y
  <2>1. Missing \in SUBSET Nat /\ Missing # {}
    OBVIOUS
  <2> QED BY <2>1, LeastNumber
<1>2. x \in 1 .. N
  BY <1>1
<1>3. x - 1 \in K
  <2>1. x - 1 \in 0 .. N /\ ~ (x <= x - 1)
    BY <1>2
  <2> QED BY <2>1, <1>1
<1> QED BY <1>1, <1>2, <1>3

\* A function that makes each of its values from the one before.
Iterated(N, a, F, f) == f = [n \in 0 .. N |-> IF n = 0 THEN a ELSE F[f[n - 1]]]

\* There is one, and it stays in the set that the step F does not leave.
LEMMA Iterates ==
  ASSUME NEW N \in Nat, NEW S, NEW a \in S, NEW F \in [S -> S]
  PROVE  \E f \in [0 .. N -> S] : Iterated(N, a, F, f)
<1> DEFINE K == {m \in 0 .. N : \E f \in [0 .. m -> S] : Iterated(m, a, F, f)}
<1>1. 0 \in K
  <2> DEFINE g == [n \in 0 .. 0 |-> a]
  <2>1. g \in [0 .. 0 -> S]
    OBVIOUS
  <2>2. Iterated(0, a, F, g)
    BY DEF Iterated
  <2> HIDE DEF g
  <2> QED BY <2>1, <2>2
<1>2. ASSUME NEW m \in 1 .. N, m - 1 \in K PROVE m \in K
  <2>1. PICK f \in [0 .. m - 1 -> S] : Iterated(m - 1, a, F, f)
    BY <1>2
  <2>2. \A n \in 0 .. m - 1 : f[n] = IF n = 0 THEN a ELSE F[f[n - 1]]
    BY <2>1 DEF Iterated
  <2> DEFINE g == [n \in 0 .. m |-> IF n = m THEN F[f[m - 1]] ELSE f[n]]
  <2>3. m - 1 \in 0 .. m - 1 /\ f[m - 1] \in S /\ F[f[m - 1]] \in S
    OBVIOUS
  <2>4. g \in [0 .. m -> S]
    BY <2>3
  <2>5. ASSUME NEW n \in 0 .. m PROVE g[n] = IF n = 0 THEN a ELSE F[g[n - 1]]
    <3>1. CASE n = m
      <4>1. g[n] = F[f[m - 1]] /\ g[m - 1] = f[m - 1] /\ n # 0
        BY <3>1
      <4> HIDE DEF g
      <4> QED BY <3>1, <4>1
    <3>2. CASE n # m
      <4>1. n \in 0 .. m - 1 /\ g[n] = f[n] /\ (n # 0 => g[n - 1] = f[n - 1])
        BY <3>2
      <4> HIDE DEF g
      <4> QED BY <4>1, <2>2
    <3> QED BY <3>1, <3>2
  <2>6. g = [n \in 0 .. m |-> g[n]]
    OBVIOUS
  <2> HIDE DEF g
  <2>7. Iterated(m, a, F, g)
    BY <2>5, <2>6 DEF Iterated
  <2>8. m \in 0 .. N
    OBVIOUS
  <2> QED BY <2>4, <2>7, <2>8
<1>3. N \in K
  <2>1. N \in 0 .. N
    OBVIOUS
  <2> HIDE DEF K
  <2> QED BY <1>1, <1>2, <2>1, UpTo
<1> QED BY <1>3

\* The routine is over and control does not run off its end ...
Gone == ended => ~Reachable(enc)

LEMMA EndsGone == LInv /\ Gone /\ [Next]_vars => Gone'
<1> SUFFICES ASSUME LInv, Gone, [Next]_vars PROVE Gone'
  OBVIOUS
<1>1. CASE UNCHANGED vars
  BY <1>1 DEF vars, Gone
<1>2. CASE EndRoutine
  <2>1. enc \in Encoder
    BY LFacts
  <2>2. CASE Reachable(enc)
    <3>1. enc' = Assemble(enc, "return", NoLabel)
      BY <1>2, <2>2 DEF EndRoutine
    <3>2. enc'.exec = {"UNREACHABLE"}
      BY <2>1, <2>2, <3>1 DEF Assemble, Terminates, MarkLabelUsed, Asked, Encoder
    <3> QED BY <3>2 DEF Gone, Reachable
  <2>3. CASE ~Reachable(enc)
    <3>1. enc'.exec = enc.exec
      BY <1>2, <2>1, <2>3 DEF EndRoutine, Asked, Encoder
    <3> QED BY <2>3, <3>1 DEF Gone, Reachable
  <2> QED BY <2>2, <2>3
<1>3. ASSUME ~EndRoutine, Next PROVE ~ended'
  BY <1>3, Unended
<1> QED BY <1>1, <1>2, <1>3 DEF Gone

LEMMA Ends == Spec => []Gone
<1>1. Init => Gone
  BY DEF Init, Gone
<1> QED
  BY <1>1, EndsGone, LabelInductive, PTL DEF Spec

-----------------------------------------------------------------------------
\* The instruction of the source that instruction k of the code stands for.
Src(k) == enc.code[k].src

\* A routine that is over and compiles: control that comes to a place of the
\* code comes to an instruction of it ...
Finished ==
  /\ enc \in Encoder /\ Matched(enc) /\ ~Reachable(enc) /\ Compiles

LEMMA FinishedFacts ==
  ASSUME Finished
  PROVE  /\ Len(enc.code) \in Nat /\ DOMAIN enc.code = 1 .. Len(enc.code)
         /\ Len(enc.source) \in Nat /\ DOMAIN enc.source = 1 .. Len(enc.source)
         /\ \A k \in DOMAIN enc.code :
              /\ Src(k) \in DOMAIN enc.source
              /\ enc.code[k].op = enc.source[Src(k)].op
              /\ enc.code[k].label = enc.source[Src(k)].label
              /\ enc.code[k].label = NoLabel \/ enc.code[k].label \in Labels
<1>1. enc.code \in Seq(CodeItem) /\ enc.source \in Seq(SourceItem)
  BY DEF Finished, Encoder, CodeItem, SourceItem
<1>2. /\ Len(enc.code) \in Nat /\ DOMAIN enc.code = 1 .. Len(enc.code)
      /\ Len(enc.source) \in Nat /\ DOMAIN enc.source = 1 .. Len(enc.source)
  BY <1>1, LenProperties
<1>3. ASSUME NEW k \in DOMAIN enc.code
      PROVE  /\ Src(k) \in DOMAIN enc.source
             /\ enc.code[k].op = enc.source[Src(k)].op
             /\ enc.code[k].label = enc.source[Src(k)].label
  BY <1>2, <1>3 DEF Finished, Matched, Src
<1>4. ASSUME NEW k \in DOMAIN enc.code
      PROVE  enc.code[k].label = NoLabel \/ enc.code[k].label \in Labels
  <2>1. enc.code[k] \in CodeItem
    BY <1>1, <1>2, <1>4, ElementOfSeq
  <2> QED BY <2>1, LabelsFact DEF CodeItem
<1> QED BY <1>2, <1>3, <1>4

\* ... to the one that stands for where control of the source has come to.
LEMMA Arrived ==
  ASSUME Finished, NEW p \in Nat, NEW i, At(enc, p, i)
  PROVE  p + 1 \in DOMAIN enc.code /\ Src(p + 1) = i
<1>1. p < Len(enc.code) /\ enc.code[p + 1].src = i
  BY DEF At, Finished
<1>2. p + 1 \in 1 .. Len(enc.code)
  BY <1>1, FinishedFacts
<1> QED BY <1>1, <1>2, FinishedFacts DEF Src

\* The first instruction, the next one, and the one a transfer goes to.
LEMMA FlowsAlike ==
  ASSUME Finished
  PROVE  /\ 1 \in DOMAIN enc.code /\ Src(1) = 1
         /\ \A k \in DOMAIN enc.code :
              /\ EndsFlow(enc.code[k].op) \/ (k + 1 \in DOMAIN enc.code /\ Src(k + 1) = Src(k) + 1)
              /\ enc.code[k].label # NoLabel =>
                   /\ enc.offset[enc.code[k].label] + 1 \in DOMAIN enc.code
                   /\ Src(enc.offset[enc.code[k].label] + 1) = enc.place[enc.code[k].label]
<1>1. 1 \in DOMAIN enc.code /\ Src(1) = 1
  <2>1. At(enc, 0, 1)
    BY DEF Finished, Matched
  <2>2. 0 \in Nat /\ 0 + 1 = 1
    OBVIOUS
  <2> QED BY <2>1, <2>2, Arrived
<1>2. ASSUME NEW k \in DOMAIN enc.code, ~EndsFlow(enc.code[k].op)
      PROVE  k + 1 \in DOMAIN enc.code /\ Src(k + 1) = Src(k) + 1
  <2>1. k \in 1 .. Len(enc.code) /\ k \in Nat
    BY FinishedFacts
  <2>2. At(enc, k, Src(k) + 1)
    BY <1>2, <2>1 DEF Finished, Matched, Src
  <2> QED BY <2>1, <2>2, Arrived
<1>3. ASSUME NEW k \in DOMAIN enc.code, NEW m, m = enc.code[k].label, m # NoLabel
      PROVE  enc.offset[m] + 1 \in DOMAIN enc.code /\ Src(enc.offset[m] + 1) = enc.place[m]
  <2>1. m \in Labels /\ enc.offset[m] >= 0
    BY <1>3, FinishedFacts DEF Finished, Compiles
  <2>2. enc.offset[m] \in Nat
    BY <2>1 DEF Finished, Encoder
  <2>3. At(enc, enc.offset[m], enc.place[m])
    BY <2>1 DEF Finished, Matched
  <2> QED BY <2>2, <2>3, Arrived
<1> QED BY <1>1, <1>2, <1>3

\* Everything that control can come to in the source is in the code.
LEMMA ExecutedCoded ==
  ASSUME Finished
  PROVE  CanExecute \subseteq {Src(k) : k \in DOMAIN enc.code}
<1> DEFINE N == Len(enc.source)
           C == {Src(k) : k \in DOMAIN enc.code}
           S == SUBSET C
           Go(w) == w \cup UNION {Successors(i) : i \in w}
           made(f) == [k \in 0 .. N |-> IF k = 0 THEN {1} ELSE Go(f[k - 1])]
           within == CHOOSE f : f = made(f)
           F == [w \in S |-> Go(w)]
<1>1. CanExecute = within[N]
  BY DEF CanExecute
<1>2. N \in Nat /\ {1} \in S
  BY FinishedFacts, FlowsAlike
<1>3. ASSUME NEW i \in C PROVE Successors(i) \subseteq C
  <2>1. PICK k \in DOMAIN enc.code : i = Src(k)
    BY <1>3
  <2>2. enc.source[i].op = enc.code[k].op /\ enc.source[i].label = enc.code[k].label
    BY <2>1, FinishedFacts
  <2> QED BY <2>1, <2>2, FlowsAlike DEF Successors
<1>4. ASSUME NEW w \in S PROVE Go(w) \in S
  BY <1>3
<1>5. F \in [S -> S] /\ \A w \in S : F[w] = Go(w)
  BY <1>4
<1> HIDE DEF N, S, F, Go
<1>6. \E f \in [0 .. N -> S] : f = made(f)
  <2>1. PICK f \in [0 .. N -> S] : Iterated(N, {1}, F, f)
    BY <1>2, <1>5, Iterates
  <2>2. \A k \in 0 .. N : k # 0 => F[f[k - 1]] = Go(f[k - 1])
    BY <1>2, <1>5
  <2>3. f = [k \in 0 .. N |-> IF k = 0 THEN {1} ELSE F[f[k - 1]]]
    BY <2>1 DEF Iterated
  <2>4. made(f) = [k \in 0 .. N |-> IF k = 0 THEN {1} ELSE F[f[k - 1]]]
    BY <2>2
  <2> QED BY <2>3, <2>4
<1>7. within = made(within)
  <2> HIDE DEF made
  <2> QED BY <1>6
<1>8. within[0] = {1} /\ \A k \in 1 .. N : within[k] = Go(within[k - 1])
  <2>1. 0 \in 0 .. N /\ \A k \in 1 .. N : k \in 0 .. N /\ k # 0
    BY <1>2
  <2> HIDE DEF within
  <2> QED BY <2>1, <1>7
<1> HIDE DEF within
<1>9. \A k \in 0 .. N : within[k] \in S
  <2> DEFINE K == {k \in 0 .. N : within[k] \in S}
  <2>1. 0 \in K
    BY <1>2, <1>8
  <2>2. \A k \in 1 .. N : k - 1 \in K => k \in K
    BY <1>2, <1>4, <1>8
  <2> HIDE DEF K
  <2>3. \A k \in 0 .. N : k \in K
    BY <1>2, <2>1, <2>2, UpTo
  <2> QED BY <2>3 DEF K
<1> QED
  <2>1. N \in 0 .. N
    BY <1>2
  <2> QED BY <1>1, <1>9, <2>1 DEF S

\* One step along the jumps, with g what more steps lead to.
Hop(jumps, dest, g, q) ==
  IF q \notin jumps THEN q ELSE IF dest[q] \in DOMAIN dest THEN g[dest[q]] ELSE 0

\* Arrives, unrolled: g[n] follows at most n jumps.
Follows(jumps, dest, N, g) ==
  /\ \A q \in DOMAIN dest : g[0][q] = IF q \notin jumps THEN q ELSE 0
  /\ \A n \in 1 .. N : \A q \in DOMAIN dest : g[n][q] = Hop(jumps, dest, g[n - 1], q)

LEMMA ArrivesUnrolled ==
  ASSUME NEW jumps, NEW dest, Len(enc.source) \in Nat
  PROVE  \E g : /\ Follows(jumps, dest, Len(enc.source), g)
                /\ \A p \in DOMAIN dest : Arrives(jumps, dest, p) = g[Len(enc.source)][p]
<1> DEFINE N == Len(enc.source)
           D == DOMAIN dest
           S == [D -> D \cup {0}]
           a == [q \in D |-> IF q \notin jumps THEN q ELSE 0]
           More(g) == [q \in D |-> Hop(jumps, dest, g, q)]
           F == [g \in S |-> More(g)]
           made(f) == [fuel \in 0 .. N |->
                         [q \in D |->
                            IF q \notin jumps THEN q
                            ELSE IF fuel > 0 /\ dest[q] \in D THEN f[fuel - 1][dest[q]]
                            ELSE 0]]
           after == CHOOSE f : f = made(f)
<1>1. \A p \in D : Arrives(jumps, dest, p) = after[N][p]
  BY DEF Arrives
<1>2. N \in Nat /\ a \in S
  OBVIOUS
<1>3. ASSUME NEW g \in S PROVE More(g) \in S
  <2>1. \A q \in D : Hop(jumps, dest, g, q) \in D \cup {0}
    BY <1>3 DEF Hop
  <2> QED BY <2>1
<1>4. F \in [S -> S] /\ \A g \in S : F[g] = More(g)
  BY <1>3
<1>5. \A f : \A n \in 1 .. N :
        More(f[n - 1]) = [q \in D |-> IF q \notin jumps THEN q
                                      ELSE IF n > 0 /\ dest[q] \in D THEN f[n - 1][dest[q]]
                                      ELSE 0]
  <2> TAKE f
  <2> TAKE n \in 1 .. N
  <2>1. n > 0
    BY <1>2
  <2> QED BY <2>1 DEF Hop
<1>6. \A f : made(f) = [n \in 0 .. N |-> IF n = 0 THEN a ELSE More(f[n - 1])]
  <2> TAKE f
  <2> DEFINE v(n) == [q \in D |-> IF q \notin jumps THEN q
                                  ELSE IF n > 0 /\ dest[q] \in D THEN f[n - 1][dest[q]]
                                  ELSE 0]
  <2>1. v(0) = a
    <3>1. ~ (0 > 0)
      OBVIOUS
    <3> QED BY <3>1
  <2>2. \A n \in 0 .. N : n # 0 => v(n) = More(f[n - 1])
    <3>1. \A n \in 0 .. N : n # 0 => n \in 1 .. N
      BY <1>2
    <3> HIDE DEF More, N
    <3> QED BY <3>1, <1>5
  <2> HIDE DEF a, More, N
  <2>3. \A n \in 0 .. N : v(n) = IF n = 0 THEN a ELSE More(f[n - 1])
    <3> HIDE DEF v
    <3> QED BY <2>1, <2>2
  <2>4. made(f) = [n \in 0 .. N |-> v(n)]
    OBVIOUS
  <2> HIDE DEF made, v
  <2> QED BY <2>3, <2>4
<1> HIDE DEF N, S, F, More, made, a
<1>7. \E f \in [0 .. N -> S] : f = made(f)
  <2>1. PICK f \in [0 .. N -> S] : Iterated(N, a, F, f)
    BY <1>2, <1>4, Iterates
  <2>2. \A n \in 0 .. N : n # 0 => F[f[n - 1]] = More(f[n - 1])
    BY <1>2, <1>4
  <2>3. f = [n \in 0 .. N |-> IF n = 0 THEN a ELSE F[f[n - 1]]]
    BY <2>1 DEF Iterated
  <2>4. f = [n \in 0 .. N |-> IF n = 0 THEN a ELSE More(f[n - 1])]
    BY <2>2, <2>3
  <2> QED BY <2>4, <1>6
<1>8. after = made(after)
  BY <1>7
<1> HIDE DEF after
<1>9. Follows(jumps, dest, N, after)
  <2>1. after[0] = a /\ \A n \in 1 .. N : after[n] = More(after[n - 1])
    <3>1. 0 \in 0 .. N /\ \A n \in 1 .. N : n \in 0 .. N /\ n # 0
      BY <1>2
    <3>2. after = [n \in 0 .. N |-> IF n = 0 THEN a ELSE More(after[n - 1])]
      BY <1>8, <1>6
    <3> QED BY <3>1, <3>2
  <2> QED BY <2>1 DEF Follows, a, More
<1> QED
  BY <1>1, <1>9 DEF N

\* From an instruction of the code the jumps lead to the instruction that they
\* lead to in the source.
LEMMA ArriveAlike ==
  ASSUME Finished, NEW k \in DOMAIN enc.code
  PROVE  CodeArrives(k) = SourceArrives(Src(k))
<1> DEFINE N  == Len(enc.source)
           sj == JumpsOf(enc.source)
           cj == JumpsOf(enc.code)
           sd == [p \in DOMAIN enc.source |->
                    IF enc.source[p].op = "jump" THEN enc.place[enc.source[p].label] ELSE 0]
           cd == [q \in DOMAIN enc.code |->
                    IF enc.code[q].op = "jump" THEN enc.offset[enc.code[q].label] + 1 ELSE 0]
           AlikeAt(g, h, q) ==
             \/ g[q] = 0 /\ h[Src(q)] = 0
             \/ g[q] \in DOMAIN enc.code /\ h[Src(q)] = Src(g[q])
<1>1. N \in Nat /\ 0 \notin DOMAIN enc.code /\ \A q \in DOMAIN enc.code : Src(q) \in DOMAIN enc.source
  BY FinishedFacts
<1>2. DOMAIN sd = DOMAIN enc.source /\ DOMAIN cd = DOMAIN enc.code
  OBVIOUS
<1>3. PICK h : /\ Follows(sj, sd, N, h)
               /\ \A p \in DOMAIN enc.source : Arrives(sj, sd, p) = h[N][p]
  <2> HIDE DEF sj, sd
  <2>1. PICK h : Follows(sj, sd, N, h) /\ \A p \in DOMAIN sd : Arrives(sj, sd, p) = h[N][p]
    BY <1>1, ArrivesUnrolled
  <2> QED BY <1>2, <2>1
<1>4. PICK g : /\ Follows(cj, cd, N, g)
               /\ \A p \in DOMAIN enc.code : Arrives(cj, cd, p) = g[N][p]
  <2> HIDE DEF cj, cd
  <2>1. PICK g : Follows(cj, cd, N, g) /\ \A p \in DOMAIN cd : Arrives(cj, cd, p) = g[N][p]
    BY <1>1, ArrivesUnrolled
  <2> QED BY <1>2, <2>1
<1>5. ASSUME NEW q \in DOMAIN enc.code
      PROVE  /\ q \in cj <=> Src(q) \in sj
             /\ q \in cj => /\ cd[q] \in DOMAIN enc.code
                            /\ sd[Src(q)] = Src(cd[q])
  <2>1. enc.code[q].op = enc.source[Src(q)].op /\ enc.code[q].label = enc.source[Src(q)].label
    BY FinishedFacts
  <2>2. q \in cj <=> Src(q) \in sj
    BY <1>1, <2>1 DEF JumpsOf
  <2>3. ASSUME q \in cj PROVE cd[q] \in DOMAIN enc.code /\ sd[Src(q)] = Src(cd[q])
    <3>1. enc.code[q].op = "jump" /\ enc.source[Src(q)].op = "jump"
      BY <2>1, <2>3 DEF JumpsOf
    <3>2. enc.code[q].label # NoLabel
      BY <3>1, <1>1, <2>1, FinishedFacts DEF Finished, Matched
    <3> QED BY <1>1, <2>1, <3>1, <3>2, FlowsAlike
  <2> QED BY <2>2, <2>3
<1> HIDE DEF sj, cj, sd, cd, N
<1> DEFINE K == {n \in 0 .. N : \A q \in DOMAIN enc.code : AlikeAt(g[n], h[n], q)}
<1>6. 0 \in K
  <2>1. ASSUME NEW q \in DOMAIN enc.code PROVE AlikeAt(g[0], h[0], q)
    BY <1>1, <1>2, <1>3, <1>4, <1>5 DEF Follows
  <2> QED BY <1>1, <2>1
<1>7. ASSUME NEW n \in 1 .. N, n - 1 \in K PROVE n \in K
  <2>1. ASSUME NEW q \in DOMAIN enc.code PROVE AlikeAt(g[n], h[n], q)
    <3>1. g[n][q] = Hop(cj, cd, g[n - 1], q) /\ h[n][Src(q)] = Hop(sj, sd, h[n - 1], Src(q))
      BY <1>1, <1>2, <1>3, <1>4 DEF Follows
    <3>2. CASE q \notin cj
      BY <3>1, <3>2, <1>5 DEF Hop
    <3>3. CASE q \in cj
      <4>1. cd[q] \in DOMAIN enc.code /\ sd[Src(q)] = Src(cd[q]) /\ Src(q) \in sj
        BY <3>3, <1>5
      <4>2. g[n][q] = g[n - 1][cd[q]] /\ h[n][Src(q)] = h[n - 1][Src(cd[q])]
        BY <3>1, <3>3, <4>1, <1>1, <1>2 DEF Hop
      <4>3. AlikeAt(g[n - 1], h[n - 1], cd[q])
        BY <1>7, <4>1
      <4> QED BY <4>2, <4>3
    <3> QED BY <3>2, <3>3
  <2>2. n \in 0 .. N
    BY <1>1
  <2> QED BY <2>1, <2>2
<1> HIDE DEF K
<1>8. N \in K
  <2>1. N \in 0 .. N
    BY <1>1
  <2> QED BY <1>1, <1>6, <1>7, <2>1, UpTo
<1>9. AlikeAt(g[N], h[N], k)
  BY <1>8 DEF K
<1>10. CodeArrives(k) = (IF g[N][k] = 0 THEN 0 ELSE Src(g[N][k])) /\ SourceArrives(Src(k)) = h[N][Src(k)]
  <2>1. CodeArrives(k) = LET p == Arrives(cj, cd, k) IN IF p = 0 THEN 0 ELSE Src(p)
    BY DEF CodeArrives, Src, cj, cd
  <2>2. SourceArrives(Src(k)) = Arrives(sj, sd, Src(k))
    BY DEF SourceArrives, sj, sd
  <2> QED BY <2>1, <2>2, <1>1, <1>3, <1>4
<1> QED
  BY <1>1, <1>9, <1>10

\* The comment over assemble_label_no (asm.c): code that cannot be reached "can
\* safely" be skipped, and a label in it that nothing branches to.  A routine
\* that compiles does in its code what its source says, however its statements
\* are nested; provided that unreachable labels are stripped and no label of
\* the programmer's makes a dead block reachable in its middle.
THEOREM StrippingHolds ==
  ASSUME StripUnreachableLabels, ~JumpIntoDead
  PROVE  Spec => []StrippingSound
<1>1. LInv /\ Gone => StrippingSound
  <2> SUFFICES ASSUME LInv, ~Reachable(enc), Compiles
               PROVE  /\ CodeArrives(1) = SourceArrives(1)
                      /\ \A i \in {j \in CanExecute : enc.source[j].op # "jump"} :
                           \E k \in DOMAIN enc.code :
                             /\ enc.code[k].src = i
                             /\ \/ EndsFlow(enc.code[k].op)
                                \/ CodeArrives(k + 1) = SourceArrives(i + 1)
                             /\ enc.code[k].label # NoLabel =>
                                  CodeArrives(enc.offset[enc.code[k].label] + 1)
                                    = SourceArrives(enc.place[enc.code[k].label])
    BY DEF StrippingSound, Gone
  <2>1. Finished
    BY LFacts DEF Finished, LInv, IInv, FlagInv, Restricted
  <2>2. CodeArrives(1) = SourceArrives(1)
    BY <2>1, FlowsAlike, ArriveAlike
  <2>3. ASSUME NEW k \in DOMAIN enc.code
        PROVE  /\ EndsFlow(enc.code[k].op) \/ CodeArrives(k + 1) = SourceArrives(Src(k) + 1)
               /\ enc.code[k].label # NoLabel =>
                    CodeArrives(enc.offset[enc.code[k].label] + 1)
                      = SourceArrives(enc.place[enc.code[k].label])
    BY <2>1, FlowsAlike, ArriveAlike
  <2>4. ASSUME NEW i \in CanExecute PROVE \E k \in DOMAIN enc.code : Src(k) = i
    BY <2>1, ExecutedCoded
  <2> QED BY <2>2, <2>3, <2>4 DEF Src
<1> QED
  BY <1>1, LabelInductive, Ends, PTL

=============================================================================
