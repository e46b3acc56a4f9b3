---------------------------- MODULE BranchShortenG ----------------------------
(***************************************************************************)
(* transfer_routine_g: label numbers to offsets in one routine's Glulx     *)
(* code.  A branch operand begins as four bytes and may end as two or one; *)
(* a jump to the next instruction goes.  The conventions are those of      *)
(* BranchShortenZ.                                                         *)
(***************************************************************************)
EXTENDS Integers, Sequences, FiniteSets

CONSTANTS
  Labels,    \* label numbers, small naturals
  Ops,       \* the kinds of instruction a routine may use
  Lengths,   \* lengths of instructions that do not transfer control
  MaxItems   \* bound: instructions in a routine, the last return not counted

AllOps == {"plain", "branch", "jump", "return"}
EndsFlow(op) == op \in {"jump", "return"}
Transfers    == {"branch", "jump"}

VARIABLES
  phase,   \* "assemble", then the passes in their order, then "done"
  items,   \* the holding area, by instructions, with the decisions made
  size,    \* zcode_ha_size
  dead,    \* execution_never_reaches_here
  offset,  \* labels[].offset
  chain,   \* first_label ... last_label
  place,   \* history: the instruction each label stands before
  k,       \* the instruction the pass is at
  label,   \* pass 2: the label it waits for, as an index of chain
  newpc,   \* new_pc
  out,     \* zcode_area
  errors   \* errors reported

routine == <<items, size, dead, chain, place>>
vars    == <<phase, routine, offset, k, label, newpc, out, errors>>

NoLabel == 0

\* Bytes before the branch operand: opcode and mode, and one operand more in a
\* conditional branch.
Front(op) == IF op = "jump" THEN 2 ELSE 3

FormLength(form) ==
  CASE form = "long" -> 4 [] form = "short" -> 2 [] form = "byte" -> 1

Size(op, n, form) ==
  CASE op \in Transfers -> Front(op) + FormLength(form)
    [] op = "return"    -> 2
    [] op = "plain"     -> n

\* What goes into an operand of two bytes.
MinShort == -32768
MaxShort == 32767

Kept(i) ==
  IF items[i].form = "deleted" THEN 0 ELSE Size(items[i].op, items[i].len, items[i].form)

Init ==
  /\ phase = "assemble"
  /\ items = <<>> /\ size = 0 /\ dead = FALSE
  /\ offset = [l \in Labels |-> -1]
  /\ chain = <<>>
  /\ place = [l \in Labels |-> 0]
  /\ k = 1 /\ label = 1 /\ newpc = 0
  /\ out = <<>> /\ errors = {}

-----------------------------------------------------------------------------
(* Assembly.                                                               *)

Assemble(op, n, l) ==
  /\ phase = "assemble" /\ ~dead
  /\ items' = Append(items, [ op |-> op, len |-> n, label |-> l, start |-> size,
                              form |-> "long" ])
  /\ size' = size + Size(op, n, "long")
  /\ dead' = EndsFlow(op)
  /\ UNCHANGED <<offset, chain, place, k, label, newpc, out, errors>>

AssembleInstruction ==
  /\ Len(items) < MaxItems
  /\ \E op \in Ops :
       \/ op = "plain" /\ \E n \in Lengths : Assemble(op, n, NoLabel)
       \/ op \in Transfers /\ \E l \in Labels : Assemble(op, 0, l)
       \/ op = "return" /\ Assemble(op, 0, NoLabel)
  /\ UNCHANGED phase

AssembleLabel(l) ==
  /\ phase = "assemble" /\ offset[l] = -1
  /\ offset' = [offset EXCEPT ![l] = size]
  /\ chain' = Append(chain, l)
  /\ place' = [place EXCEPT ![l] = Len(items) + 1]
  /\ dead' = FALSE
  /\ UNCHANGED <<phase, items, size, k, label, newpc, out, errors>>

AssembleRoutineEnd ==
  \/ /\ phase = "assemble" /\ dead
     /\ phase' = "decide"
     /\ UNCHANGED <<routine, offset, k, label, newpc, out, errors>>
  \/ Assemble("return", 0, NoLabel) /\ phase' = "decide"

-----------------------------------------------------------------------------
(* (1) The form of each branch.  The distance is the one between the old   *)
(* positions, even to a label that was never placed.                       *)

OldAddr(i) ==
  offset[items[i].label] - (items[i].start + Front(items[i].op) + 4) + 2

FormBug(i) ==  \* an unsigned byte
  LET addr == OldAddr(i)
  IN  IF items[i].op \notin Transfers            THEN "long"
      ELSE IF items[i].op = "jump" /\ addr = 2   THEN "deleted"
      ELSE IF addr \in -128 .. 255               THEN "byte"
      ELSE IF addr \in MinShort .. MaxShort      THEN "short"
      ELSE "long"

DeleteBug(i) ==  \* deletes a conditional branch to the next instruction too
  LET addr == OldAddr(i)
  IN  IF items[i].op \notin Transfers            THEN "long"
      ELSE IF addr \in {2, 3}                    THEN "deleted"
      ELSE IF addr \in -128 .. 127               THEN "byte"
      ELSE IF addr \in MinShort .. MaxShort      THEN "short"
      ELSE "long"

Form(i) ==
  LET addr == OldAddr(i)
  IN  IF items[i].op \notin Transfers            THEN "long"
      ELSE IF items[i].op = "jump" /\ addr = 2   THEN "deleted"
      ELSE IF addr \in -128 .. 127               THEN "byte"
      ELSE IF addr \in MinShort .. MaxShort      THEN "short"
      ELSE "long"

Decide ==
  /\ phase = "decide" /\ k <= Len(items)
  /\ items' = [items EXCEPT ![k].form = Form(k)]
  /\ k' = k + 1
  /\ UNCHANGED <<phase, size, dead, chain, place, offset, label, newpc, out, errors>>

NextPass(from, to) ==
  /\ phase = from /\ k > Len(items)
  /\ phase' = to
  /\ k' = 1 /\ label' = 1 /\ newpc' = 0
  /\ UNCHANGED <<routine, offset, out, errors>>

EndDecide == NextPass("decide", "relocate")

-----------------------------------------------------------------------------
(* (2) The new positions of the labels.                                    *)

Here == {i \in label .. Len(chain) :
           \A j \in label .. i : offset[chain[j]] = items[k].start}

RelocateBug ==  \* goes to the next label at every instruction
  /\ phase = "relocate" /\ k <= Len(items)
  /\ offset' = [l \in Labels |-> IF \E i \in Here : chain[i] = l THEN newpc ELSE offset[l]]
  /\ label' = label + 1
  /\ newpc' = newpc + Kept(k)
  /\ k' = k + 1
  /\ UNCHANGED <<phase, routine, out, errors>>

Relocate ==
  /\ phase = "relocate" /\ k <= Len(items)
  /\ offset' = [l \in Labels |-> IF \E i \in Here : chain[i] = l THEN newpc ELSE offset[l]]
  /\ label' = label + Cardinality(Here)
  /\ newpc' = newpc + Kept(k)
  /\ k' = k + 1
  /\ UNCHANGED <<phase, routine, out, errors>>

EndRelocate == NextPass("relocate", "emit")

-----------------------------------------------------------------------------
(* (3) The transfer.                                                       *)

Unplaced(i) == items[i].op \in Transfers /\ offset[items[i].label] < 0

OperandBug(i) ==  \* as if the operand were still four bytes long
  IF items[i].op \notin Transfers \/ Unplaced(i) THEN 0
  ELSE offset[items[i].label] - (newpc + Front(items[i].op) + 4) + 2

Operand(i) ==
  IF items[i].op \notin Transfers \/ Unplaced(i) THEN 0
  ELSE offset[items[i].label] - (newpc + Kept(i)) + 2

OutOfRange(i) ==
  /\ items[i].op \in Transfers
  /\ \/ items[i].form = "byte" /\ Operand(i) \notin -128 .. 127
     \/ items[i].form = "short" /\ Operand(i) \notin MinShort .. MaxShort

Emit ==
  /\ phase = "emit" /\ k <= Len(items)
  /\ IF items[k].form = "deleted"
       THEN UNCHANGED <<out, newpc, errors>>
       ELSE /\ out' = Append(out, [ op |-> items[k].op, addr |-> newpc, size |-> Kept(k),
                                    operand |-> Operand(k), src |-> k ])
            /\ newpc' = newpc + Kept(k)
            /\ errors' = errors \cup (IF Unplaced(k) THEN {"unreachable"} ELSE {})
                                \cup (IF OutOfRange(k) THEN {"range"} ELSE {})
  /\ k' = k + 1
  /\ UNCHANGED <<phase, routine, offset, label>>

EndEmit ==
  /\ phase = "emit" /\ k > Len(items)
  /\ phase' = "done"
  /\ errors' = IF newpc > size THEN errors \cup {"grown"} ELSE errors
  /\ UNCHANGED <<routine, offset, k, label, newpc, out>>

Next ==
  \/ AssembleInstruction
  \/ \E l \in Labels : AssembleLabel(l)
  \/ AssembleRoutineEnd
  \/ Decide \/ EndDecide
  \/ Relocate \/ EndRelocate
  \/ Emit \/ EndEmit

Spec == Init /\ [][Next]_vars

-----------------------------------------------------------------------------
(* Properties.                                                             *)

\* The shape of the state.
TypeOK ==
  /\ phase \in {"assemble", "decide", "relocate", "emit", "done"}
  /\ items \in Seq([op : AllOps, len : Nat, label : Labels \cup {NoLabel}, start : Nat,
                    form : {"long", "short", "byte", "deleted"}])
  /\ size \in Nat /\ dead \in BOOLEAN
  /\ offset \in [Labels -> Nat \cup {-1}]
  /\ chain \in Seq(Labels)
  /\ place \in [Labels -> Nat]
  /\ k \in Nat \ {0} /\ label \in 1 .. Len(chain) + 1 /\ newpc \in 0 .. size
  /\ out \in Seq([op : AllOps, addr : Nat, size : Nat, operand : Int, src : DOMAIN items])
  /\ errors \subseteq {"unreachable", "range", "grown"}

\* A form chosen on the old distance holds the new one, though the labels and
\* the branch itself have moved in between, and the code does not grow: the
\* errors with which pass 3 would say otherwise are never reported.
FormsHold == errors \subseteq {"unreachable"}

(* What the routine does, before and after: where control is once every    *)
(* jump has been followed.                                                 *)

Nowhere == <<"nowhere", 0>>

\* From p of n instructions, those of the set jumps going on at dest; 0 is
\* nowhere.  n jumps and no end is a way round in a circle.
Follow(n, jumps, dest, p) ==
  LET after[fuel \in 0 .. n] ==
        [q \in 0 .. n |->
           IF fuel = 0 \/ q = 0 THEN 0
           ELSE IF q \in jumps THEN after[fuel - 1][dest[q]]
           ELSE q]
  IN  after[n][p]

\* From instruction i of the assembled code.
CodeJumps == {p \in 1 .. Len(items) : items[p].op = "jump"}
Within(p) == IF p \in 1 .. Len(items) THEN p ELSE 0
CodeDest  == [p \in 1 .. Len(items) |->
                IF p \in CodeJumps THEN Within(place[items[p].label]) ELSE 0]

Arrives(i) ==
  LET q == Follow(Len(items), CodeJumps, CodeDest, Within(i))
  IN  IF q = 0 THEN Nowhere ELSE <<"item", q>>

\* The address an operand stands for, in the instruction o of the output: the
\* address after it, plus the operand, less 2.
Destination(o) == o.addr + o.size + o.operand - 2

\* From address x of the output.  An operand of 0 or 1 returns.
OutJumps   == {j \in 1 .. Len(out) : out[j].op = "jump"}
OutItem(x) == IF \E j \in 1 .. Len(out) : out[j].addr = x
                THEN CHOOSE j \in 1 .. Len(out) : out[j].addr = x ELSE 0
OutDest    == [j \in 1 .. Len(out) |->
                 IF j \in OutJumps /\ out[j].operand \notin {0, 1}
                   THEN OutItem(Destination(out[j])) ELSE 0]

OutArrives(x) ==
  LET q == Follow(Len(out), OutJumps, OutDest, OutItem(x))
  IN  IF q = 0 THEN Nowhere ELSE <<"item", out[q].src>>

\* The code transferred does what the code assembled does; in particular no
\* operand comes out as 0 or 1, which would return instead of branching.
FlowPreserved ==
  phase = "done" /\ errors = {} =>
    /\ OutArrives(0) = Arrives(1)
    /\ \A j \in DOMAIN out :
         LET o == out[j]
         IN  /\ o.op \in {"plain", "branch"} =>
                  OutArrives(o.addr + o.size) = Arrives(o.src + 1)
             /\ o.op = "branch" =>
                  /\ o.operand \notin {0, 1}
                  /\ OutArrives(Destination(o)) = Arrives(place[items[o.src].label])

=============================================================================
