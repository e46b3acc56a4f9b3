---------------------------- MODULE BranchShortenZ ----------------------------
(***************************************************************************)
(* transfer_routine_z: the passes that turn the label numbers of one       *)
(* routine's Z-code into offsets and shorten, replace and delete what they *)
(* can.  The routine is assembled first, instruction by instruction, the   *)
(* way the encoder leaves it in the holding area: every branch long, and   *)
(* no instruction where control cannot come.  Addresses count from the     *)
(* start of the routine; "start" is that of an instruction before the      *)
(* passes; "was", "src" and place are history.                             *)
(***************************************************************************)
EXTENDS Integers, Sequences, FiniteSets

CONSTANTS
  Labels,    \* label numbers, small naturals
  Ops,       \* the kinds of instruction a routine may use
  Lengths,   \* lengths of instructions that do not transfer control
  MaxItems   \* bound: instructions in a routine, the last return not counted

\* A "branch" may take the rtrue and rfalse forms, an "other" branch (one the
\* pass does not list) may not; "ret" is a return of more than one byte.
AllOps  == {"plain", "branch", "other", "jump", "rtrue", "rfalse", "ret_popped", "ret"}
Return1 == {"rtrue", "rfalse", "ret_popped"}
EndsFlow(op) == op \in Return1 \cup {"jump", "ret"}

ASSUME BoundsAssumption ==
  /\ Labels \subseteq Nat \ {0}
  /\ Ops \subseteq AllOps
  /\ Lengths \subseteq Nat \ {0}
  /\ MaxItems \in Nat

VARIABLES
  phase,   \* "assemble", then the passes in their order, then "done"
  items,   \* the holding area, by instructions, with the decisions made
  size,    \* zcode_ha_size
  dead,    \* execution_never_reaches_here
  offset,  \* labels[].offset
  never,   \* labels[].never_reaches
  use,     \* labeluse[]
  chain,   \* first_label ... last_label
  place,   \* history: the instruction each label stands before
  k,       \* the instruction, or label of the chain, the pass is at
  label,   \* pass 2: the label it waits for, as an index of chain
  newpc,   \* new_pc
  out,     \* zcode_area
  errors   \* errors reported; "internal" is a compiler_error

routine == <<items, size, dead>>
labels  == <<offset, never, use, place>>
vars    == <<phase, routine, labels, chain, k, label, newpc, out, errors>>

NoLabel == 0
HeadSize == 2   \* opcode and operand bytes before the two of a branch

Size(op, n) ==
  CASE op = "plain"               -> n
    [] op \in {"branch", "other"} -> HeadSize + 2
    [] op = "jump"                -> 3
    [] op = "ret"                 -> 2
    [] op \in Return1             -> 1

\* The bytes of an instruction not marked as deleted.
Kept(i) ==
  CASE items[i].form = "long"                         -> Size(items[i].op, items[i].len)
    [] items[i].form \in {"short", "rtrue", "rfalse"} -> HeadSize + 1
    [] items[i].form = "replaced"                     -> 1
    [] items[i].form = "deleted"                      -> 0

Init ==
  /\ phase = "assemble"
  /\ items = <<>> /\ size = 0 /\ dead = FALSE
  /\ offset = [l \in Labels |-> -1]
  /\ never = [l \in Labels |-> FALSE]
  /\ use = [l \in Labels |-> 0]
  /\ place = [l \in Labels |-> 0]
  /\ chain = <<>>
  /\ k = 1 /\ label = 1 /\ newpc = 0
  /\ out = <<>> /\ errors = {}

-----------------------------------------------------------------------------
(* Assembly.                                                               *)

Item(op, n, l) ==
  [op |-> op, was |-> op, len |-> n, label |-> l, start |-> size, form |-> "long"]

AssembleBug(op, n, l) ==  \* counts the uses by jumps only
  /\ phase = "assemble" /\ ~dead
  /\ items' = Append(items, Item(op, n, l))
  /\ size' = size + Size(op, n)
  /\ dead' = EndsFlow(op)
  /\ use' = IF op # "jump" THEN use ELSE [use EXCEPT ![l] = @ + 1]
  /\ UNCHANGED <<offset, never, place, chain, k, label, newpc, out, errors>>

Assemble(op, n, l) ==
  /\ phase = "assemble" /\ ~dead
  /\ items' = Append(items, Item(op, n, l))
  /\ size' = size + Size(op, n)
  /\ dead' = EndsFlow(op)
  /\ use' = IF l = NoLabel THEN use ELSE [use EXCEPT ![l] = @ + 1]
  /\ UNCHANGED <<offset, never, place, chain, k, label, newpc, out, errors>>

AssembleInstruction ==
  /\ Len(items) < MaxItems
  /\ \E op \in Ops :
       \/ op = "plain" /\ \E n \in Lengths : Assemble(op, n, NoLabel)
       \/ op \in {"branch", "other", "jump"} /\ \E l \in Labels : Assemble(op, 0, l)
       \/ op \in Return1 \cup {"ret"} /\ Assemble(op, 0, NoLabel)
  /\ UNCHANGED phase

AssembleLabel(l) ==
  /\ phase = "assemble" /\ offset[l] = -1
  /\ offset' = [offset EXCEPT ![l] = size]
  /\ never' = [never EXCEPT ![l] = dead]
  /\ place' = [place EXCEPT ![l] = Len(items) + 1]
  /\ chain' = Append(chain, l)
  /\ dead' = FALSE
  /\ UNCHANGED <<phase, items, size, use, k, label, newpc, out, errors>>

\* assemble_routine_end: "rtrue" if the end of the routine can be reached.
AssembleRoutineEnd ==
  \/ /\ phase = "assemble" /\ dead
     /\ phase' = "decide"
     /\ UNCHANGED <<routine, labels, chain, k, label, newpc, out, errors>>
  \/ Assemble("rtrue", 0, NoLabel) /\ phase' = "decide"

-----------------------------------------------------------------------------
(* (1) The form of each branch and jump.                                   *)

InRoutine(l) == offset[l] >= 0 /\ offset[l] < size

ItemAt(addr) == CHOOSE i \in DOMAIN items : items[i].start = addr

OpcodeAt(l) == items[ItemAt(offset[l])].op

MarkUnused(l) ==
  IF use[l] = 0
    THEN errors' = errors \cup {"internal"} /\ UNCHANGED use
    ELSE use' = [use EXCEPT ![l] = @ - 1] /\ UNCHANGED errors

SetForm(f) == items' = [items EXCEPT ![k].form = f]

Keep == UNCHANGED <<items, use, errors>>

DecideBranchBug(l) ==  \* lets the distance reach 64
  LET pc == items[k].start + HeadSize
  IN  IF ~InRoutine(l) THEN Keep
      ELSE IF items[k].op = "branch" /\ OpcodeAt(l) \in {"rtrue", "rfalse"}
        THEN SetForm(OpcodeAt(l)) /\ MarkUnused(l)
      ELSE IF offset[l] >= pc + 2 /\ offset[l] <= pc + 64
        THEN SetForm("short") /\ UNCHANGED <<use, errors>>
      ELSE Keep

DecideBranch(l) ==
  LET pc == items[k].start + HeadSize
  IN  IF ~InRoutine(l) THEN Keep
      ELSE IF items[k].op = "branch" /\ OpcodeAt(l) \in {"rtrue", "rfalse"}
        THEN SetForm(OpcodeAt(l)) /\ MarkUnused(l)
      ELSE IF offset[l] >= pc + 2 /\ offset[l] < pc + 64
        THEN SetForm("short") /\ UNCHANGED <<use, errors>>
      ELSE Keep

DecideJumpBug(l) ==  \* counts a deleted jump as one use less
  LET pc == items[k].start + 1
  IN  IF ~InRoutine(l) THEN Keep
      ELSE IF offset[l] - pc = 2
        THEN SetForm("deleted") /\ MarkUnused(l)
      ELSE IF OpcodeAt(l) \in Return1
        THEN /\ items' = [items EXCEPT ![k].op = OpcodeAt(l), ![k].form = "replaced"]
             /\ MarkUnused(l)
      ELSE Keep

DecideJump(l) ==
  LET pc == items[k].start + 1
  IN  IF ~InRoutine(l) THEN Keep
      ELSE IF offset[l] - pc = 2
        THEN SetForm("deleted") /\ UNCHANGED <<use, errors>>
      ELSE IF OpcodeAt(l) \in Return1
        THEN /\ items' = [items EXCEPT ![k].op = OpcodeAt(l), ![k].form = "replaced"]
             /\ MarkUnused(l)
      ELSE Keep

Decide ==
  /\ phase = "decide" /\ k <= Len(items)
  /\ CASE items[k].op \in {"branch", "other"} -> DecideBranch(items[k].label)
       [] items[k].op = "jump"                -> DecideJump(items[k].label)
       [] OTHER                               -> Keep
  /\ k' = k + 1
  /\ UNCHANGED <<phase, size, dead, offset, never, place, chain, label, newpc, out>>

NextPass(from, to, last) ==
  /\ phase = from /\ k > last
  /\ phase' = to
  /\ k' = 1 /\ label' = 1 /\ newpc' = 0
  /\ UNCHANGED <<routine, labels, chain, out, errors>>

EndDecide == NextPass("decide", "clean", Len(items))

-----------------------------------------------------------------------------
(* (1a) A return that nothing goes to any more is deleted.  Several labels *)
(* may stand at it.                                                        *)

Group == {i \in k .. Len(chain) : \A j \in k .. i : offset[chain[j]] = offset[chain[k]]}

UnusedBug == use[chain[k]] = 0  \* only the first label's uses

Unused == \A i \in Group : use[chain[i]] = 0

UnreachedBug == TRUE  \* though control falls into it

Unreached == never[chain[k]]

Clean ==
  /\ phase = "clean" /\ k <= Len(chain)
  /\ LET l == chain[k]
     IN  IF Unused /\ Unreached /\ InRoutine(l) /\ OpcodeAt(l) \in Return1
           THEN items' = [items EXCEPT ![ItemAt(offset[l])].form = "deleted"]
           ELSE UNCHANGED items
  /\ k' = k + Cardinality(Group)
  /\ UNCHANGED <<phase, size, dead, labels, chain, label, newpc, out, errors>>

EndClean == NextPass("clean", "relocate", Len(chain))

-----------------------------------------------------------------------------
(* (2) The new positions of the labels, in one walk over the code and the  *)
(* chain together.                                                         *)

HereBug ==  \* one label at each address
  {i \in {label} \cap DOMAIN chain : offset[chain[i]] = items[k].start}

Here == {i \in label .. Len(chain) :
           \A j \in label .. i : offset[chain[j]] = items[k].start}

RelocateBug ==  \* goes to the next label at every instruction
  /\ phase = "relocate" /\ k <= Len(items)
  /\ offset' = [l \in Labels |-> IF \E i \in Here : chain[i] = l THEN newpc ELSE offset[l]]
  /\ label' = label + 1
  /\ newpc' = newpc + Kept(k)
  /\ k' = k + 1
  /\ UNCHANGED <<phase, routine, never, use, place, chain, out, errors>>

Relocate ==
  /\ phase = "relocate" /\ k <= Len(items)
  /\ offset' = [l \in Labels |-> IF \E i \in Here : chain[i] = l THEN newpc ELSE offset[l]]
  /\ label' = label + Cardinality(Here)
  /\ newpc' = newpc + Kept(k)
  /\ k' = k + 1
  /\ UNCHANGED <<phase, routine, never, use, place, chain, out, errors>>

EndRelocate == NextPass("relocate", "emit", Len(items))

-----------------------------------------------------------------------------
(* (3) The transfer: label numbers become offsets.                         *)

\* The operand of the branch or jump i; long_form is the length of a branch
\* operand less one.
BranchAddr(i) ==
  LET long_form == IF items[i].form = "long" THEN 1 ELSE 0
  IN  CASE items[i].form = "rtrue"  -> 1
        [] items[i].form = "rfalse" -> 0
        [] OTHER -> offset[items[i].label] - (newpc + HeadSize + long_form + 1) + 2

JumpAddrBug(i) == offset[items[i].label] - newpc  \* from the opcode, not the operand

JumpAddr(i) == offset[items[i].label] - (newpc + 1)

Operand(i) ==
  IF items[i].op \notin {"branch", "other", "jump"} THEN 0
  ELSE IF items[i].form \in {"long", "short"} /\ offset[items[i].label] < 0 THEN 0
  ELSE IF items[i].op = "jump" THEN JumpAddr(i)
  ELSE BranchAddr(i)

OperandErrors(i) ==
  LET unplaced == /\ items[i].op \in {"branch", "other", "jump"}
                  /\ items[i].form \in {"long", "short"}
                  /\ offset[items[i].label] < 0
      over     == items[i].form = "short" /\ Operand(i) \notin 0 .. 63
  IN  (IF unplaced THEN {"unreachable"} ELSE {})
        \cup (IF over THEN {"internal"} ELSE {})

Emit ==
  /\ phase = "emit" /\ k <= Len(items)
  /\ IF items[k].form = "deleted"
       THEN UNCHANGED <<out, newpc, errors>>
       ELSE /\ out' = Append(out, [ op |-> items[k].op, addr |-> newpc, size |-> Kept(k),
                                    operand |-> Operand(k), src |-> k ])
            /\ newpc' = newpc + Kept(k)
            /\ errors' = errors \cup OperandErrors(k)
  /\ k' = k + 1
  /\ UNCHANGED <<phase, routine, labels, chain, label>>

EndEmit ==
  /\ phase = "emit" /\ k > Len(items)
  /\ phase' = "done"
  /\ errors' = IF newpc > size THEN errors \cup {"internal"} ELSE errors
  /\ UNCHANGED <<routine, labels, chain, k, label, newpc, out>>

Next ==
  \/ AssembleInstruction
  \/ \E l \in Labels : AssembleLabel(l)
  \/ AssembleRoutineEnd
  \/ Decide \/ EndDecide
  \/ Clean \/ EndClean
  \/ Relocate \/ EndRelocate
  \/ Emit \/ EndEmit

Spec == Init /\ [][Next]_vars

-----------------------------------------------------------------------------
(* Properties.                                                             *)

\* The shape of the state.
TypeOK ==
  /\ phase \in {"assemble", "decide", "clean", "relocate", "emit", "done"}
  /\ items \in Seq([op : AllOps, was : AllOps, len : Nat, label : Labels \cup {NoLabel}, start : Nat,
                    form : {"long", "short", "rtrue", "rfalse", "replaced", "deleted"}])
  /\ size \in Nat /\ dead \in BOOLEAN
  /\ offset \in [Labels -> Nat \cup {-1}]
  /\ never \in [Labels -> BOOLEAN]
  /\ use \in [Labels -> Nat]
  /\ place \in [Labels -> Nat]
  /\ chain \in Seq(Labels)
  /\ k \in Nat \ {0} /\ label \in 1 .. Len(chain) + 1 /\ newpc \in Nat
  /\ out \in Seq([op : AllOps, addr : Nat, size : Nat, operand : Int, src : DOMAIN items])
  /\ errors \subseteq {"internal", "unreachable"}

\* No pass finds the work of an earlier one wrong: mark_label_unused never meets
\* a label without uses, a branch made short on the old distance is short on
\* the new one, and the routine does not grow.
NoInternalError == "internal" \notin errors

(* What the routine does, before and after: where control is once every    *)
(* jump has been followed.  A one-byte return is what it returns, any      *)
(* other instruction is itself.                                            *)

Known(op, i) == IF op \in Return1 THEN <<op, 0>> ELSE <<"item", i>>

Nowhere == <<"nowhere", 0>>

\* From p of n instructions, those of the set jumps going on at dest; 0 is
\* nowhere.  n jumps and no end is a way round in a circle.
Follow(n, jumps, dest, p) ==
  LET after[fuel \in 0 .. n] ==
        [q \in 0 .. n |->
           IF fuel = 0 \/ q = 0 THEN 0
           ELSE IF q \in jumps THEN after[fuel - 1][dest[q]]
           ELSE q]
  IN  after[n][p]

\* From instruction i of the assembled code.
CodeJumps == {p \in 1 .. Len(items) : items[p].was = "jump"}
Within(p) == IF p \in 1 .. Len(items) THEN p ELSE 0
CodeDest  == [p \in 1 .. Len(items) |->
                IF p \in CodeJumps THEN Within(place[items[p].label]) ELSE 0]

Arrives(i) ==
  LET q == Follow(Len(items), CodeJumps, CodeDest, Within(i))
  IN  IF q = 0 THEN Nowhere ELSE Known(items[q].was, q)

\* The address an operand stands for, in the instruction o of the output: the
\* address after it, plus the operand, less 2.
Destination(o) == o.addr + o.size + o.operand - 2

\* From address x of the output.
OutJumps   == {j \in 1 .. Len(out) : out[j].op = "jump"}
OutItem(x) == IF \E j \in 1 .. Len(out) : out[j].addr = x
                THEN CHOOSE j \in 1 .. Len(out) : out[j].addr = x ELSE 0
OutDest    == [j \in 1 .. Len(out) |->
                 IF j \in OutJumps THEN OutItem(Destination(out[j])) ELSE 0]

OutArrives(x) ==
  LET q == Follow(Len(out), OutJumps, OutDest, OutItem(x))
  IN  IF q = 0 THEN Nowhere ELSE Known(out[q].op, out[q].src)

\* A branch operand of 1 or 0 returns instead.
BranchArrives(o) ==
  CASE o.operand = 1 -> Known("rtrue", 0)
    [] o.operand = 0 -> Known("rfalse", 0)
    [] OTHER         -> OutArrives(Destination(o))

\* The code transferred does what the code assembled does: it begins where that
\* began, and every instruction in it that is not a jump or a return of one
\* byte goes on, and branches, to what it went on and branched to before.
FlowPreserved ==
  phase = "done" /\ errors = {} =>
    /\ OutArrives(0) = Arrives(1)
    /\ \A j \in DOMAIN out :
         LET o == out[j]
             i == items[o.src]
         IN  /\ o.op = "plain" \/ o.op \in {"branch", "other"} =>
                  OutArrives(o.addr + o.size) = Arrives(o.src + 1)
             /\ o.op \in {"branch", "other"} => BranchArrives(o) = Arrives(place[i.label])

=============================================================================
