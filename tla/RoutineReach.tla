---------------------------- MODULE RoutineReach ----------------------------
(***************************************************************************)
(* The statement parser and the eager encoder of one routine, seen through *)
(* execution_never_reaches_here: which statements of the source reach the  *)
(* code area, which labels are kept, and which are stripped.               *)
(*                                                                         *)
(* The C recursion parse_statement -> parse_code_block -> parse_statement  *)
(* is a stack of frames; every action is one step of that recursion and    *)
(* contains every assembly call the step makes.  The encoder is one        *)
(* record, so that the calls of a handler compose in the order of the      *)
(* code.  "source" and "place" are history: every instruction the routine  *)
(* asks for, assembled or not, and where in it each label stands.          *)
(***************************************************************************)
EXTENDS Integers, Sequences, FiniteSets

CONSTANTS
  UserLabels,             \* names a routine may use in "jump X" and ".X"
  Statements,             \* the kinds of statement it may use
  Conds,                  \* the conditions: "expr", or a literal "true", "false"
  MaxSource,              \* bound: instructions asked for by one routine
  MaxLabels,              \* bound: labels allocated by one routine
  MaxDepth,               \* bound: nesting of compound statements
  StripUnreachableLabels, \* the $STRIP_UNREACHABLE_LABELS option
  JumpIntoDead            \* may a label reset reachability inside a block
                          \* whose beginning could not be reached?

AllStatements ==
  {"plain", "return", "jump", "label", "break", "continue", "ifreturn",
   "block", "if", "while", "do", "for", "switch"}

ASSUME BoundsAssumption ==
  /\ Statements \subseteq AllStatements
  /\ Conds \subseteq {"expr", "true", "false"}
  /\ MaxSource \in Nat \ {0}
  /\ MaxLabels \in Nat
  /\ MaxDepth \in Nat
  /\ StripUnreachableLabels \in BOOLEAN
  /\ JumpIntoDead \in BOOLEAN

VARIABLES
  enc,     \* the encoder's state
  frames,  \* the open compound statements, innermost last
  sym,     \* the label symbols of this routine
  ended    \* assemble_routine_end has run

vars == <<enc, frames, sym, ended>>

Labels  == 1 .. MaxLabels
NoLabel == 0
Target  == Labels \cup {NoLabel}
Flags   == {"UNREACHABLE", "ENTIRE", "NOWARN"}
Ops     == {"plain", "return", "jump", "branch"}

-----------------------------------------------------------------------------
(* The encoder.  exec is execution_never_reaches_here as a set of flags.   *)

InitEnc ==
  [ exec   |-> {},                        \* execution_never_reaches_here
    code   |-> <<>>,                      \* zcode_holding_area
    next   |-> 0,                         \* next_label
    offset |-> [l \in Labels |-> -1],     \* labels[].offset
    use    |-> [l \in Labels |-> 0],      \* labeluse[]
    chain  |-> <<>>,                      \* first_label ... last_label
    source |-> <<>>,                      \* history
    place  |-> [l \in Labels |-> 0] ]     \* history

Reachable(e) == e.exec = {}

CanAlloc(e, n) == e.next + n <= MaxLabels
Room(e)        == Len(e.source) < MaxSource

\* Mutated forms, named ...Bug, stand before the definitions they would replace.
AllocLabelsBug(e, n) == [e EXCEPT !.next = @ + n + 1]  \* skips a number

AllocLabels(e, n) == [e EXCEPT !.next = @ + n]

SetLabelOffsetBug(e, l, kept) ==  \* links a dropped label too
  [e EXCEPT !.offset[l] = IF kept THEN Len(e.code) ELSE -1, !.chain = Append(@, l)]

SetLabelOffset(e, l, kept) ==
  IF kept
    THEN [e EXCEPT !.offset[l] = Len(e.code), !.chain = Append(@, l)]
    ELSE [e EXCEPT !.offset[l] = -1]

MarkLabelUsed(e, l) ==
  IF l = NoLabel THEN e ELSE [e EXCEPT !.use[l] = @ + 1]

TerminatesBug(op) == op \in {"return", "jump", "branch"}  \* Rf on a branch

Terminates(op) == op \in {"return", "jump"}

Asked(e, op, l) == [e EXCEPT !.source = Append(@, [op |-> op, label |-> l])]

AssembleBug(e, op, l) ==  \* counts the use of a label by a skipped branch
  LET a == MarkLabelUsed(Asked(e, op, l), l)
  IN  IF Reachable(e)
        THEN [ a EXCEPT
                 !.exec = IF Terminates(op) THEN {"UNREACHABLE"} ELSE {},
                 !.code = Append(@, [op |-> op, label |-> l, src |-> Len(e.source) + 1]) ]
        ELSE [a EXCEPT !.exec = @ \cup {"NOWARN"}]

Assemble(e, op, l) ==
  IF Reachable(e)
    THEN [ MarkLabelUsed(Asked(e, op, l), l) EXCEPT
             !.exec = IF Terminates(op) THEN {"UNREACHABLE"} ELSE {},
             !.code = Append(@, [op |-> op, label |-> l, src |-> Len(e.source) + 1]) ]
    ELSE [Asked(e, op, l) EXCEPT !.exec = @ \cup {"NOWARN"}]

Stripped(e, l) ==
  StripUnreachableLabels /\ "ENTIRE" \in e.exec /\ e.use[l] = 0

Placed(e, l) == [e EXCEPT !.place[l] = Len(e.source) + 1]

AssembleLabelBug(e, l) ==  \* does not note that the label can be reached
  SetLabelOffset(Placed(e, l), l, ~Stripped(e, l))

AssembleLabel(e, l) ==
  IF Stripped(e, l)
    THEN SetLabelOffset(Placed(e, l), l, FALSE)
    ELSE [SetLabelOffset(Placed(e, l), l, TRUE) EXCEPT !.exec = {}]

AssembleForwardLabelBug(e, l) ==  \* wants two uses
  IF e.use[l] > 1 THEN AssembleLabel(e, l) ELSE SetLabelOffset(Placed(e, l), l, FALSE)

AssembleForwardLabel(e, l) ==
  IF e.use[l] > 0 THEN AssembleLabel(e, l) ELSE SetLabelOffset(Placed(e, l), l, FALSE)

JumpIfReachedBug(e, l) ==  \* the test the wrong way round
  IF Reachable(e) THEN Asked(e, "jump", l) ELSE Assemble(e, "jump", l)

\* "if (!execution_never_reaches_here) assembleg_jump(l)"; the source always
\* asks for the transfer.
JumpIfReached(e, l) ==
  IF Reachable(e) THEN Assemble(e, "jump", l) ELSE Asked(e, "jump", l)

\* code_generate(condition, CONDITION_CONTEXT, l)
BranchUnless(e, cond, l) ==
  CASE cond = "expr"  -> Assemble(e, "branch", l)
    [] cond = "false" -> Assemble(e, "jump", l)
    [] cond = "true"  -> e

\* Entry and exit of parse_statement and of parse_code_block.
SavedEntire(e) == "ENTIRE" \in e.exec

EnterBug(e) == [e EXCEPT !.exec = @ \cup {"ENTIRE"}]  \* unconditional

Enter(e) ==
  IF Reachable(e) THEN e ELSE [e EXCEPT !.exec = @ \cup {"ENTIRE"}]

Leave(e, saved) ==
  [e EXCEPT !.exec = IF saved THEN @ \cup {"ENTIRE"} ELSE @ \ {"ENTIRE"}]

NoWarn(e)       == [e EXCEPT !.exec = @ \cup {"NOWARN"}]
NoWarnIf(e, c)  == IF c /\ ~Reachable(e) THEN NoWarn(e) ELSE e

-----------------------------------------------------------------------------
(* Frames.  stmt and block are the saved_entire_flag of parse_statement    *)
(* and of parse_code_block; pre is pre_unreach.                            *)

Frame == [ kind  : {"block", "if", "else", "while", "do", "for", "switch"},
           stmt  : BOOLEAN,
           block : BOOLEAN,
           pre   : BOOLEAN,
           top   : Target,   \* backward target, or "else" label
           exit  : Target,   \* label after the statement
           cont  : Target,   \* "continue" target
           mark  : BOOLEAN,   \* else: labelexists; switch: default made
           hush  : BOOLEAN ]  \* else: saved NOWARN; switch: a clause made

Top == frames[Len(frames)]
Pop == SubSeq(frames, 1, Len(frames) - 1)

BreakKinds    == {"while", "do", "for", "switch"}
ContinueKinds == {"while", "do", "for"}

Innermost(i, kinds) ==
  /\ frames[i].kind \in kinds
  /\ \A j \in DOMAIN frames : frames[j].kind \in kinds => j <= i

\* A statement may start here: in a switch block only after a clause.
AtStatement(kind) ==
  /\ kind \in Statements
  /\ ~ended
  /\ (frames # <<>> /\ Top.kind = "switch") => Top.hush

Open(e, f) ==
  /\ enc' = Enter(e)
  /\ frames' = Append(frames, [f EXCEPT !.block = SavedEntire(e)])
  /\ UNCHANGED <<sym, ended>>

NewFrame(kind, top, exit, cont) ==
  [ kind |-> kind, stmt |-> SavedEntire(enc), block |-> FALSE,
    pre |-> ~Reachable(enc), top |-> top, exit |-> exit, cont |-> cont,
    mark |-> FALSE, hush |-> FALSE ]

CanOpen(kind, labels) ==
  /\ AtStatement(kind)
  /\ Room(enc)
  /\ Len(frames) < MaxDepth
  /\ CanAlloc(enc, labels)

CanClose(kind) ==
  /\ ~ended
  /\ frames # <<>>
  /\ Top.kind = kind

Close(e) ==
  /\ enc' = Leave(e, Top.stmt)
  /\ frames' = Pop
  /\ UNCHANGED <<sym, ended>>

-----------------------------------------------------------------------------
Init ==
  /\ enc = InitEnc
  /\ frames = <<>>
  /\ sym = [u \in UserLabels |-> [label |-> NoLabel, state |-> "unknown"]]
  /\ ended = FALSE

(* Statements without a block.                                             *)

Simple(e, op, l) ==
  /\ enc' = Leave(Assemble(Enter(e), op, l), SavedEntire(e))
  /\ UNCHANGED <<frames, ended>>

PlainStatement ==
  /\ Room(enc)
  /\ \E op \in {"plain", "return"} : AtStatement(op) /\ Simple(enc, op, NoLabel)
  /\ UNCHANGED sym

\* "jump X": parse_label gives an unknown X a label, pending its definition.
JumpStatement(u) ==
  /\ AtStatement("jump") /\ Room(enc)
  /\ \/ /\ sym[u].state # "unknown"
        /\ Simple(enc, "jump", sym[u].label)
        /\ UNCHANGED sym
     \/ /\ sym[u].state = "unknown"
        /\ CanAlloc(enc, 1)
        /\ Simple(AllocLabels(enc, 1), "jump", enc.next + 1)
        /\ sym' = [sym EXCEPT ![u] = [label |-> enc.next + 1, state |-> "forward"]]

BreakStatement ==
  /\ AtStatement("break") /\ Room(enc)
  /\ \E i \in DOMAIN frames :
       Innermost(i, BreakKinds) /\ Simple(enc, "jump", frames[i].exit)
  /\ UNCHANGED sym

ContinueStatement ==
  /\ AtStatement("continue") /\ Room(enc)
  /\ \E i \in DOMAIN frames :
       Innermost(i, ContinueKinds) /\ Simple(enc, "jump", frames[i].cont)
  /\ UNCHANGED sym

\* "if (c) rtrue;" without "else": the branch itself returns.
IfReturnStatement(cond) ==
  LET e  == Enter(enc)
      e1 == CASE cond = "expr"  -> Assemble(e, "branch", NoLabel)
              [] cond = "true"  -> Assemble(e, "return", NoLabel)
              [] cond = "false" -> e
  IN  /\ AtStatement("ifreturn") /\ Room(enc)
      /\ enc' = Leave(NoWarnIf(e1, Reachable(enc)), SavedEntire(enc))
      /\ UNCHANGED <<frames, sym, ended>>

\* ".X" before a statement; a second ".X" is an error and changes nothing.
InDeadBlock == \E i \in DOMAIN frames : frames[i].stmt \/ frames[i].block

LabelStatement(u) ==
  LET fresh == sym[u].state = "unknown"
      l     == IF fresh THEN enc.next + 1 ELSE sym[u].label
      e     == IF fresh THEN AllocLabels(enc, 1) ELSE enc
  IN  /\ AtStatement("label")
      /\ sym[u].state # "defined"
      /\ fresh => CanAlloc(enc, 1)
      /\ JumpIntoDead \/ ~InDeadBlock \/ Stripped(enc, l)
      /\ enc' = AssembleLabel(e, l)
      /\ sym' = [sym EXCEPT ![u] = [label |-> l, state |-> "defined"]]
      /\ UNCHANGED <<frames, ended>>

-----------------------------------------------------------------------------
(* Compound statements.                                                    *)

OpenBlock ==
  /\ CanOpen("block", 0)
  /\ Open(Enter(enc), NewFrame("block", NoLabel, NoLabel, NoLabel))

CloseBlock ==
  /\ CanClose("block")
  /\ Close(Leave(enc, Top.block))

OpenIf(cond) ==
  LET l == enc.next + 1
      e == BranchUnless(Enter(AllocLabels(enc, 1)), cond, l)
  IN  /\ CanOpen("if", 1)
      /\ Open(NoWarnIf(e, Reachable(enc)), NewFrame("if", l, NoLabel, NoLabel))

CloseIf ==
  LET e == AssembleForwardLabel(Leave(enc, Top.block), Top.top)
  IN  /\ CanClose("if")
      /\ Close(NoWarnIf(e, ~Top.pre))

\* "} else {": hush keeps the NOWARN bit that the else block is to leave.
ElseClause ==
  LET l      == enc.next + 1
      e1     == JumpIfReached(Leave(AllocLabels(enc, 1), Top.block), l)
      exists == e1.use[Top.top] > 0
      e2     == AssembleForwardLabel(e1, Top.top)
      e3     == NoWarnIf(e2, ~exists)
  IN  /\ CanClose("if") /\ CanAlloc(enc, 1)
      /\ enc' = Enter(e3)
      /\ frames' = Append(Pop, [Top EXCEPT !.kind = "else", !.exit = l,
                                           !.block = SavedEntire(e3),
                                           !.mark = exists,
                                           !.hush = "NOWARN" \in e2.exec])
      /\ UNCHANGED <<sym, ended>>

CloseElse ==
  LET e1 == Leave(enc, Top.block)
      e2 == IF Reachable(e1) \/ Top.mark THEN e1
            ELSE IF Top.hush THEN NoWarn(e1)
            ELSE [e1 EXCEPT !.exec = @ \ {"NOWARN"}]
  IN  /\ CanClose("else")
      /\ Close(AssembleForwardLabel(e2, Top.exit))

OpenWhileBug(cond) ==  \* the top of the loop taken for a forward label
  LET top  == enc.next + 1
      exit == enc.next + 2
      e    == AssembleForwardLabel(Enter(AllocLabels(enc, 2)), top)
  IN  /\ CanOpen("while", 2)
      /\ Open(BranchUnless(e, cond, exit), NewFrame("while", top, exit, top))

OpenWhile(cond) ==
  LET top  == enc.next + 1
      exit == enc.next + 2
      e    == AssembleLabel(Enter(AllocLabels(enc, 2)), top)
  IN  /\ CanOpen("while", 2)
      /\ Open(BranchUnless(e, cond, exit), NewFrame("while", top, exit, top))

CloseWhile ==
  LET e == JumpIfReached(Leave(enc, Top.block), Top.top)
  IN  /\ CanClose("while")
      /\ Close(AssembleForwardLabel(e, Top.exit))

OpenDo ==
  LET top == enc.next + 1
  IN  /\ CanOpen("do", 3)
      /\ Open(AssembleLabel(Enter(AllocLabels(enc, 3)), top),
              NewFrame("do", top, enc.next + 3, enc.next + 2))

CloseDo(cond) ==
  LET e1 == AssembleForwardLabel(Leave(enc, Top.block), Top.cont)
      e2 == BranchUnless(e1, cond, Top.top)
  IN  /\ CanClose("do")
      /\ Close(AssembleForwardLabel(e2, Top.exit))

\* "for": with "v++" or no update the test stands at the top of the loop and
\* the update after the block; any other update is compiled before the test
\* and jumped over on the way in.
Updates == {"none", "incdec", "other"}

OpenFor(update, cond) ==
  LET ln  == enc.next + 1
      ln2 == enc.next + 2
      ln3 == enc.next + 3
      e   == Enter(AllocLabels(enc, 3))
      top == CASE update = "none"   -> AssembleLabel(AssembleLabel(e, ln), ln2)
               [] update = "incdec" -> AssembleLabel(e, ln)
               [] update = "other"  ->
                    AssembleLabel(Assemble(AssembleLabel(Assemble(e, "jump", ln2), ln),
                                           "plain", NoLabel), ln2)
  IN  /\ CanOpen("for", 3)
      /\ Open(BranchUnless(top, cond, ln3),
              [NewFrame("for", ln, ln3, IF update = "incdec" THEN ln2 ELSE ln)
                 EXCEPT !.mark = update = "incdec"])

CloseFor ==
  LET e1 == Leave(enc, Top.block)
      e2 == IF Top.mark
              THEN Assemble(Assemble(AssembleLabel(e1, Top.cont), "plain", NoLabel),
                            "jump", Top.top)
              ELSE JumpIfReached(e1, Top.top)
  IN  /\ CanClose("for")
      /\ Close(AssembleForwardLabel(e2, Top.exit))

\* "switch": top is switch_label, hush is switch_clause_made and mark is
\* default_clause_made.  A case of several values is one branch.
OpenSwitch ==
  /\ CanOpen("switch", 1)
  /\ Open(Assemble(Enter(AllocLabels(enc, 1)), "plain", NoLabel),
          NewFrame("switch", NoLabel, enc.next + 1, NoLabel))

EndClause(e, f) ==
  IF f.hush THEN AssembleLabel(JumpIfReached(e, f.exit), f.top) ELSE e

InSwitch == ~ended /\ frames # <<>> /\ Top.kind = "switch" /\ ~Top.mark /\ Room(enc)

CaseClause ==
  LET l == enc.next + 1
  IN  /\ InSwitch /\ CanAlloc(enc, 1)
      /\ enc' = Assemble(EndClause(AllocLabels(enc, 1), Top), "branch", l)
      /\ frames' = Append(Pop, [Top EXCEPT !.top = l, !.hush = TRUE])
      /\ UNCHANGED <<sym, ended>>

DefaultClause ==
  /\ InSwitch
  /\ enc' = EndClause(enc, Top)
  /\ frames' = Append(Pop, [Top EXCEPT !.mark = TRUE, !.hush = TRUE])
  /\ UNCHANGED <<sym, ended>>

CloseSwitch ==
  LET e1 == IF Top.hush /\ ~Top.mark THEN AssembleLabel(enc, Top.top) ELSE enc
  IN  /\ CanClose("switch")
      /\ Close(AssembleForwardLabel(Leave(e1, Top.block), Top.exit))

-----------------------------------------------------------------------------
(* assemble_routine_end supplies the return the source left out.           *)
EndRoutine ==
  /\ ~ended
  /\ frames = <<>>
  /\ enc' = IF Reachable(enc) THEN Assemble(enc, "return", NoLabel)
                              ELSE Asked(enc, "return", NoLabel)
  /\ ended' = TRUE
  /\ UNCHANGED <<frames, sym>>

Next ==
  \/ PlainStatement
  \/ \E u \in UserLabels : JumpStatement(u) \/ LabelStatement(u)
  \/ BreakStatement \/ ContinueStatement
  \/ \E c \in Conds : IfReturnStatement(c) \/ OpenIf(c) \/ OpenWhile(c) \/ CloseDo(c)
  \/ OpenBlock \/ CloseBlock
  \/ CloseIf \/ ElseClause \/ CloseElse
  \/ CloseWhile \/ OpenDo
  \/ \E u \in Updates, c \in Conds : OpenFor(u, c)
  \/ CloseFor
  \/ OpenSwitch \/ CaseClause \/ DefaultClause \/ CloseSwitch
  \/ EndRoutine

Spec == Init /\ [][Next]_vars

-----------------------------------------------------------------------------
(* Properties.                                                             *)

Encoder ==
  [ exec   : SUBSET Flags,
    code   : Seq([op : Ops, label : Target, src : Nat]),
    next   : 0 .. MaxLabels,
    offset : [Labels -> Nat \cup {-1}],
    use    : [Labels -> Nat],
    chain  : Seq(Labels),
    source : Seq([op : Ops, label : Target]),
    place  : [Labels -> Nat] ]

\* The state of the encoder and of the parser has the right shape.
TypeOK ==
  /\ enc \in Encoder
  /\ frames \in Seq(Frame)
  /\ sym \in [UserLabels -> [label : Target,
                             state : {"unknown", "forward", "defined"}]]
  /\ ended \in BOOLEAN

(* What the source means, statement by statement: the instructions control *)
(* can come to, following every transfer to the place of its label.        *)
EndsFlow(op) == op \in {"return", "jump"}

Successors(i) ==
  LET n == enc.source[i]
  IN  (IF EndsFlow(n.op) THEN {} ELSE {i + 1})
        \cup (IF n.label = NoLabel THEN {} ELSE {enc.place[n.label]})

CanExecute ==
  LET n == Len(enc.source)
      within[k \in 0 .. n] ==
        IF k = 0 THEN {1}
        ELSE within[k-1] \cup UNION {Successors(i) : i \in within[k-1]}
  IN  within[n]

\* transfer_routine reports a transfer to a label without an offset, and
\* assemble_routine_end a label that was never defined.
Compiles ==
  /\ \A u \in UserLabels : sym[u].state # "forward"
  /\ \A k \in DOMAIN enc.code :
       enc.code[k].label # NoLabel => enc.offset[enc.code[k].label] >= 0

\* Where control comes to when it is sent to instruction p, of a sequence whose
\* instructions in "jumps" do nothing but go to dest: the first one that is not
\* a jump; 0 if the jumps go round for ever or run off the end.
Arrives(jumps, dest, p) ==
  LET after[fuel \in 0 .. Len(enc.source)] ==
        [q \in DOMAIN dest |->
           IF q \notin jumps THEN q
           ELSE IF fuel > 0 /\ dest[q] \in DOMAIN dest THEN after[fuel - 1][dest[q]]
           ELSE 0]
  IN  IF p \in DOMAIN dest THEN after[Len(enc.source)][p] ELSE 0

\* The same for instruction i of the source, and for instruction k of the code,
\* where the answer is an instruction of the source too.
JumpsOf(seq) == {p \in DOMAIN seq : seq[p].op = "jump"}

SourceArrives(i) ==
  Arrives(JumpsOf(enc.source),
          [p \in DOMAIN enc.source |->
             IF enc.source[p].op = "jump" THEN enc.place[enc.source[p].label] ELSE 0], i)

CodeArrives(k) ==
  LET p == Arrives(JumpsOf(enc.code),
                   [q \in DOMAIN enc.code |->
                      IF enc.code[q].op = "jump" THEN enc.offset[enc.code[q].label] + 1 ELSE 0], k)
  IN  IF p = 0 THEN 0 ELSE enc.code[p].src

\* The comment over assemble_label_no (asm.c): what is skipped "can safely" be
\* skipped.  When a routine compiles without an error, every instruction that
\* control can come to, other than a jump, is in the code, and from there the
\* code goes on, and branches, to the same instructions as the source.
StrippingSound ==
  ended /\ Compiles =>
    /\ CodeArrives(1) = SourceArrives(1)
    /\ \A i \in {j \in CanExecute : enc.source[j].op # "jump"} :
         \E k \in DOMAIN enc.code :
           LET n == enc.code[k]
           IN  /\ n.src = i
               /\ EndsFlow(n.op) \/ CodeArrives(k + 1) = SourceArrives(i + 1)
               /\ n.label # NoLabel =>
                    CodeArrives(enc.offset[n.label] + 1) = SourceArrives(enc.place[n.label])

\* header.h over the EXECSTATE flags: "if any flags are set, UNREACHABLE is
\* set", which is why the parser may test the variable as a Boolean.
FlagsImplyUnreachable == enc.exec # {} => "UNREACHABLE" \in enc.exec

\* assemble_forward_label_no drops a label on the promise of its callers that
\* nothing will branch back to it; assemble_label_no drops one on the belief
\* that nothing can.  No statement of the language breaks either: at the end
\* of the routine only a label the programmer named can be jumped to without
\* having been placed.
PromiseKept ==
  ended =>
    \A k \in DOMAIN enc.code :
      LET l == enc.code[k].label
      IN  (l # NoLabel /\ \A u \in UserLabels : sym[u].label # l) => enc.offset[l] >= 0

\* The list from first_label to last_label that transfer_routine walks holds
\* exactly the labels with an offset, once each, in increasing PC order.
ChainInOrder ==
  /\ \A i, j \in DOMAIN enc.chain :
       i < j => /\ enc.chain[i] # enc.chain[j]
                /\ enc.offset[enc.chain[i]] <= enc.offset[enc.chain[j]]
  /\ {l \in Labels : enc.offset[l] >= 0} = {enc.chain[i] : i \in DOMAIN enc.chain}

\* labeluse[] counts the transfers of the code: transfer_routine_z decrements
\* it and deletes a return opcode all of whose labels have reached zero.
UseCounted ==
  \A l \in Labels :
    enc.use[l] = Cardinality({k \in DOMAIN enc.code : enc.code[k].label = l})
\* The label list and the use counts, which transfer_routine_z and _g take
\* from the assembler, are both exact.
LabelsExact == ChainInOrder /\ UseCounted

=============================================================================
