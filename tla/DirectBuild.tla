---------------------------- MODULE DirectBuild ----------------------------
(***************************************************************************)
(* The direct backend while it builds the IR of one Glulx routine          *)
(* (llvm_codegen.c): basic blocks, the symbolic stack that carries the     *)
(* "sp" operands of inline assembly, and the model of the parser's state   *)
(* (execution_never_reaches_here and labeluse[]) that it writes when the   *)
(* writer is flipped.  Beside it the classic compile of the same source,   *)
(* which keeps that state itself.  When both are done the two are run side *)
(* by side: every call, stack count, test and return of the classic code   *)
(* has to be found in the IR, with the same values.                        *)
(***************************************************************************)
EXTENDS Integers, Sequences, FiniteSets, SequencesExt

CONSTANTS Writers,        \* llvm_parser_writer_flipped: a set of BOOLEANs
          StackWriters,   \* the writers a C0 routine is built under
          Costly,         \* statements that count twice towards MaxSize
          DeadLabels,     \* a label may stand in a block entered unreachable
          TailLeaves,     \* a tail call may leave values on the stack
          MaxSize, MaxDepth, MaxStack

Statements == {"push", "pushx", "pull", "call", "count", "branch", "jump", "label",
                  "break", "return", "tail", "block", "if", "else", "while"}

DirectAssumption ==
  /\ StackWriters \subseteq Writers /\ Writers \subseteq BOOLEAN
  /\ Costly \subseteq Statements
  /\ {DeadLabels, TailLeaves} \subseteq BOOLEAN
  /\ MaxSize \in 0 .. 6 /\ {MaxDepth, MaxStack} \subseteq Nat

VARIABLES flip,      \* the writer of this compile
          c,         \* the classic compile
          d,         \* the direct build, and the parser's state it meets
          open,      \* the structured statements being parsed
          next,      \* next_label
          count,     \* the size of what was parsed, stack arguments included
          mismatch,  \* crosscheck_report was called
          named,     \* the user label: {} or {"cited"}, {"defined"} or both
          folded,    \* a jump was built into a block that classic folded away
          phase, run

vars == <<flip, c, d, open, next, count, mismatch, named, folded, phase, run>>

UserLabel == 1
Labels == 1 .. (2 + 2 * MaxSize)
Arguments == 2            \* of a call by the stack
Local == 7                \* the value of the local x at the start
Argument == 8             \* a caller's argument of a C0 routine

------------------------------------------------------------------------------
(* The parser's state: exec is execution_never_reaches_here as a set of    *)
(* flags, use the labels with labeluse[] above zero.                       *)

Enter(s) == [s EXCEPT !.saved = Append(@, "entire" \in s.exec),
                      !.exec = IF @ = {} THEN {} ELSE @ \cup {"entire"}]
Leave(s) == [s EXCEPT !.saved = Front(@),
                      !.exec = IF Last(s.saved) THEN @ \cup {"entire"} ELSE @ \ {"entire"}]

EndsFlow == {"jump", "ret", "retc", "tail"}
\* An instruction of the classic stream: opcode, constant or argument count, label.
Ins(op, n, l) == [op |-> op, n |-> n, l |-> l]

\* shadow_note_instruction
Bookkeep(s, i) ==
  IF s.exec # {} THEN s
  ELSE [s EXCEPT !.exec = IF i.op \in EndsFlow THEN {"unreachable"} ELSE {},
                 !.use = IF i.l = 0 THEN @ ELSE @ \cup {i.l}]

\* assembleg_instruction in the classic compile.
Emit(s, i) == [Bookkeep(s, i) EXCEPT !.code = IF s.exec = {} THEN Append(@, i) ELSE @]

Stripped(s, l) == l \notin s.use /\ "entire" \in s.exec

\* assemble_label_no in the classic compile.
EmitLabel(s, l) ==
  IF Stripped(s, l) THEN s
  ELSE [s EXCEPT !.code = Append(@, Ins("label", 0, l)), !.exec = {}]

------------------------------------------------------------------------------
(* The direct build.  A value is a constant below 10 or the identity of an *)
(* operation that yields it; an operation names its operands and blocks.   *)

Op(op, vs, id, to) == [op |-> op, vs |-> vs, id |-> id, to |-> to]
Terminators == {"br", "cbr", "ret", "tail", "tailstk", "unreachable"}

Building(b) == b.st = "building" /\ b.susp = 0
Writer(b)   == flip /\ Building(b)

Closed(b, k) == b.ops[k] # <<>> /\ Last(b.ops[k]).op \in Terminators
Reject(b) == IF Building(b) THEN [b EXCEPT !.st = "rejected", !.ops = <<>>, !.sym = <<>>, !.entered = {}]
             ELSE b

\* Classic's bookkeeping is a stub while the direct backend writes.
Note(b, i)      == IF Writer(b) THEN b ELSE Bookkeep(b, i)
NoteLabel(b, l) == IF Stripped(b, l) \/ Writer(b) THEN b ELSE [b EXCEPT !.exec = {}]

\* Bug: Closing the model does not reach the parser.
SyncBug(b) == IF ~Writer(b) \/ b.unreach THEN b ELSE [b EXCEPT !.exec = {}]

\* direct_writer_sync
Sync(b) ==
  IF ~Writer(b) THEN b
  ELSE [b EXCEPT !.exec = IF ~b.unreach THEN {} ELSE IF @ = {} THEN {"unreachable"} ELSE @]

ModelClose(b) == IF Building(b) THEN Sync([b EXCEPT !.unreach = TRUE]) ELSE b
ModelOpen(b)  == IF Building(b) THEN Sync([b EXCEPT !.unreach = FALSE]) ELSE b

\* Bug: The block entered is not remembered.
TransfersBug(b, k) ==
  IF ~Writer(b) THEN b ELSE [b EXCEPT !.use = @ \cup {l \in Labels : b.lab[l] = k}]

\* direct_model_branch_block
Transfers(b, k) ==
  IF ~Building(b) THEN b
  ELSE [b EXCEPT !.entered = @ \cup {k},
                 !.use = IF Writer(b) THEN @ \cup {l \in Labels : b.lab[l] = k} ELSE @]

\* direct_can_emit, around what F adds.
WhenEmitting(b, F(_)) ==
  IF ~Building(b) THEN b
  ELSE IF ~Closed(b, b.cur) THEN F(b)
  ELSE IF b.exec # {} THEN b ELSE Reject(b)

Add(b, op) == [b EXCEPT !.ops[b.cur] = Append(@, op)]
Yield(b, op, vs) == [Add(b, Op(op, vs, 10 + b.fresh, <<>>)) EXCEPT !.fresh = @ + 1]
Latest(b) == 9 + b.fresh

NewBlock(b) == [b EXCEPT !.ops = Append(@, <<>>)]
LabelBlock(b, l) == IF b.lab[l] # 0 THEN b ELSE [NewBlock(b) EXCEPT !.lab[l] = Len(b.ops) + 1]

\* Bug: Values stay symbolic where control flow divides.
SpillBug(b) == b

\* direct_symstack_spill
Spill(b) ==
  IF b.sym = <<>> THEN b
  ELSE IF Closed(b, b.cur) THEN Reject(b)
  ELSE [b EXCEPT !.ops[b.cur] = @ \o [i \in DOMAIN b.sym |-> Op("push", <<b.sym[i]>>, 0, <<>>)],
                 !.spilled = @ + Len(b.sym), !.sym = <<>>]

\* What follows a call that may have rejected the routine.
Then(b, F(_)) == IF Building(b) THEN F(b) ELSE b

\* direct_stack_escalate
Escalate(b) ==
  IF b.real THEN b ELSE Then(Spill(b), LAMBDA s : [s EXCEPT !.real = TRUE])

\* direct_sympop: the state after it, with the value in .got.
Pop(b) ==
  IF ~b.real /\ b.sym # <<>> THEN [b EXCEPT !.sym = Front(@), !.got = Last(b.sym)]
  ELSE LET e == IF b.real THEN b
                ELSE IF b.spilled > 0 THEN [b EXCEPT !.spilled = @ - 1] ELSE Escalate(b)
           y == Yield(e, "pop", <<>>)
       IN [y EXCEPT !.got = Latest(y)]

\* direct_sympush
Push(b, v) == IF b.real THEN Add(b, Op("push", <<v>>, 0, <<>>)) ELSE [b EXCEPT !.sym = Append(@, v)]

\* direct_discard_symstack
Discard(b) == [b EXCEPT !.sym = <<>>, !.spilled = 0]

Branch(b, l) ==
  LET t == LabelBlock(b, l) IN Transfers(Add(t, Op("br", <<>>, 0, <<t.lab[l]>>)), t.lab[l])

\* llvm_direct_jump
Jump(b, l) == WhenEmitting(b, LAMBDA e : Then(Spill(e), LAMBDA s : ModelClose(Branch(s, l))))

\* llvm_direct_bind_label
Bind(b, l) ==
  IF ~Building(b) THEN b
  ELSE Then(Spill(b), LAMBDA s :
         LET t == LabelBlock(s, l)
             u == IF Closed(t, t.cur) THEN t ELSE Add(t, Op("br", <<>>, 0, <<t.lab[l]>>))
         IN ModelOpen([u EXCEPT !.cur = t.lab[l]]))

\* Bug: A label that is not used is left without a terminator.
ResolveBug(b, l, used) ==
  IF ~Building(b) THEN b ELSE IF used THEN Bind(b, l) ELSE LabelBlock(b, l)

\* llvm_direct_resolve_label
Resolve(b, l, used) ==
  IF ~Building(b) THEN b
  ELSE IF used THEN Bind(b, l)
  ELSE LET t == LabelBlock(b, l)
       IN IF Closed(t, t.lab[l]) THEN t
          ELSE [t EXCEPT !.ops[t.lab[l]] = Append(@, Op("unreachable", <<>>, 0, <<>>))]

\* llvm_direct_bind_block
BindBlock(b, k) ==
  IF ~Building(b) THEN b
  ELSE LET u == [(IF Closed(b, b.cur) THEN b ELSE Add(b, Op("br", <<>>, 0, <<k>>))) EXCEPT !.cur = k]
       IN IF ~b.unreach \/ k \in b.entered THEN ModelOpen(u) ELSE u

\* llvm_direct_suspend, llvm_direct_resume
Suspend(b) == IF b.st = "building" THEN [b EXCEPT !.susp = @ + 1] ELSE b
Resume(b)  == IF b.st = "building" /\ b.susp > 0 THEN [b EXCEPT !.susp = @ - 1] ELSE b

------------------------------------------------------------------------------
(* What the hooks of the statements build.                                 *)

DirectPush(b, v)  == WhenEmitting(b, LAMBDA e : Push(e, v))
DirectPushX(b)    == WhenEmitting(b, LAMBDA e : LET y == Yield(e, "get", <<>>) IN Push(y, Latest(y)))
DirectPull(b)     == WhenEmitting(b, LAMBDA e : LET p == Pop(e) IN Add(p, Op("set", <<p.got>>, 0, <<>>)))

\* call and tailcall: the arguments are peeled off the symbolic stack when
\* it holds them all, and otherwise stay on the real one.
DirectCall(b) ==
  WhenEmitting(b, LAMBDA e :
    IF e.real \/ Arguments > Len(e.sym)
    THEN Then(Escalate(e), LAMBDA r : LET y == Yield(r, "callstk", <<>>) IN Push(y, Latest(y)))
    ELSE LET p == Pop(e)  q == Pop(p)  y == Yield(q, "call", <<p.got, q.got>>)
         IN Push(y, Latest(y)))

DirectTail(b) ==
  WhenEmitting(b, LAMBDA e :
    IF e.real \/ Arguments > Len(e.sym)
    THEN Then(Escalate(e), LAMBDA r : ModelClose(Add(r, Op("tailstk", <<>>, 0, <<>>))))
    ELSE LET p == Pop(e)  q == Pop(p) IN ModelClose(Add(q, Op("tail", <<p.got, q.got>>, 0, <<>>))))

\* stkcount
DirectCount(b) ==
  WhenEmitting(b, LAMBDA e : Then(Escalate(e), LAMBDA r :
    LET y == Yield(r, "count", <<>>) IN Add(y, Op("set", <<Latest(y)>>, 0, <<>>))))

\* direct_asm_condbranch: "@jz x ?l"
DirectBranch(b, l) ==
  WhenEmitting(b, LAMBDA e : Then(Spill(Yield(e, "get", <<>>)), LAMBDA s :
    LET t == NewBlock(LabelBlock(s, l))
        u == Add(t, Op("cbr", <<Latest(t)>>, 0, <<Len(t.ops), t.lab[l]>>))
    IN Transfers([u EXCEPT !.cur = Len(t.ops)], t.lab[l])))

DirectReturn(b) ==
  WhenEmitting(b, LAMBDA e :
    LET y == Yield(e, "get", <<>>) IN ModelClose(Add(Discard(y), Op("ret", <<Latest(y)>>, 0, <<>>))))

\* llvm_direct_condition_expression, with the folding of
\* llvm_direct_branch_leaf: on to a new block if the condition holds, to
\* the label if not.
DirectCondition(b, cond, l) ==
  WhenEmitting(b, LAMBDA e : Then(Spill(e), LAMBDA s :
    LET t == LabelBlock(NewBlock(s), l)
        k == Len(s.ops) + 1
        y == IF cond = "x" THEN Yield(t, "get", <<>>) ELSE t
        v == CASE cond = "x" -> Latest(y) [] cond = "zero" -> 0 [] OTHER -> 1
        u == Add(y, Op("cbr", <<v>>, 0, <<k, t.lab[l]>>))
        w == CASE cond = "x"    -> Transfers(Transfers(u, k), t.lab[l])
               [] cond = "zero" -> ModelClose(Transfers(u, t.lab[l]))
               [] OTHER         -> Transfers(u, k)
    IN BindBlock(w, k)))

\* The instruction classic makes of the condition, if any.
ClassicCondition(cond, l) ==
  CASE cond = "x" -> <<Ins("jz", 0, l)>> [] cond = "zero" -> <<Ins("jump", 0, l)>> [] OTHER -> <<>>

EmitAll(s, is) == FoldSeq(LAMBDA i, a : Emit(a, i), s, is)
NoteAll(b, is) == FoldSeq(LAMBDA i, a : Note(a, i), b, is)

------------------------------------------------------------------------------
(* The statements.  Each takes the classic compile and the direct build    *)
(* through the same source; what the parser decides for the direct build   *)
(* it decides from that build's own exec and use.                          *)

Size(k) == IF k \in Costly THEN 2 ELSE 1
Parsing(k) == phase = "parse" /\ count' = count + Size(k) /\ count' <= MaxSize

\* direct_crosscheck_reach, and the check of llvm_direct_resolve_label.
ReachMismatch(b) == Building(b) /\ ~flip /\ (b.exec # {}) # b.unreach
UseMismatch(b, l) ==
  Building(b) /\ ~flip /\ (l \in b.use) # (b.lab[l] # 0 /\ b.lab[l] \in b.entered)

\* One statement that opens no block: the direct hook, then what classic
\* assembles.
Simple(k, Hook(_), is, checked) ==
  /\ Parsing(k)
  /\ c' = Leave(EmitAll(Enter(c), is))
  /\ d' = Leave(NoteAll(Hook(Enter(d)), is))
  /\ mismatch' = (mismatch \/ (checked /\ ReachMismatch(Enter(d))))
  /\ named' = IF \E i \in DOMAIN is : is[i].l = UserLabel THEN named \cup {"cited"} ELSE named
  /\ folded' = (folded \/ (Building(d) /\ ~Closed(d, d.cur) /\ d.exec # {}
                            /\ \E i \in DOMAIN is : is[i].l # 0))
  /\ UNCHANGED <<flip, open, next, phase, run>>

PushConstant == Simple("push", LAMBDA b : DirectPush(b, count + 1), <<Ins("push", count + 1, 0)>>, FALSE)
PushLocal    == Simple("pushx", DirectPushX, <<Ins("pushx", 0, 0)>>, FALSE)
Pull         == Simple("pull", DirectPull, <<Ins("pull", 0, 0)>>, FALSE)
Call         == Simple("call", DirectCall, <<Ins("call", Arguments, 0)>>, FALSE)
StackCount   == Simple("count", DirectCount, <<Ins("count", 0, 0)>>, FALSE)
BranchLabel  == Simple("branch", LAMBDA b : DirectBranch(b, UserLabel), <<Ins("jz", 0, UserLabel)>>, FALSE)
JumpLabel    == Simple("jump", LAMBDA b : Jump(b, UserLabel), <<Ins("jump", 0, UserLabel)>>, TRUE)
Whiles == {i \in DOMAIN open : open[i].kind = "while"}
Break ==
  /\ Whiles # {}
  /\ LET l == open[CHOOSE i \in Whiles : \A j \in Whiles : j <= i].end
     IN Simple("break", LAMBDA b : Jump(b, l), <<Ins("jump", 0, l)>>, TRUE)
Return       == Simple("return", DirectReturn, <<Ins("ret", 0, 0)>>, TRUE)
TailCall     ==
  /\ TailLeaves \/ Len(d.sym) <= Arguments
  /\ Simple("tail", DirectTail, <<Ins("tail", Arguments, 0)>>, FALSE)

\* parse_named_label_statements: before the statement is entered.
Label ==
  /\ Parsing("label") /\ "defined" \notin named /\ (DeadLabels \/ "entire" \notin c.exec \cup d.exec)
  /\ named' = named \cup {"defined"}
  /\ c' = EmitLabel(c, UserLabel)
  /\ d' = Bind(NoteLabel(d, UserLabel), UserLabel)
  /\ UNCHANGED <<flip, open, next, mismatch, folded, phase, run>>

Frame(kind, pre, top, end) == [kind |-> kind, pre |-> pre, top |-> top, end |-> end]
Opening(k) == Parsing(k) /\ Len(open) < MaxDepth
SuspendIf(b, pre) == IF pre THEN Suspend(b) ELSE b
ResumeIf(b, pre)  == IF pre THEN Resume(b) ELSE b

OpenBlock ==
  /\ Opening("block")
  /\ open' = Append(open, Frame("block", FALSE, 0, 0))
  /\ c' = Enter(Enter(c)) /\ d' = Enter(Enter(d))
  /\ UNCHANGED <<flip, next, mismatch, named, folded, phase, run>>

\* A condition, and the code block it guards.
Guarded(b, cond, l) == Enter(NoteAll(DirectCondition(b, cond, l), ClassicCondition(cond, l)))

OpenIf(cond) ==
  /\ Opening("if") /\ next' = next + 1
  /\ LET pre == d.exec # {}
     IN /\ open' = Append(open, Frame("then", pre, 0, next))
        /\ mismatch' = (mismatch \/ ReachMismatch(Enter(d)))
        /\ c' = Enter(EmitAll(Enter(c), ClassicCondition(cond, next)))
        /\ d' = Guarded(SuspendIf(Enter(d), pre), cond, next)
  /\ UNCHANGED <<flip, named, folded, phase, run>>

OpenWhile(cond) ==
  /\ Opening("while") /\ next' = next + 2
  /\ LET pre == d.exec # {}
     IN /\ open' = Append(open, Frame("while", pre, next, next + 1))
        /\ mismatch' = (mismatch \/ ReachMismatch(Enter(d)))
        /\ c' = Enter(EmitAll(EmitLabel(Enter(c), next), ClassicCondition(cond, next + 1)))
        /\ d' = Guarded(NoteLabel(Bind(SuspendIf(Enter(d), pre), next), next), cond, next + 1)
  /\ UNCHANGED <<flip, named, folded, phase, run>>

\* `if (!execution_never_reaches_here) jump l`
JumpIfReached(b, l) == IF b.exec = {} THEN Note(Jump(b, l), Ins("jump", 0, l)) ELSE b

\* assemble_forward_label_no, then llvm_direct_resolve_label.
Forward(b, l, resolved) ==
  LET used == l \in b.use
      n == IF used THEN NoteLabel(b, l) ELSE b
  IN IF resolved THEN Resolve(n, l, used) ELSE n
ClassicForward(s, l) == IF l \in s.use THEN EmitLabel(s, l) ELSE s

Top == Last(open)
Closing(kind) == phase = "parse" /\ open # <<>> /\ Top.kind = kind

CloseBlock ==
  /\ Closing("block") /\ open' = Front(open)
  /\ c' = Leave(Leave(c)) /\ d' = Leave(Leave(d))
  /\ UNCHANGED <<flip, next, count, mismatch, named, folded, phase, run>>

\* The end of an if without else, and of an else block.
CloseIf(kind) ==
  /\ Closing(kind) /\ open' = Front(open)
  /\ LET b == Leave(d)
     IN /\ mismatch' = (mismatch \/ (~Top.pre /\ UseMismatch(b, Top.end)))
        /\ d' = Leave(ResumeIf(Forward(b, Top.end, ~Top.pre), Top.pre))
  /\ c' = Leave(ClassicForward(Leave(c), Top.end))
  /\ UNCHANGED <<flip, next, count, named, folded, phase, run>>

OpenElse ==
  /\ Closing("then") /\ next' = next + 1
  /\ open' = Append(Front(open), Frame("else", Top.pre, 0, next))
  /\ LET b == JumpIfReached(Leave(d), next)
         s == Leave(c)
     IN /\ mismatch' = (mismatch \/ (~Top.pre /\ UseMismatch(b, Top.end)))
        /\ d' = Enter(Forward(b, Top.end, ~Top.pre))
        /\ c' = Enter(ClassicForward(Emit(s, Ins("jump", 0, next)), Top.end))
  /\ UNCHANGED <<flip, count, named, folded, phase, run>>

CloseWhile ==
  /\ Closing("while") /\ open' = Front(open)
  /\ LET b == JumpIfReached(Leave(d), Top.top)
     IN /\ mismatch' = (mismatch \/ UseMismatch(b, Top.end))
        /\ d' = Leave(ResumeIf(Forward(b, Top.end, TRUE), Top.pre))
  /\ c' = Leave(ClassicForward(Emit(Leave(c), Ins("jump", 0, Top.top)), Top.end))
  /\ UNCHANGED <<flip, next, count, named, folded, phase, run>>

------------------------------------------------------------------------------
(* The end of the routine: the implicit return, llvm_direct_routine_finish *)
(* and LLVM's verifier, which wants every block terminated.                *)

Ret(v) == Op("ret", <<v>>, 0, <<>>)
Unreachable == Op("unreachable", <<>>, 0, <<>>)

Finish(b, fallthrough) ==
  IF b.st # "building" THEN b
  ELSE IF fallthrough
       THEN IF Closed(b, b.cur) THEN Reject(b) ELSE [Add(b, Ret(1)) EXCEPT !.st = "ready"]
  ELSE IF Closed(b, b.cur) THEN [b EXCEPT !.st = "ready"]
  ELSE IF Len(b.ops) = 1 /\ b.ops[1] = <<>> THEN Reject(b)
  ELSE [Add(b, Unreachable) EXCEPT !.st = "ready"]

Verify(b) ==
  IF b.st = "ready" /\ \E k \in DOMAIN b.ops : ~Closed(b, k) THEN [b EXCEPT !.st = "rejected"] ELSE b

\* Classic accepts the routine: a label that is cited is defined, and a
\* label that the code jumps to was not stripped.
Targets(code) == {code[i].l : i \in DOMAIN code} \ {0}
LabelsOf(code) == {code[i].l : i \in {j \in DOMAIN code : code[j].op = "label"}}
Compiles(code) == named # {"cited"} /\ Targets(code) \subseteq LabelsOf(code)

NoFlow   == [exec |-> {}, use |-> {}, saved |-> <<>>]
Fresh(real) ==
  NoFlow @@ [st |-> "building", ops |-> <<(<<>>)>>, cur |-> 1, lab |-> [l \in Labels |-> 0], entered |-> {},
             susp |-> 0, sym |-> <<>>, spilled |-> 0, real |-> real, unreach |-> FALSE, fresh |-> 0, got |-> 0]

\* When both compiles succeed all but the two codes is dropped.
EndRoutine ==
  /\ phase = "parse" /\ open = <<>>
  /\ LET s == Emit(c, Ins("retc", 1, 0))
         b == Verify(Finish(d, d.exec = {}))
         both == Compiles(s.code) /\ b.st = "ready"
     IN /\ c' = IF both THEN NoFlow @@ [code |-> s.code] ELSE s
        /\ d' = IF both THEN [Fresh(FALSE) EXCEPT !.st = b.st, !.ops = b.ops] ELSE b
        /\ mismatch' = (mismatch \/ ReachMismatch(d))
        /\ phase' = IF both THEN "run" ELSE "done"
        /\ flip' = (flip /\ ~both) /\ folded' = (folded /\ (both => mismatch'))
        /\ named' = IF both THEN {} ELSE named
        /\ next' = IF both THEN 2 ELSE next
        /\ count' = IF both THEN 0 ELSE count
  /\ UNCHANGED <<open, run>>

------------------------------------------------------------------------------
(* The two run side by side.  The classic code moves to its next call,     *)
(* count, test or return, the IR to its next one, and the two must match.  *)

Here  == c.code[run.pc]
There == d.ops[run.block][run.at]
Held(v) == v < 10 \/ v \in DOMAIN run.vals
Of(v)   == IF v < 10 THEN v ELSE run.vals[v]
Known(o) == \A i \in DOMAIN o.vs : Held(o.vs[i])
Bound(id, v) == (id :> v) @@ run.vals
Position(l) == CHOOSE i \in DOMAIN c.code : c.code[i] = Ins("label", 0, l)

Silent == Here.op \in {"push", "pushx", "pull", "label", "jump"}
SilentThere ==
  There.op \in {"push", "pop", "get", "set", "br"} \/ (There.op = "cbr" /\ There.vs[1] < 10)

Halt(ok) == [run EXCEPT !.ok = ok, !.on = FALSE]
Stops == Silent /\ \/ Here.op \in {"push", "pushx"} /\ Len(run.cstack) = MaxStack
                   \/ Here.op = "pull" /\ run.cstack = <<>>
Breaks == SilentThere /\ (~Known(There) \/ (There.op = "pop" /\ run.dstack = <<>>))

\* Each of the two that has a step nobody sees takes it.
ClassicMove(r) ==
  IF ~Silent THEN r
  ELSE [r EXCEPT !.pc = IF Here.op = "jump" THEN Position(Here.l) ELSE @ + 1,
                 !.cx = IF Here.op = "pull" THEN Last(run.cstack) ELSE @,
                 !.cstack = CASE Here.op = "push"  -> Append(@, Here.n)
                              [] Here.op = "pushx" -> Append(@, run.cx)
                              [] Here.op = "pull"  -> Front(@)
                              [] OTHER -> @]
DirectMove(r) ==
  LET o == There
      n == [r EXCEPT !.at = @ + 1]
      g(k) == [r EXCEPT !.block = k, !.at = 1]
  IN IF ~SilentThere THEN r
     ELSE CASE o.op = "push" -> [n EXCEPT !.dstack = Append(@, Of(o.vs[1]))]
            [] o.op = "pop"  -> [n EXCEPT !.dstack = Front(@), !.vals = Bound(o.id, Last(run.dstack))]
            [] o.op = "get"  -> [n EXCEPT !.vals = Bound(o.id, run.dx)]
            [] o.op = "set"  -> [n EXCEPT !.dx = Of(o.vs[1])]
            [] o.op = "br"   -> g(o.to[1])
            [] OTHER         -> g(o.to[IF o.vs[1] = 0 THEN 2 ELSE 1])

Advance ==
  /\ phase = "run" /\ run.on /\ (Silent \/ SilentThere)
  /\ run' = IF Stops THEN Halt(TRUE)
            ELSE IF ~Breaks THEN DirectMove(ClassicMove(run))
            ELSE IF Silent THEN ClassicMove(run) ELSE Halt(FALSE)
  /\ UNCHANGED <<flip, c, d, open, next, count, mismatch, named, folded, phase>>

\* The arguments a call takes, the first from the top of the stack.
Taken(stack) == [i \in 1 .. Arguments |-> stack[Len(stack) + 1 - i]]
Dropped(stack) == SubSeq(stack, 1, Len(stack) - Arguments)
Passed(o) == IF o.op \in {"callstk", "tailstk"}
             THEN IF Len(run.dstack) < Arguments THEN <<>> ELSE Taken(run.dstack)
             ELSE [i \in DOMAIN o.vs |-> Of(o.vs[i])]

Match ==
  /\ phase = "run" /\ run.on /\ ~Silent /\ ~SilentThere
  /\ LET i == Here  o == There
         held == Known(o)
         r == [run EXCEPT !.pc = @ + 1, !.at = @ + 1]
         enough == Len(run.cstack) >= Arguments
     IN CASE i.op \in {"call", "tail"} /\ ~enough -> run' = Halt(TRUE)
          [] i.op = "call" /\ enough /\ held /\ o.op \in {"call", "callstk"} ->
               run' = IF Passed(o) # Taken(run.cstack) THEN Halt(FALSE)
                      ELSE [r EXCEPT !.cstack = Append(Dropped(@), 20 + run.pc),
                                     !.dstack = IF o.op = "call" THEN @ ELSE Dropped(@),
                                     !.vals = Bound(o.id, 20 + run.pc)]
          [] i.op = "count" /\ o.op = "count" ->
               run' = IF Len(run.cstack) # Len(run.dstack) THEN Halt(FALSE)
                      ELSE [r EXCEPT !.cx = Len(run.cstack), !.vals = Bound(o.id, Len(run.dstack))]
          [] i.op = "jz" /\ held /\ o.op = "cbr" /\ Of(o.vs[1]) = run.cx ->
               \E zero \in BOOLEAN :
                 run' = [run EXCEPT !.pc = IF zero THEN Position(i.l) ELSE @ + 1,
                                    !.block = o.to[IF zero THEN 2 ELSE 1], !.at = 1]
          [] i.op \in {"ret", "retc"} /\ held /\ o.op = "ret" ->
               run' = Halt(Of(o.vs[1]) = IF i.op = "ret" THEN run.cx ELSE i.n)
          [] i.op = "tail" /\ enough /\ held /\ o.op \in {"tail", "tailstk"} ->
               run' = Halt(Passed(o) = Taken(run.cstack))
          [] OTHER -> run' = Halt(FALSE)
  /\ UNCHANGED <<flip, c, d, open, next, count, mismatch, named, folded, phase>>

------------------------------------------------------------------------------
Init ==
  /\ flip \in Writers
  /\ c = NoFlow @@ [code |-> <<>>]
  /\ \E real \in {FALSE} \cup {flip \in StackWriters} :
       /\ d = Fresh(real)
       /\ LET stack == IF real THEN <<Argument>> ELSE <<>>
          IN run = [pc |-> 1, block |-> 1, at |-> 1, cstack |-> stack, dstack |-> stack, cx |-> Local,
                    dx |-> Local, vals |-> <<>>, ok |-> TRUE, on |-> TRUE]
  /\ open = <<>> /\ next = 2 /\ count = (IF d.real THEN 1 ELSE 0) /\ mismatch = FALSE /\ named = {} /\ folded = FALSE /\ phase = "parse"

Next ==
  \/ PushConstant \/ PushLocal \/ Pull \/ Call \/ StackCount \/ BranchLabel \/ JumpLabel
  \/ Break \/ Return \/ TailCall \/ Label \/ OpenBlock \/ CloseBlock
  \/ \E cond \in {"x", "zero", "one"} : OpenIf(cond) \/ OpenWhile(cond)
  \/ \E kind \in {"then", "else"} : CloseIf(kind)
  \/ OpenElse \/ CloseWhile \/ EndRoutine
  \/ Advance \/ Match

Spec == Init /\ [][Next]_vars

------------------------------------------------------------------------------
(* Properties.                                                             *)

ExecFlags == {"unreachable", "entire"}

\* The IR of the direct build does what the classic code does: the same
\* calls with the same arguments, the same stack counts, tests of the same
\* value and the same result, though classic keeps every "sp" operand on
\* the VM stack and the direct build mostly does not.
SameCode == run.ok

\* Between statements the model of reachability never loses what classic
\* reaches, nor a label it uses; and until a jump is built into the block
\* of a condition that is always false, the two agree exactly, so that a
\* flipped writer answers the parser's questions as classic would and the
\* crosscheck that runs under the classic writer reports nothing.
ModelAgrees ==
  /\ mismatch => folded
  /\ phase = "parse" /\ Building(d) =>
       /\ c.exec = {} => ~d.unreach
       /\ flip => (c.exec = {} => d.exec = {}) /\ c.use \subseteq d.use
       /\ ~folded => /\ d.unreach = (c.exec # {})
                     /\ flip => d.exec = c.exec /\ d.use = c.use

\* What the classic compile accepts, the direct build accepts: nothing is
\* rejected, and every block it made has its terminator.
LegalAccepted == phase # "parse" => (Compiles(c.code) => d.st = "ready")
==============================================================================
