----------------------------- MODULE LowerSlots -----------------------------
(***************************************************************************)
(* Lowering a routine from LLVM IR to Glulx (llvm_lower.c): every SSA      *)
(* value gets a local slot, block-local values share a pool of slots, and  *)
(* the phis of a block are filled by copies on the edges that enter it.    *)
(* A routine in SSA form is built, lowered in one step, and then the IR    *)
(* and the lowered code are run side by side along every path.             *)
(*                                                                         *)
(* Values are told apart by tokens.  An instruction that computes gives    *)
(* its value a token that is nowhere in use; a copy moves a token.  Every  *)
(* operand that is computed with names the IR value it is meant to be      *)
(* ("want"), and the slot has to hold the token that value has now.        *)
(***************************************************************************)
EXTENDS Integers, Sequences, FiniteSets, SequencesExt, FiniteSetsExt

CONSTANTS
  Shapes,     \* control-flow graphs: terminators of the blocks, in layout order
  MaxValues,  \* bound, for each of them: instructions besides terminators
  Costly,     \* the kinds of instruction that count twice towards it
  MaxSlots    \* MAX_LOWER_SLOTS

AllKinds == {"calc", "udiv", "icmp", "select", "minmax", "freeze", "zext", "trunc",
             "sext", "phi"}

LowerAssumption ==
  /\ \A s \in Shapes : \A b \in DOMAIN s :
       /\ s[b].op \in {"ret", "br", "cond", "switch"}
       /\ \A k \in DOMAIN s[b].to : s[b].to[k] \in 2 .. Len(s)
  /\ Costly \subseteq AllKinds
  /\ MaxSlots \in Nat /\ MaxValues \in [Shapes -> Nat]

VARIABLES
  shape,  \* the terminators of the routine
  fn,     \* its other instructions, in layout order
  ends,   \* the operand of each block's terminator
  block,  \* the block being built
  phase,  \* of llvm_lower_routine, or "run", "done", "failed"
  vals,   \* vals[]: what phase A finds out about each value
  code,   \* the lowered code
  slots,  \* of the frame: the token each slot holds
  run     \* the IR machine, and the place of the code machine

vars == <<shape, fn, ends, block, phase, vals, code, slots, run>>

\* References to what is not an instruction.
X     == 0   \* the parameter of the routine, in slot 1
False == -1
True  == -2

Blocks    == DOMAIN shape
Values    == DOMAIN fn
Succ(b)   == Range(shape[b].to)
Preds(b)  == {p \in Blocks : b \in Succ(p)}
In(b)     == {i \in Values : fn[i].blk = b}
IsPhi(i)  == i > 0 /\ fn[i].kind = "phi"
Phis(b)   == SelectSeq([i \in Values |-> i], LAMBDA i : IsPhi(i) /\ fn[i].blk = b)

\* The blocks reached from the entry, but not through block a.
ReachedWithout(a) ==
  LET R[n \in Nat] == IF n = 0 THEN {1} \ {a}
                      ELSE LET r == R[n - 1] IN r \cup ((UNION {Succ(b) : b \in r}) \ {a})
  IN R[Len(shape)]
Dominates(a, b) == b \notin ReachedWithout(a)

\* The type of a value.
Type(v) ==
  LET T[i \in 0 .. Len(fn)] ==
        IF i = X THEN "i32"
        ELSE CASE fn[i].kind = "icmp"   -> "i1"
               [] fn[i].kind = "trunc"  -> "i8"
               [] fn[i].kind = "freeze" -> T[fn[i].args[1]]
               [] OTHER                 -> "i32"
  IN T[v]

Available(b, type) ==
  {v \in {X} \cup Values : /\ Type(v) = type
                          /\ (v = X \/ fn[v].blk = b \/ Dominates(fn[v].blk, b))}

------------------------------------------------------------------------------
(* Phase A: classification, liveness and slots.                            *)

\* Each use of a value as an operand: the user, with the position and the
\* block its emission reads the operand at; 0 stands for a terminator.
EndPos(b) == Cardinality({i \in Values : fn[i].blk <= b}) + b - 1
Pos(i)    == i + fn[i].blk - 2

Use(v, user, pos, blk) == [v |-> v, user |-> user, pos |-> pos, blk |-> blk]

\* Bug: An incoming value of a phi is read where the phi stands.
UsesBug ==
  UNION {{Use(fn[i].args[k], i, Pos(i), fn[i].blk) : k \in DOMAIN fn[i].args} : i \in Values}
  \cup {Use(ends[b], 0, EndPos(b), b) : b \in {e \in Blocks : shape[e].op # "br"}}

Uses ==
  UNION {IF IsPhi(i) THEN {Use(fn[i].args[p], i, EndPos(p), p) : p \in DOMAIN fn[i].args}
         ELSE {Use(fn[i].args[k], i, Pos(i), fn[i].blk) : k \in DOMAIN fn[i].args} : i \in Values}
  \cup {Use(ends[b], 0, EndPos(b), b) : b \in {e \in Blocks : shape[e].op # "br"}}

\* A comparison whose only use is the condition of a branch or select of its
\* own block is emitted there.
Fusable(i) ==
  \E u \in Uses :
    /\ {w \in Uses : w.v = i} = {u}
    /\ u.blk = fn[i].blk
    /\ IF u.user = 0 THEN shape[u.blk].op = "cond" ELSE fn[u.user].kind = "select"

KindOf(i) ==
  CASE fn[i].kind = "icmp"             -> IF Fusable(i) THEN "fused" ELSE "slot"
    [] fn[i].kind \in {"freeze", "zext"} -> "alias"
    [] fn[i].kind = "trunc"            -> "skip"
    [] OTHER                           -> "slot"

Class(i) == vals[i].kind

\* The value that stands for v at run time.
Underlying(v) ==
  LET U[i \in False .. Len(fn)] ==
        IF i > 0 /\ Class(i) = "alias" THEN U[fn[i].args[1]] ELSE i
  IN IF v = True THEN True ELSE U[v]

FusedFor(v) == v > 0 /\ Class(Underlying(v)) = "fused"

\* Bug: The operand of a fused comparison is read where the comparison stands.
TouchesBug(v) == IF v <= X THEN {} ELSE {Underlying(v)}

\* note_read: the values whose slots are read when v is.
Touches(v) ==
  LET T[i \in True .. Len(fn)] ==
        IF i <= X THEN {}
        ELSE IF Class(i) = "slot" THEN {i} ELSE T[fn[i].args[1]]
  IN T[v]

ReadsOf(v)  == {u \in Uses : v \in Touches(u.v)}
LastUse(v)  == Max({Pos(v)} \cup {u.pos : u \in ReadsOf(v)})
CrossesBlocks(v) == \E u \in ReadsOf(v) : u.blk # fn[v].blk

\* edge_source_reads_phi
SourceReadsPhi(phi, p) ==
  LET s == Underlying(fn[phi].args[p])
  IN s # phi /\ s > 0 /\ IsPhi(s) /\ fn[s].blk = fn[phi].blk

\* Bug: A phi that reads a phi is thought to be harmless.
NeedsStagingBug(p, b) == FALSE

NeedsStaging(p, b) == \E i \in Range(Phis(b)) : SourceReadsPhi(i, p)
Hazard(b) == \E p \in Preds(b) : \E i \in Range(Phis(b)) : SourceReadsPhi(i, p)

Dedicated(i) == Class(i) = "slot" /\ (IsPhi(i) \/ vals[i].cross)

NoSlots == [slot |-> <<>>, scratch |-> <<>>, next |-> 2]

\* Phis and values that cross blocks, then the scratch slot of an instruction.
DedicatedSlots ==
  FoldLeft(LAMBDA a, i :
    LET own == IF Dedicated(i) THEN 1 ELSE 0
        scratch == IF fn[i].kind = "udiv" \/ (IsPhi(i) /\ Hazard(fn[i].blk)) THEN 1 ELSE 0
    IN [ slot    |-> Append(a.slot, own * a.next),
         scratch |-> Append(a.scratch, scratch * (a.next + own)),
         next    |-> a.next + own + scratch ],
    NoSlots, [i \in Values |-> i])

\* Bug: A slot is free from the last use of its occupant on.
FreeBug(last, i) == last <= Pos(i)

Free(last, i) == last < Pos(i)

\* Block-local values, by linear scan: last[s] is pool_last.
PoolSlots ==
  LET Take(a, i) ==
        IF Class(i) # "slot" \/ Dedicated(i) THEN [a EXCEPT !.slot = Append(@, 0)]
        ELSE LET free == {s \in DOMAIN a.last : Free(a.last[s], i)}
                 s == IF free = {} THEN Len(a.last) + 1 ELSE Min(free)
             IN [ slot |-> Append(a.slot, s),
                  last |-> IF free = {} THEN Append(a.last, vals[i].last)
                           ELSE [a.last EXCEPT ![s] = vals[i].last] ]
  IN FoldLeft(Take, [slot |-> <<>>, last |-> <<>>], [i \in Values |-> i])

AssignSlots ==
  LET d == DedicatedSlots  p == PoolSlots
  IN [ slot    |-> [i \in Values |-> IF p.slot[i] = 0 THEN d.slot[i] ELSE d.next - 1 + p.slot[i]],
       scratch |-> d.scratch,
       total   |-> d.next - 1 + Len(p.last) ]

------------------------------------------------------------------------------
(* Phase B: the code.  An item reads locations and names the values it     *)
(* wants there.  A location is a slot, or a constant below 1.  "by" is the *)
(* instruction, or minus the block whose terminator, the item belongs to.  *)

Zero == 0
One  == -1

Item(op, src, want, dst, by) ==
  [op |-> op, src |-> src, want |-> want, dst |-> dst, by |-> by, label |-> <<>>, gives |-> 0]

BlockLabel(b)   == <<b, 0>>
StubLabel(b, k) == <<b, k>>
DoneLabel(i)    == <<0, i>>

\* What an instruction leaves in a slot before its result.
Part(k) == -2 - k

\* resolve: where a value is.
Where(v, s) ==
  LET u == Underlying(v)
  IN CASE u = X -> 1
       [] u = False -> Zero
       [] u = True -> One
       [] OTHER -> s.slot[u]

Copy(from, to, by) ==
  IF from = to THEN <<>> ELSE <<[Item("copy", <<>>, <<>>, to, by) EXCEPT !.gives = from]>>
Compute(src, want, dst, gives, by) == [Item("compute", src, want, dst, by) EXCEPT !.gives = gives]
Label(l, by) == [Item("label", <<>>, <<>>, 0, by) EXCEPT !.label = l]
Goto(l, by)  == [Item("jump", <<>>, <<>>, 0, by) EXCEPT !.label = l]

\* A test is taken "if" or "unless" the IR value "gives" is true, in the
\* "case" that the IR takes edge "gives", if the "first" operand is that
\* value, or in "either" case.
Test(op, src, want, gives, label, by) ==
  [Item(op, src, want, 0, by) EXCEPT !.gives = gives, !.label = label]

\* gen_cond_branch
CondBranch(v, invert, label, by, s) ==
  LET u == Underlying(v)
      read == IF FusedFor(v) THEN fn[u].args[1] ELSE v
  IN Test(IF invert THEN "unless" ELSE "if", <<Where(read, s)>>, <<read>>, v, label, by)

\* Multi-instruction emissions: D is written before the operands are all read.
EmitUDiv(i, x, D, T) ==
  LET a == fn[i].args[1] IN
  << Compute(<<x>>, <<a>>, D, Part(1), i),
     Compute(<<D>>, <<Part(1)>>, D, i, i),
     Compute(<<D>>, <<i>>, T, Part(1), i),
     Compute(<<x, T>>, <<a, Part(1)>>, T, Part(2), i),
     Test("either", <<T>>, <<Part(2)>>, 0, DoneLabel(i), i),
     Compute(<<D>>, <<i>>, D, i, i),
     Label(DoneLabel(i), i) >>

EmitICmp(i, x, D) ==
  Copy(One, D, i) \o <<Test("if", <<x>>, fn[i].args, i, DoneLabel(i), i)>>
  \o Copy(Zero, D, i) \o <<Label(DoneLabel(i), i)>>

EmitSelect(i, s) ==
  LET a == fn[i].args  D == s.slot[i] IN
  Copy(Where(a[2], s), D, i) \o <<CondBranch(a[1], FALSE, DoneLabel(i), i, s)>>
  \o Copy(Where(a[3], s), D, i) \o <<Label(DoneLabel(i), i)>>

EmitMinMax(i, x, y, D) ==
  Copy(x, D, i) \o <<Test("first", <<x, y>>, fn[i].args, i, DoneLabel(i), i)>>
  \o Copy(y, D, i) \o <<Label(DoneLabel(i), i)>>

\* One instruction of the IR.
EmitInstruction(i, s) ==
  LET D == s.slot[i]
      x(k) == Where(fn[i].args[k], s)
      read == IF fn[i].kind = "sext" THEN fn[fn[i].args[1]].args ELSE fn[i].args
  IN CASE fn[i].kind \in {"calc", "sext"} -> <<Compute(<<Where(read[1], s)>>, read, D, i, i)>>
       [] fn[i].kind = "udiv"   -> EmitUDiv(i, x(1), D, s.scratch[i])
       [] fn[i].kind = "select" -> EmitSelect(i, s)
       [] fn[i].kind = "minmax" -> EmitMinMax(i, x(1), x(2), D)
       [] fn[i].kind = "icmp" /\ Class(i) = "slot" -> EmitICmp(i, x(1), D)
       [] OTHER -> <<>>

\* emit_edge_copies
EdgeCopies(p, b, s) ==
  LET phis == Phis(b)
      from(i) == Where(fn[i].args[p], s)
      Each(C(_)) == FlattenSeq([k \in DOMAIN phis |-> C(phis[k])])
  IN IF Len(phis) = 1 \/ ~NeedsStaging(p, b)
     THEN Each(LAMBDA i : Copy(from(i), s.slot[i], -p))
     ELSE Each(LAMBDA i : Copy(from(i), s.scratch[i], -p))
          \o Each(LAMBDA i : Copy(s.scratch[i], s.slot[i], -p))

\* Bug: The jump over the stubs is left out.
GotoEdgeBug(p, b, force, s) ==
  EdgeCopies(p, b, s) \o IF b # p + 1 THEN <<Goto(BlockLabel(b), -p)>> ELSE <<>>

\* emit_goto_edge
GotoEdge(p, b, force, s) ==
  EdgeCopies(p, b, s)
  \o IF force \/ b # p + 1 THEN <<Goto(BlockLabel(b), -p)>> ELSE <<>>

Stub(p, b, k, s) ==
  <<Label(StubLabel(p, k), -p)>> \o EdgeCopies(p, b, s) \o <<Goto(BlockLabel(b), -p)>>

\* emit_terminator: edge k leads to block to[k].
EmitTerminator(b, s) ==
  LET to == shape[b].to
      stubbed(k) == Phis(to[k]) # <<>>
      label(k) == IF stubbed(k) THEN StubLabel(b, k) ELSE BlockLabel(to[k])
      stub(k) == IF stubbed(k) THEN Stub(b, to[k], k, s) ELSE <<>>
  IN CASE shape[b].op = "ret" ->
            <<Item("ret", <<Where(ends[b], s)>>, <<ends[b]>>, 0, -b)>>
       [] shape[b].op = "br" -> GotoEdge(b, to[1], FALSE, s)
       [] shape[b].op = "cond" /\ (to[1] = to[2] \/ ends[b] < X) ->
            GotoEdge(b, IF to[1] # to[2] /\ ends[b] = False THEN to[2] ELSE to[1], FALSE, s)
       [] shape[b].op = "cond" /\ to[1] # to[2] /\ ends[b] > X ->
            LET invert == to[1] = b + 1
                t == IF invert THEN 2 ELSE 1  g == 3 - t
            IN <<CondBranch(ends[b], invert, label(t), -b, s)>>
               \o GotoEdge(b, to[g], stubbed(t), s) \o stub(t)
       [] shape[b].op = "switch" ->
            LET cases == [c \in 1 .. Len(to) - 1 |-> c + 1]
            IN [c \in DOMAIN cases |->
                 Test("case", <<Where(ends[b], s)>>, <<ends[b]>>, c + 1, label(c + 1), -b)]
               \o GotoEdge(b, to[1], \E c \in DOMAIN cases : stubbed(c + 1), s)
               \o FlattenSeq([c \in DOMAIN cases |-> stub(c + 1)])

Emission(s) ==
  FlattenSeq([b \in Blocks |->
    (IF b = 1 THEN <<>> ELSE <<Label(BlockLabel(b), 0)>>)
    \o FlattenSeq([i \in Values |-> IF fn[i].blk = b THEN EmitInstruction(i, s) ELSE <<>>])
    \o EmitTerminator(b, s)])

------------------------------------------------------------------------------
(* Building a routine.                                                     *)

Init ==
  /\ shape \in Shapes
  /\ fn = <<>> /\ ends = <<>> /\ block = 1
  /\ phase = "build" /\ vals = <<>>
  /\ code = <<>> /\ slots = <<>>
  /\ run = [env |-> <<>>, slot |-> <<>>, blk |-> 1, at |-> 0, edge |-> 0, pc |-> 1, fault |-> "none"]

Cost(kind) == IF kind \in Costly THEN 2 ELSE 1
Size(f)    == FoldLeft(LAMBDA n, i : n + Cost(i.kind), 0, f)

Building == phase = "build" /\ block <= Len(shape)
I32 == Available(block, "i32")
I1  == Available(block, "i1")

Arguments(kind) ==
  CASE kind \in {"calc", "udiv", "icmp", "trunc"} -> {<<v>> : v \in I32}
    [] kind = "freeze" -> {<<v>> : v \in I1 \cup (I32 \ {X})}
    [] kind = "zext"   -> {<<v>> : v \in I1}
    [] kind = "sext"   -> {<<v>> : v \in Available(block, "i8")}
    [] kind = "select" -> {a \in I1 \X I32 \X I32 : a[2] # a[3]}
    [] kind = "minmax" -> {a \in I32 \X I32 : a[1] # a[2]}
    [] kind = "phi"    -> {<<>>}

\* The builder and LLVM's passes append an instruction to the block.
AddValue(kind) ==
  /\ Building /\ Size(fn) + Cost(kind) <= MaxValues[shape]
  /\ kind = "phi" => block > 1 /\ \A i \in In(block) : IsPhi(i)
  /\ \E args \in Arguments(kind) :
       fn' = Append(fn, [kind |-> kind, blk |-> block, args |-> args])
  /\ UNCHANGED <<shape, ends, block, phase, vals, code, slots, run>>

Unfilled == {i \in Values : IsPhi(i) /\ fn[i].args = <<>>}

\* LLVM's dead code elimination leaves only values that others use.
AllUsed == Values \subseteq Range(ends) \cup UNION {Range(fn[i].args) \ {i} : i \in Values}

CloseBlock ==
  /\ Building
  /\ \E v \in CASE shape[block].op = "br"   -> {X}
               [] shape[block].op = "cond" -> IF I1 = {} THEN {False, True} ELSE I1
               [] OTHER                    -> I32 :
       ends' = Append(ends, v)
  /\ block' = block + 1
  /\ UNCHANGED <<shape, fn, phase, vals, code, slots, run>>
  /\ block = Len(shape) /\ Unfilled = {} => AllUsed'

\* What a phi may be given: for each block before its own, a value that is there.
Incoming(i) ==
  LET from == [p \in Preds(fn[i].blk) |-> {False} \cup Available(p, "i32")]
  IN {args \in [DOMAIN from -> UNION Range(from)] : \A p \in DOMAIN args : args[p] \in from[p]}

FillPhi ==
  /\ phase = "build" /\ ~Building
  /\ UNCHANGED <<shape, ends, block, phase, vals, code, slots, run>>
  /\ \E i \in {j \in Unfilled : \A k \in Unfilled : j <= k} : \E args \in Incoming(i) :
       fn' = [fn EXCEPT ![i].args = args]
  /\ Unfilled' # {} \/ AllUsed'

\* llvm_lower_routine: pass 1
Classify ==
  /\ phase = "build" /\ ~Building /\ Unfilled = {}
  /\ vals' = [i \in Values |-> [kind |-> KindOf(i), last |-> Pos(i), cross |-> FALSE]]
  /\ phase' = "liveness"
  /\ UNCHANGED <<shape, fn, ends, block, code, slots, run>>

\* pass 3
Liveness ==
  /\ phase = "liveness"
  /\ vals' = [i \in Values |-> [vals[i] EXCEPT !.last = LastUse(i), !.cross = CrossesBlocks(i)]]
  /\ phase' = "assign"
  /\ UNCHANGED <<shape, fn, ends, block, code, slots, run>>

\* pass 4 and phase B: nothing is emitted when the slots do not suffice.
Lower ==
  /\ phase = "assign"
  /\ LET s == AssignSlots IN
     IF s.total > MaxSlots
     THEN phase' = "failed" /\ UNCHANGED <<code, slots, run>>
     ELSE /\ phase' = "run"
          /\ code' = Emission(s)
          /\ slots' = [k \in 1 .. s.total |-> IF k = 1 THEN 2 ELSE -1]
          /\ run' = [run EXCEPT !.env = [i \in Values |-> -1], !.slot = s.slot]
  /\ UNCHANGED <<shape, fn, ends, block, vals>>

------------------------------------------------------------------------------
(* Running both.  Tokens: 0 and 1 for themselves, 2 for the parameter.     *)

Value(env, v) ==
  CASE v > X -> env[v] [] v = X -> 2 [] v = False -> 0 [] v = True -> 1 [] OTHER -> v
Token(loc) == IF loc > 0 THEN slots[loc] ELSE -loc
Fresh == Min((3 .. 3 + Len(fn) + Len(slots)) \ (Range(run.env) \cup Range(slots)))

Here == code[run.pc]
InFragment == run.pc <= Len(code) /\ Here.by = run.at /\ run.at # 0
Running == phase = "run" /\ run.fault = "none"

Results(i) ==
  LET v(k) == Value(run.env, fn[i].args[k])
  IN CASE fn[i].kind \in {"calc", "udiv", "sext"}    -> {Fresh}
       [] fn[i].kind = "icmp"                        -> {0, 1}
       [] fn[i].kind = "select"                      -> {IF v(1) = 1 THEN v(2) ELSE v(3)}
       [] fn[i].kind = "minmax"                      -> {v(1), v(2)}
       [] fn[i].kind = "phi"                         -> {run.env[i]}
       [] fn[i].kind \in {"freeze", "zext", "trunc"} -> {v(1)}

\* The IR executes its next instruction; the code then catches up.
Execute ==
  /\ Running /\ ~InFragment /\ run.at >= 0
  /\ LET rest == {i \in In(run.blk) : i > run.at} IN
     /\ rest # {}
     /\ \E t \in Results(Min(rest)) :
          run' = [run EXCEPT !.at = Min(rest), !.env[Min(rest)] = t]
  /\ UNCHANGED <<shape, fn, ends, block, phase, vals, code, slots>>

Edges(b) ==
  CASE shape[b].op = "cond" -> {IF Value(run.env, ends[b]) = 1 THEN 1 ELSE 2}
    [] OTHER                -> DOMAIN shape[b].to

\* The IR executes a terminator and chooses an edge, 0 for a return.
Leave ==
  /\ Running /\ ~InFragment /\ run.at >= 0
  /\ {i \in In(run.blk) : i > run.at} = {}
  /\ \E k \in IF shape[run.blk].op = "ret" THEN {0} ELSE Edges(run.blk) :
       run' = [run EXCEPT !.at = -run.blk, !.edge = k]
  /\ UNCHANGED <<shape, fn, ends, block, phase, vals, code, slots>>

ReadsRight == \A k \in DOMAIN Here.src : Token(Here.src[k]) = Value(run.env, Here.want[k])

Taken ==
  CASE Here.op = "jump"   -> {TRUE}
    [] Here.op = "if"     -> {Value(run.env, Here.gives) = 1}
    [] Here.op = "unless" -> {Value(run.env, Here.gives) # 1}
    [] Here.op = "case"   -> {run.edge = Here.gives}
    [] Here.op = "first"  -> {Value(run.env, Here.gives) = Value(run.env, Here.want[1])}
    [] Here.op = "either" -> BOOLEAN
    [] OTHER              -> {FALSE}

PlaceOf(l) == CHOOSE k \in DOMAIN code : code[k].op = "label" /\ code[k].label = l

\* The code executes one instruction.
Step ==
  /\ Running /\ InFragment
  /\ IF ~ReadsRight
     THEN run' = [run EXCEPT !.fault = "read"] /\ UNCHANGED <<phase, slots>>
     ELSE /\ \E t \in Taken : run' = [run EXCEPT !.pc = IF t THEN PlaceOf(Here.label) ELSE @ + 1]
          /\ slots' = CASE Here.op = "compute" -> [slots EXCEPT ![Here.dst] = Value(run.env, Here.gives)]
                        [] Here.op = "copy" -> [slots EXCEPT ![Here.dst] = Token(Here.gives)]
                        [] OTHER -> slots
          /\ phase' = IF Here.op = "ret" THEN "done" ELSE phase
  /\ UNCHANGED <<shape, fn, ends, block, vals, code>>

\* The code enters a block, or leaves the routine at its end.
Arrive ==
  /\ Running /\ ~InFragment /\ run.at < 0
  /\ LET b == IF run.edge = 0 THEN 0 ELSE shape[run.blk].to[run.edge]
         env == [i \in Values |-> IF IsPhi(i) /\ fn[i].blk = b
                                   THEN Value(run.env, fn[i].args[run.blk]) ELSE run.env[i]]
     IN run' = IF b = 0 \/ run.pc > Len(code) \/ Here.label # BlockLabel(b)
               THEN [run EXCEPT !.fault = "flow"]
               ELSE IF \E i \in Range(Phis(b)) : slots[run.slot[i]] # env[i]
               THEN [run EXCEPT !.fault = "phi"]
               ELSE [run EXCEPT !.env = env, !.blk = b, !.at = 0, !.edge = 0, !.pc = @ + 1]
  /\ UNCHANGED <<shape, fn, ends, block, phase, vals, code, slots>>

Next ==
  \/ \E kind \in AllKinds : AddValue(kind)
  \/ CloseBlock \/ FillPhi \/ Classify \/ Liveness \/ Lower
  \/ Execute \/ Leave \/ Step \/ Arrive

Spec == Init /\ [][Next]_vars

------------------------------------------------------------------------------
(* Properties.                                                             *)

\* However slots are shared, every operand of the lowered code (assign_slots,
\* note_read) holds the value that the IR has for it when it is read.
OperandsHold == run.fault # "read"

\* When a block is entered its phis hold the values of the edge taken, as if
\* all had been assigned at once (emit_edge_copies).
PhisParallel == run.fault # "phi"

\* Control in the code follows the edge that the IR takes, through inverted
\* tests, stubs and blocks that are fallen into (emit_terminator).
FlowFollows == run.fault # "flow"
=============================================================================
