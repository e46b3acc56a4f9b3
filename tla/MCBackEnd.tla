------------------------------- MODULE MCBackEnd -------------------------------
(* The two ends of the IR, each on instance data of its own: the direct      *)
(* backend while it builds a routine (DirectBuild), and the code that is     *)
(* made of a routine (LowerSlots).  A behaviour takes one of them, its part, *)
(* and leaves the variables of the other.                                    *)
EXTENDS Integers, Sequences

CONSTANTS Parts, Writers, StackWriters, CostlyStatements, Shapes, MaxValues, CostlyKinds

VARIABLES
  part,
  phase, run,                                                  \* both
  flip, c, d, open, next, count, mismatch, named, folded,      \* build
  shape, fn, ends, block, vals, code, slots                    \* lower

buildVars == <<flip, c, d, open, next, count, mismatch, named, folded>>
lowerVars == <<shape, fn, ends, block, vals, code, slots>>

B == INSTANCE DirectBuild WITH
       Costly <- CostlyStatements,
       DeadLabels <- FALSE, TailLeaves <- FALSE, MaxSize <- 4, MaxDepth <- 2, MaxStack <- 3

\* Control-flow graphs of up to four blocks: no branch, an "if", an "if" with
\* two ends, loops, a loop with a body, and switches.
T(op, to) == [op |-> op, to |-> to]
Ret == T("ret", <<>>)
Loop == <<T("br", <<2>>), T("cond", <<2, 3>>), Ret>>

Graphs ==
  { <<Ret>>,
    <<T("cond", <<2, 3>>), T("br", <<3>>), Ret>>,
    <<T("cond", <<3, 2>>), Ret, Ret>>,
    Loop,
    <<T("br", <<2>>), T("cond", <<3, 2>>), Ret>>,
    <<T("br", <<2>>), T("cond", <<3, 4>>), T("br", <<2>>), Ret>>,
    <<T("switch", <<3, 2>>), T("br", <<3>>), Ret>>,
    <<T("switch", <<2, 3, 3>>), T("br", <<3>>), Ret>> }

ValuesIn == [s \in Graphs |-> CASE s = <<Ret>> -> 6 [] s = Loop -> 4 [] OTHER -> 3]

S == INSTANCE LowerSlots WITH Costly <- CostlyKinds, MaxSlots <- 6

ASSUME B!DirectAssumption /\ S!LowerAssumption
------------------------------------------------------------------------------
InitBuild ==
  \/ part = "build" /\ B!Init
  \/ /\ part # "build"
     /\ flip = FALSE /\ c = <<>> /\ d = <<>> /\ open = <<>> /\ next = 0 /\ count = 0
     /\ mismatch = FALSE /\ named = {} /\ folded = FALSE

InitLower ==
  \/ part = "lower" /\ S!Init
  \/ /\ part # "lower"
     /\ shape = <<>> /\ fn = <<>> /\ ends = <<>> /\ block = 0 /\ vals = <<>> /\ code = <<>>
     /\ slots = <<>>

Init == part \in Parts /\ InitBuild /\ InitLower

Next ==
  \/ part = "build" /\ B!Next /\ UNCHANGED <<part, lowerVars>>
  \/ part = "lower" /\ S!Next /\ UNCHANGED <<part, buildVars>>

vars == <<part, phase, run, buildVars, lowerVars>>

Spec == Init /\ [][Next]_vars
------------------------------------------------------------------------------
(* The IR does what the classic code does; see DirectBuild.                  *)
SameCode == part = "build" => B!SameCode

(* The builder's model of the parser's state is right; see DirectBuild.      *)
ModelAgrees == part = "build" => B!ModelAgrees

(* What compiles the classic way is built; see DirectBuild.                  *)
LegalAccepted == part = "build" => B!LegalAccepted

(* Operands hold the values the IR has for them; see LowerSlots.             *)
OperandsHold == part = "lower" => S!OperandsHold

(* The phis of a block change at once; see LowerSlots.                       *)
PhisParallel == part = "lower" => S!PhisParallel

(* The lowered code goes the way of the IR; see LowerSlots.                  *)
FlowFollows == part = "lower" => S!FlowFollows
==============================================================================
