----------------------------- MODULE Conditional -----------------------------
(***************************************************************************)
(* Conditional compilation as directs.c does it.  Open conditionals around  *)
(* the text being compiled are on ifdef_stack[], TRUE in the first branch   *)
(* and FALSE after Ifnot.  Text that is not wanted is run through by one of *)
(* two loops, one started by an If... that fails and one by an Ifnot, which *)
(* only count how deep they are (n) and stack nothing.  The module shows    *)
(* that both together do what ConditionalText promises.                     *)
(*                                                                          *)
(* A text is a sequence of directives; what is no conditional is a Constant *)
(* that defines a name.  IFV3, IFV5, IFTRUE and IFFALSE differ from IFDEF   *)
(* and IFNDEF in the condition alone.                                       *)
(***************************************************************************)
EXTENDS Naturals, Sequences

CONSTANTS MaxIfdefStack,   \* MAX_IFDEF_STACK
          ConditionalTexts            \* the texts

VARIABLES
  text, at,      \* the source and how much of it was read
  ifdef_stack,   \* ifdef_stack[], ifdef_sp is its length
  n,             \* the counter of the loops, 0 outside
  loop,          \* which of them runs: "if", "ifnot" or "none"
  defined,       \* the names whose symbols are not UNKNOWN_SFLAG
  compiled,      \* the directives obeyed, by place
  errors, ended

conditionalVars == <<text, at, ifdef_stack, n, loop, defined, compiled, errors, ended>>

Top == ifdef_stack[Len(ifdef_stack)]
Popped == SubSeq(ifdef_stack, 1, Len(ifdef_stack) - 1)

InFirstBranch == ifdef_stack # <<>> /\ Top

Reads(kinds) ==
  /\ ~ended /\ at < Len(text) /\ text[at + 1].kind \in kinds
  /\ at' = at + 1
  /\ UNCHANGED <<text, ended>>

Error == errors' = TRUE

(* HashIfCondition, once the condition is known.                            *)
HashIfCondition(flag) ==
  \/ /\ Len(ifdef_stack) >= MaxIfdefStack
     /\ Error
     /\ UNCHANGED <<ifdef_stack, n, loop>>
  \/ /\ Len(ifdef_stack) < MaxIfdefStack /\ flag
     /\ ifdef_stack' = Append(ifdef_stack, TRUE)
     /\ UNCHANGED <<n, loop, errors>>
  \/ /\ Len(ifdef_stack) < MaxIfdefStack /\ ~flag
     /\ n' = 1 /\ loop' = "if"
     /\ UNCHANGED <<ifdef_stack, errors>>

Condition(item) == (item.name \in defined) = (item.kind = "ifdef")

IfDirective ==
  /\ loop = "none" /\ Reads({"ifdef", "ifndef"})
  /\ HashIfCondition(Condition(text[at + 1]))
  /\ UNCHANGED <<defined, compiled>>

IfnotDirective ==
  /\ loop = "none" /\ Reads({"ifnot"})
  /\ \/ /\ ~InFirstBranch
        /\ Error
        /\ UNCHANGED <<n, loop>>
     \/ /\ InFirstBranch
        /\ n' = 1 /\ loop' = "ifnot"
        /\ UNCHANGED errors
  /\ UNCHANGED <<ifdef_stack, defined, compiled>>

EndifDirective ==
  /\ loop = "none" /\ Reads({"endif"})
  /\ \/ ifdef_stack = <<>> /\ Error /\ UNCHANGED ifdef_stack
     \/ ifdef_stack # <<>> /\ ifdef_stack' = Popped /\ UNCHANGED errors
  /\ UNCHANGED <<n, loop, defined, compiled>>

OtherDirective ==
  /\ loop = "none" /\ Reads({"constant"})
  /\ defined' = defined \cup {text[at + 1].name}
  /\ compiled' = compiled \cup {at + 1}
  /\ UNCHANGED <<ifdef_stack, n, loop, errors>>

(* Where the loops stop: the If... loop also at its own Ifnot, whose branch *)
(* is compiled; the Ifnot loop takes its conditional off the stack.         *)
Resume(stack) == n' = 0 /\ loop' = "none" /\ ifdef_stack' = stack

(* Bug: the branch after Ifnot is not stacked.                              *)
SkippedIfnotBug ==
  IF loop = "if" /\ n = 1 THEN Resume(ifdef_stack) /\ UNCHANGED errors
  ELSE /\ IF loop = "ifnot" /\ n = 1 THEN Error ELSE UNCHANGED errors
       /\ UNCHANGED <<ifdef_stack, n, loop>>

SkippedIfnot ==
  \/ loop = "if" /\ n = 1 /\ Resume(Append(ifdef_stack, FALSE)) /\ UNCHANGED errors
  \/ loop = "ifnot" /\ n = 1 /\ Error /\ UNCHANGED <<ifdef_stack, n, loop>>
  \/ n > 1 /\ UNCHANGED <<ifdef_stack, n, loop, errors>>

SkippedEndif ==
  \/ n > 1 /\ n' = n - 1 /\ UNCHANGED <<ifdef_stack, loop>>
  \/ n = 1 /\ Resume(IF loop = "ifnot" THEN Popped ELSE ifdef_stack)

Skip ==
  /\ loop # "none"
  /\ \/ Reads({"ifdef", "ifndef"}) /\ n' = n + 1 /\ UNCHANGED <<ifdef_stack, loop, errors>>
     \/ Reads({"ifnot"}) /\ SkippedIfnot
     \/ Reads({"endif"}) /\ SkippedEndif /\ UNCHANGED errors
     \/ Reads({"constant"}) /\ UNCHANGED <<ifdef_stack, n, loop, errors>>
  /\ UNCHANGED <<defined, compiled>>

(* The end of the file is an error only inside the loops.                   *)
EndOfFile ==
  /\ ~ended /\ at = Len(text)
  /\ ended' = TRUE
  /\ IF loop # "none" THEN Error ELSE UNCHANGED errors
  /\ UNCHANGED <<text, at, ifdef_stack, n, loop, defined, compiled>>

ConditionalInit ==
  /\ text \in ConditionalTexts /\ at = 0
  /\ ifdef_stack = <<>> /\ n = 0 /\ loop = "none"
  /\ defined = {} /\ compiled = {} /\ errors = FALSE /\ ended = FALSE

ConditionalNext == IfDirective \/ IfnotDirective \/ EndifDirective \/ OtherDirective \/ Skip \/ EndOfFile

ConditionalSpec == ConditionalInit /\ [][ConditionalNext]_conditionalVars

------------------------------------------------------------------------------
(* The branches that stack and counter stand for.                           *)
Branches(stack) == [k \in DOMAIN stack |-> IF stack[k] THEN "if" ELSE "else"]
Frames ==
  CASE loop = "none"  -> Branches(ifdef_stack)
    [] loop = "if"    -> Branches(ifdef_stack) \o [k \in 1..n |-> IF k = 1 THEN "unless" ELSE "dead"]
    [] loop = "ifnot" -> Branches(Popped) \o [k \in 1..n |-> IF k = 1 THEN "over" ELSE "dead"]

Promise == INSTANCE ConditionalText WITH
  MaxNesting <- MaxIfdefStack, frames <- Frames,
  status <- IF errors THEN "refused" ELSE IF ended THEN "done" ELSE "reading"

(* The stack and the counting loops of the code do what ConditionalText     *)
(* promises, however deep the conditionals nest in wanted and unwanted text *)
(* and wherever an Ifnot or Endif is missing or too many (directs.c:506).   *)
ChoosesBranches == Promise!Spec
==============================================================================
