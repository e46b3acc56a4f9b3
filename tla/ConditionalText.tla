--------------------------- MODULE ConditionalText ---------------------------
(***************************************************************************)
(* What conditional compilation promises: a text nests Ifdef ... Ifnot ...  *)
(* Endif to any depth, and of it exactly those lines are compiled that lie  *)
(* in the chosen branch of every If... around them.  A condition is judged  *)
(* where it stands, and only if it would be compiled itself.  A text that   *)
(* does not nest is refused; after that nothing is promised.                *)
(***************************************************************************)
EXTENDS Naturals, Sequences

CONSTANT MaxNesting   \* how many conditionals may be open around compiled text

VARIABLES
  text,       \* the items: [kind, name], kind "ifdef", "ifndef", "ifnot", "endif" or "constant"
  at,         \* how many have been read
  frames,     \* one per open conditional: the branch that stands here
  defined,    \* the names defined by compiled lines
  compiled,   \* the compiled lines, by their places in the text
  status      \* "reading", "done" or "refused"

vars == <<text, at, frames, defined, compiled, status>>

(* "if": the first branch, chosen; "else": the second, chosen; "unless": the *)
(* first, not chosen; "over": the second, not chosen; "dead": inside a       *)
(* branch that is not chosen.                                                *)
Live == \A k \in DOMAIN frames : frames[k] \in {"if", "else"}
Top == frames[Len(frames)]
Below == SubSeq(frames, 1, Len(frames) - 1)

Refuse == status' = "refused"

If(kind, name) ==
  \/ /\ ~Live
     /\ frames' = Append(frames, "dead")
     /\ UNCHANGED <<defined, compiled, status>>
  \/ /\ Live /\ Len(frames) < MaxNesting
     /\ frames' = Append(frames, IF (name \in defined) = (kind = "ifdef") THEN "if" ELSE "unless")
     /\ UNCHANGED <<defined, compiled, status>>
  \/ Live /\ Len(frames) >= MaxNesting /\ Refuse

Ifnot ==
  \/ frames = <<>> /\ Refuse
  \/ frames # <<>> /\ Top \in {"else", "over"} /\ Refuse
  \/ /\ frames # <<>> /\ Top \in {"if", "unless", "dead"}
     /\ frames' = Append(Below, CASE Top = "if" -> "over" [] Top = "unless" -> "else"
                                  [] Top = "dead" -> "dead")
     /\ UNCHANGED <<defined, compiled, status>>

Endif ==
  \/ frames = <<>> /\ Refuse
  \/ frames # <<>> /\ frames' = Below /\ UNCHANGED <<defined, compiled, status>>

Line(name) ==
  \/ ~Live /\ UNCHANGED <<frames, defined, compiled, status>>
  \/ /\ Live
     /\ compiled' = compiled \cup {at + 1}
     /\ defined' = defined \cup {name}
     /\ UNCHANGED <<frames, status>>

Read ==
  /\ status = "reading" /\ at < Len(text)
  /\ at' = at + 1
  /\ LET item == text[at + 1] IN
       CASE item.kind \in {"ifdef", "ifndef"} -> If(item.kind, item.name)
         [] item.kind = "ifnot" -> Ifnot
         [] item.kind = "endif" -> Endif
         [] OTHER -> Line(item.name)
  /\ UNCHANGED text

(* The text may end inside a conditional, but not inside a branch that is   *)
(* not chosen.                                                              *)
End ==
  /\ status = "reading" /\ at = Len(text)
  /\ status' = IF Live THEN "done" ELSE "refused"
  /\ UNCHANGED <<text, at, frames, defined, compiled>>

Refused == status = "refused" /\ status' = "refused" /\ text' = text

Init ==
  /\ at = 0 /\ frames = <<>> /\ defined = {} /\ compiled = {} /\ status = "reading"

Next == Read \/ End \/ Refused

Spec == Init /\ [][Next]_vars
==============================================================================
