------------------------------- MODULE Veneer -------------------------------
(***************************************************************************)
(* compile_veneer: at the end of the program, the veneer routines that were *)
(* called for are compiled, unless the program has routines of their names. *)
(* Compiling one may call for others, before or after it in the table; the  *)
(* sweep over the table is repeated until nothing is left.  When lowering   *)
(* is deferred, a routine has no address before all are emitted at the end, *)
(* and the addresses of the veneer are read again.                          *)
(*                                                                          *)
(* The program is reduced to what it leaves behind: the veneer routines its *)
(* code calls and the definitions it has under veneer names.  An address is *)
(* the place among the routines emitted, 0 before it is known.              *)
(***************************************************************************)
EXTENDS VeneerTexts, Naturals, FiniteSetsExt

CONSTANTS
  MaxCalls,         \* bound: veneer routines that the program itself calls
  OwnNames          \* bound: the veneer names it may define, as a routine or a constant

VARIABLES
  program,   \* [glulx, strict, deferred, calls, own]: own is a function from names to types
  stage,     \* "parse", "veneer", "emit", "done"
  needs,     \* veneer_routine_needs_compilation[]
  address,   \* veneer_routine_address[]
  symbols,   \* the veneer names, with type and value
  stash,     \* deferred_routines[] not emitted yet
  pc,        \* the routines in the code area
  sweep,     \* i and try_veneer_again of the loop
  compiled,  \* history: the veneer texts compiled
  operands,  \* history: the veneer routines that compiled code calls by number
  errors

vars == <<program, stage, needs, address, symbols, stash, pc, sweep, compiled, operands, errors>>

Table == Routines(program.glulx)
Names == {Table[k] : k \in DOMAIN Table}
Unknown == [type |-> "unknown", value |-> 0]

\* mark_as_needed: a routine called for the first time calls for others in
\* turn; what one that was called for before does is called for already.
MarkAsNeeded(rs) ==
  [r \in Names |-> IF needs[r] = "unused" /\ \E s \in rs : r \in Asked[program.glulx][s]
                   THEN "called" ELSE needs[r]]

Call(rs) ==
  /\ needs' = MarkAsNeeded(rs)
  /\ operands' = operands \cup rs

\* assemble_routine_header and assemble_routine_end: the routine goes to the
\* code area, or waits.
Assembled(r) ==
  IF program.deferred
  THEN /\ symbols' = [symbols EXCEPT ![r] = [type |-> "routine", value |-> 0]]
       /\ stash' = Append(stash, r)
       /\ UNCHANGED pc
  ELSE /\ symbols' = [symbols EXCEPT ![r] = [type |-> "routine", value |-> pc + 1]]
       /\ pc' = pc + 1
       /\ UNCHANGED stash

------------------------------------------------------------------------------
\* What the program may define under at most one of the names.  A Glulx
\* program with an RT__Err of its own is left out: the texts of RT__ChG and
\* RT__ChGt name Z__Region, which is then called for by nothing.
Definitions(glulx) ==
  {<<>>} \cup {r :> type : r \in IF glulx THEN OwnNames \ {"RT__Err"} ELSE OwnNames,
                         type \in {"routine", "constant"}}

Init ==
  \E glulx \in BOOLEAN, strict \in BOOLEAN, deferred \in BOOLEAN :
    \E own \in Definitions(glulx),
       calls \in {{}} \cup {{c, d} : c, d \in Callable(glulx, strict)} :
      /\ Cardinality(calls) <= MaxCalls
      /\ deferred => glulx
      /\ program = [glulx |-> glulx, strict |-> strict, deferred |-> deferred,
                    calls |-> calls, own |-> own]
      /\ needs = [r \in Names |-> "unused"]
      /\ address = [r \in Names |-> 0]
      /\ symbols = [r \in Names |-> Unknown]
      /\ stage = "parse" /\ stash = <<>> /\ pc = 0 /\ sweep = [at |-> 1, again |-> FALSE]
      /\ compiled = {} /\ operands = {} /\ errors = {}

\* parse_program, as far as the veneer is concerned.
ParseProgram ==
  /\ stage = "parse"
  /\ Call(program.calls)
  /\ \/ program.own = <<>> /\ UNCHANGED <<symbols, stash, pc>>
     \/ \E r \in DOMAIN program.own :
          \/ program.own[r] = "routine" /\ Assembled(r)
          \/ /\ program.own[r] # "routine"
             /\ symbols' = [symbols EXCEPT ![r] = [type |-> program.own[r], value |-> 1]]
             /\ UNCHANGED <<stash, pc>>
  /\ stage' = "veneer"
  /\ UNCHANGED <<program, address, sweep, compiled, errors>>

------------------------------------------------------------------------------
\* Where the sweep finds the next routine called for, if it does.
Found == {k \in sweep.at .. Len(Table) : needs[Table[k]] = "called"}

\* parse_routine in veneer mode, and what follows it.  The constructs of the
\* text are compiled while the routine itself still counts as called.
CompileText(r) ==
  /\ symbols[r].type = "unknown"
  /\ LET called == Constructs(program.glulx, program.strict, r) IN
     /\ needs' = [MarkAsNeeded(called) EXCEPT ![r] = "compiled"]
     /\ operands' = operands \cup called
  /\ Assembled(r)
  /\ compiled' = compiled \cup {r}
  /\ UNCHANGED errors

\* Bug: what the program has stays called for.
UseOwnBug(r) ==
  /\ symbols[r].type # "unknown"
  /\ errors' = IF symbols[r].type = "routine" THEN errors ELSE errors \cup {r}
  /\ UNCHANGED <<needs, symbols, stash, pc, compiled, operands>>

\* The program has the name: its routine takes the place of the veneer's.
UseOwn(r) ==
  /\ symbols[r].type # "unknown"
  /\ errors' = IF symbols[r].type = "routine" THEN errors ELSE errors \cup {r}
  /\ needs' = [needs EXCEPT ![r] = "compiled"]
  /\ UNCHANGED <<symbols, stash, pc, compiled, operands>>

\* Bug: the sweep is not repeated for what was called for behind it.
AfterBug(k) == sweep' = [at |-> k + 1, again |-> FALSE]
After(k) == sweep' = [at |-> k + 1, again |-> TRUE]

CompileNext ==
  /\ stage = "veneer" /\ Found # {}
  /\ LET k == Min(Found) IN
     /\ CompileText(Table[k]) \/ UseOwn(Table[k])
     /\ address' = [address EXCEPT ![Table[k]] = symbols'[Table[k]].value]
     /\ After(k)
  /\ UNCHANGED <<program, stage>>

EndOfSweep ==
  /\ stage = "veneer" /\ Found = {}
  /\ \/ sweep.again /\ sweep' = [at |-> 1, again |-> FALSE] /\ UNCHANGED stage
     \/ ~sweep.again /\ stage' = "emit" /\ UNCHANGED sweep
  /\ UNCHANGED <<program, needs, address, symbols, stash, pc, compiled, operands, errors>>

\* emit_deferred_routines, one routine.
EmitDeferred ==
  /\ stage = "emit" /\ stash # <<>>
  /\ symbols' = [symbols EXCEPT ![Head(stash)].value = pc + 1]
  /\ pc' = pc + 1
  /\ stash' = Tail(stash)
  /\ UNCHANGED <<program, stage, needs, address, sweep, compiled, operands, errors>>

\* Bug: a routine of the program's own is not read again.
RefreshedBug == [r \in Names |-> IF r \in compiled THEN symbols[r].value ELSE address[r]]
Refreshed == [r \in Names |-> IF needs[r] = "compiled" THEN symbols[r].value ELSE address[r]]

\* veneer_backpatch_addresses, when lowering was deferred.
Finish ==
  /\ stage = "emit" /\ stash = <<>>
  /\ address' = IF program.deferred THEN Refreshed ELSE address
  /\ stage' = "done"
  /\ UNCHANGED <<program, needs, symbols, stash, pc, sweep, compiled, operands, errors>>

Next == ParseProgram \/ CompileNext \/ EndOfSweep \/ EmitDeferred \/ Finish

Spec == Init /\ [][Next]_vars

------------------------------------------------------------------------------
\* Every veneer routine that compiled code calls by number was compiled, or
\* is the program's own, and the number leads to where it came to be.
Linked ==
  \A r \in operands :
    /\ needs[r] = "compiled"
    /\ r \notin errors => symbols[r].type = "routine" /\ address[r] = symbols[r].value /\ address[r] > 0

\* Nothing is in the story file that nothing asks for.
NothingIdle == \A r \in compiled : \E c \in operands : r \in Asked[program.glulx][c]

\* Every name in a text compiled is defined: mark_as_needed has called for
\* it ("each routine must mark every veneer routine it explicitly calls as
\* needed", veneer.c:2012).
NamesDefined ==
  \A r \in compiled : \A n \in Mentions(program.glulx, r) : symbols[n].type # "unknown"

(* When the loop of compile_veneer comes to an end, all that was called for *)
(* is linked, and nothing else is there.                                    *)
VeneerLinked == stage = "done" => Linked /\ NothingIdle /\ NamesDefined

(* And it does come to an end, however the routines call for each other:    *)
(* each step compiles one more, ends a sweep that did, or comes nearer the  *)
(* end of the last (veneer.c:2421).                                         *)
Left == Cardinality({r \in Names : needs[r] # "compiled"})
LoopEnds ==
  stage = "veneer" =>
    \/ stage' = "emit"
    \/ Left' < Left
    \/ Left' = Left /\ sweep.again /\ ~sweep'.again
==============================================================================
