------------------------------ MODULE MCRoutines -----------------------------
(* The ways of a routine through the compiler after the parser has read it, *)
(* each on instance data of its own: capture, stash and emission            *)
(* (RoutinePipeline), capture and replay of its instructions beside an      *)
(* eager encoder (ShadowReplay), and the removal of the unused ones         *)
(* (DeadRoutines).  A behaviour takes one of them, its part, and leaves the *)
(* variables of the others as they began.                                   *)
EXTENDS RoutinePipeline, ShadowReplay, DeadRoutines, TLC

CONSTANTS Parts, X, OldX, Foo, Goo

VARIABLES part

mcVars == <<part, vars, replayVars, deadVars>>

\* A routine X under "Replace X OldX", which the source may define any number
\* of times, beside Main__ and one routine more.
MCRename == [x \in {X} |-> OldX]
------------------------------------------------------------------------------
InitPipeline ==
  \/ part = "pipeline" /\ Init
  \/ /\ part # "pipeline"
     /\ mode = <<>> /\ infix = FALSE /\ cur = <<>> /\ direct = "inactive" /\ next = 0
     /\ phase = "parse" /\ open = FALSE /\ actions = <<>> /\ stash = <<>>
     /\ latch = FALSE /\ code = <<>> /\ value = <<>> /\ errors = 0 /\ grammar = <<>> /\ defs = <<>>

InitReplay ==
  /\ ReplayInit
  /\ part # "replay" => ~deferred

InitDead ==
  /\ DeadInit
  /\ part # "dead" => ~glulx

MCInit ==
  /\ part \in Parts
  /\ InitPipeline
  /\ InitReplay
  /\ InitDead

MCNext ==
  \/ part = "pipeline" /\ Next /\ UNCHANGED <<part, replayVars, deadVars>>
  \/ part = "replay" /\ ReplayNext /\ UNCHANGED <<part, vars, deadVars>>
  \/ part = "dead" /\ DeadNext /\ UNCHANGED <<part, vars, replayVars>>

MCSpec == MCInit /\ [][MCNext]_mcVars
------------------------------------------------------------------------------
(* The state of each part is well formed; see the TypeOK of each.           *)
TypesOK ==
  /\ part = "pipeline" => TypeOK
  /\ ReplayTypeOK
  /\ DeadTypeOK

\* Two names besides Main, interchangeable.
NamesAlike == Permutations({Foo, Goo})
=============================================================================
