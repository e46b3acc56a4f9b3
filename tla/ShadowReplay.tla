---------------------------- MODULE ShadowReplay ----------------------------
(***************************************************************************)
(* The same source assembled twice: "eager", every instruction encoded as  *)
(* it is parsed, and "cap", the instructions captured as a stream of       *)
(* events that the encoder replays when the routine ends, or, under        *)
(* deferred lowering, when the pass ends.  Both use one set of functions,  *)
(* assembleg_instruction, assemble_label_no and so on, which test          *)
(* capturing and replaying; a compile runs one of the two, and the module  *)
(* asks whether it matters which.  Replaying takes one step an event; no   *)
(* source is read meanwhile.                                               *)
(*                                                                         *)
(* The label table outlives the routine, as labels[] does: alloc_label     *)
(* alone clears an entry.  A source whose labels are not all defined ends  *)
(* in an error either way and is left out.                                 *)
(***************************************************************************)
EXTENDS Integers, Sequences

CONSTANTS
  Kinds,       \* the instructions the source uses
  MaxLabels,   \* bound: labels of one routine
  MaxReplayed, \* bound: routines
  MaxSteps,    \* bound: source steps, over all the routines
  MaxDepth,    \* bound: nesting
  StripUnreachableLabels

ASSUME ReplayAssumption ==
  /\ Kinds \subseteq {"plain", "return", "jump", "branch"}
  /\ {MaxLabels, MaxReplayed, MaxSteps, MaxDepth} \subseteq Nat
  /\ StripUnreachableLabels \in BOOLEAN

Labels  == 1 .. MaxLabels
NoLabel == 0
Flags   == {"UNREACHABLE", "ENTIRE", "NOWARN"}

VARIABLES
  deferred, \* deferred_lowering_latch
  eager,   \* the encoder of a compile that captures nothing
  cap,     \* the encoder of a compile that captures and replays
  frames,  \* the open "if" statements
  user,    \* the labels of this routine the source names
  placed,  \* those of them the source has defined
  streams, \* deferred_routines
  at,      \* the event the replay comes to next
  outE,    \* the routines eager has transferred to the code area
  outC,    \* the routines cap has transferred
  steps,   \* source steps taken
  ended    \* the parse is over

replayVars == <<deferred, eager, cap, frames, user, placed, streams, at, outE, outC, steps, ended>>

InitEnc(mode) ==
  [ mode   |-> mode,                   \* "encode", "capture" or "replay"
    exec   |-> {},                     \* execution_never_reaches_here
    next   |-> 0,                      \* next_label
    offset |-> [l \in Labels |-> -1],  \* labels[].offset
    use    |-> [l \in Labels |-> 0],   \* labeluse[]
    code   |-> <<>>,                   \* zcode_holding_area
    events |-> <<>>,                   \* cur_emit.events
    fatal  |-> FALSE ]

Capturing(e) == e.mode = "capture"

AllocLabel(e) == [e EXCEPT !.next = @ + 1, !.offset[e.next + 1] = -1]

SetLabelOffset(e, l, offset) ==
  IF l > e.next THEN [e EXCEPT !.fatal = TRUE] ELSE [e EXCEPT !.offset[l] = offset]

CountUse(use, l) == IF l = NoLabel THEN use ELSE [use EXCEPT ![l] = @ + 1]

\* Mutated forms, named ...Bug, stand before the definitions they would replace.
NoteInstructionBug(e, op, l) ==  \* leaves the branch to the encoder
  [e EXCEPT !.exec = IF op \in {"return", "jump"} THEN {"UNREACHABLE"} ELSE {},
            !.use = IF Capturing(e) THEN @ ELSE CountUse(e.use, l)]

\* What the parser sees of an instruction, encoded or not.
NoteInstruction(e, op, l) ==
  [e EXCEPT !.exec = IF op \in {"return", "jump"} THEN {"UNREACHABLE"} ELSE {},
            !.use = CountUse(e.use, l)]

CaptureInstruction(e, op, l) ==
  [e EXCEPT !.events = Append(@, [kind |-> "instruction", op |-> op, label |-> l,
                                  exec |-> e.exec])]

AssembleBug(e, op, l) ==  \* stores the event after the bookkeeping
  IF e.exec # {}
    THEN [e EXCEPT !.exec = @ \cup {"NOWARN"}]
    ELSE IF Capturing(e)
           THEN CaptureInstruction(NoteInstruction(e, op, l), op, l)
           ELSE [NoteInstruction(e, op, l) EXCEPT
                   !.code = Append(@, [op |-> op, label |-> l])]

Assemble(e, op, l) ==
  IF e.exec # {}
    THEN [e EXCEPT !.exec = @ \cup {"NOWARN"}]
    ELSE IF Capturing(e)
           THEN NoteInstruction(CaptureInstruction(e, op, l), op, l)
           ELSE [NoteInstruction(e, op, l) EXCEPT
                   !.code = Append(@, [op |-> op, label |-> l])]

Stripped(e, l) ==
  StripUnreachableLabels /\ "ENTIRE" \in e.exec /\ e.use[l] = 0

CaptureLabel(e, l) ==
  [e EXCEPT !.events = Append(@, [kind |-> "label", op |-> "plain", label |-> l,
                                  exec |-> e.exec \ {"ENTIRE"}])]

AssembleLabelBug(e, l) ==  \* captures before the strip check
  LET e1 == IF Capturing(e) THEN CaptureLabel(e, l) ELSE e
  IN  IF Stripped(e, l) THEN SetLabelOffset(e1, l, -1)
      ELSE [(IF Capturing(e) THEN e1 ELSE SetLabelOffset(e, l, Len(e.code)))
              EXCEPT !.exec = {}]

AssembleLabel(e, l) ==
  IF Stripped(e, l)
    THEN SetLabelOffset(e, l, -1)
    ELSE [(IF Capturing(e) THEN CaptureLabel(e, l) ELSE SetLabelOffset(e, l, Len(e.code)))
            EXCEPT !.exec = {}]

AssembleForwardLabel(e, l) ==
  IF e.use[l] > 0 THEN AssembleLabel(e, l) ELSE SetLabelOffset(e, l, -1)

Enter(e) == IF e.exec = {} THEN e ELSE [e EXCEPT !.exec = @ \cup {"ENTIRE"}]

Leave(e, saved) ==
  [e EXCEPT !.exec = IF saved THEN @ \cup {"ENTIRE"} ELSE @ \ {"ENTIRE"}]

-----------------------------------------------------------------------------
(* Replay and transfer.                                                    *)

ReplayEvent(e, ev) ==
  LET e1 == [e EXCEPT !.exec = ev.exec]
  IN  IF ev.kind = "label" THEN AssembleLabel(e1, ev.label)
      ELSE Assemble(e1, ev.op, ev.label)

BeginReplayBug(e) == [e EXCEPT !.mode = "replay"]  \* the counts of the parse stay

BeginReplay(e) == [e EXCEPT !.mode = "replay", !.use = [l \in Labels |-> 0]]

\* transfer_routine_g: a branch to a label of negative offset is an error.
Target(e, i) == IF e.code[i].label = NoLabel THEN 0 ELSE e.offset[e.code[i].label]

TransferredCode(e) ==
  [ code   |-> [i \in DOMAIN e.code |-> [op |-> e.code[i].op, target |-> Target(e, i)]],
    use    |-> e.use,
    errors |-> {i \in DOMAIN e.code : Target(e, i) < 0} ]

Reset(e) ==
  [e EXCEPT !.exec = {}, !.next = 0, !.use = [l \in Labels |-> 0],
            !.code = <<>>, !.events = <<>>]

-----------------------------------------------------------------------------
ReplayInit ==
  /\ deferred \in BOOLEAN
  /\ eager = InitEnc("encode")
  /\ cap = InitEnc("capture")
  /\ frames = <<>>
  /\ user = {} /\ placed = {}
  /\ streams = <<>> /\ at = 0 /\ outE = <<>> /\ outC = <<>>
  /\ steps = 0
  /\ ended = FALSE

Step ==
  /\ ~ended /\ Capturing(cap)
  /\ steps < MaxSteps
  /\ steps' = steps + 1

Both(E(_)) == eager' = E(eager) /\ cap' = E(cap)

Statement(e, op, l) == Leave(Assemble(Enter(e), op, l), "ENTIRE" \in e.exec)

PlainStatement(op) ==
  LET E(e) == Statement(e, op, NoLabel)
  IN  /\ Step /\ op \in {"plain", "return"}
      /\ Both(E)
      /\ UNCHANGED <<deferred, frames, user, placed, streams, at, outE, outC, ended>>

\* "jump X", or an assembly branch "?X", to a label already named or to a new one.
BranchStatement(op, l) ==
  LET E(e) == IF l \in user THEN Statement(e, op, l) ELSE Statement(AllocLabel(e), op, l)
  IN  /\ Step /\ op \in {"jump", "branch"}
      /\ l \in user \/ l = eager.next + 1
      /\ Both(E)
      /\ user' = user \cup {l}
      /\ UNCHANGED <<deferred, frames, placed, streams, at, outE, outC, ended>>

LabelStatement(l) ==
  LET E(e) == IF l \in user THEN AssembleLabel(e, l) ELSE AssembleLabel(AllocLabel(e), l)
  IN  /\ Step
      /\ l \in user \ placed \/ l = eager.next + 1
      /\ Both(E)
      /\ user' = user \cup {l}
      /\ placed' = placed \cup {l}
      /\ UNCHANGED <<deferred, frames, streams, at, outE, outC, ended>>

\* "if (c) {"
OpenIf ==
  LET l == eager.next + 1
      E(e) == Enter(Enter(Assemble(Enter(AllocLabel(e)), "branch", l)))
  IN  /\ Step
      /\ Len(frames) < MaxDepth
      /\ l \in Labels
      /\ frames' = Append(frames, [label |-> l, stmt |-> "ENTIRE" \in eager.exec,
                                   block |-> "ENTIRE" \in Enter(eager).exec])
      /\ Both(E)
      /\ UNCHANGED <<deferred, user, placed, streams, at, outE, outC, ended>>

\* "}"
CloseIf ==
  LET f == frames[Len(frames)]
      E(e) == Leave(AssembleForwardLabel(Leave(e, f.block), f.label), f.stmt)
  IN  /\ Step
      /\ frames # <<>>
      /\ frames' = SubSeq(frames, 1, Len(frames) - 1)
      /\ Both(E)
      /\ UNCHANGED <<deferred, user, placed, streams, at, outE, outC, ended>>

ImplicitReturn(e) == IF e.exec = {} THEN Assemble(e, "return", NoLabel) ELSE e

EndRoutine ==
  LET e == ImplicitReturn(eager)
      c == ImplicitReturn(cap)
  IN  /\ ~ended /\ Capturing(cap) /\ frames = <<>> /\ user = placed
      /\ Len(outE) < MaxReplayed
      /\ outE' = Append(outE, TransferredCode(e))
      /\ eager' = Reset(e)
      /\ IF deferred
           THEN /\ streams' = Append(streams, [events |-> c.events, next |-> c.next])
                /\ cap' = Reset(c)
                /\ UNCHANGED at
           ELSE /\ cap' = BeginReplay(c)
                /\ at' = 1
                /\ UNCHANGED streams
      /\ user' = {} /\ placed' = {}
      /\ UNCHANGED <<deferred, frames, outC, steps, ended>>

\* One turn of the loop of llvm_replay_routine.
ReplayStep ==
  /\ ~Capturing(cap) /\ at \in DOMAIN cap.events
  /\ cap' = ReplayEvent(cap, cap.events[at])
  /\ at' = at + 1
  /\ UNCHANGED <<deferred, eager, frames, user, placed, streams, outE, outC, steps, ended>>

EndReplay ==
  /\ ~Capturing(cap) /\ at \notin DOMAIN cap.events
  /\ outC' = Append(outC, TransferredCode(cap))
  /\ cap' = [Reset(cap) EXCEPT !.mode = "capture"]
  /\ at' = 0
  /\ UNCHANGED <<deferred, eager, frames, user, placed, streams, outE, steps, ended>>

EndSource ==
  /\ ~ended /\ Capturing(cap) /\ eager.code = <<>>
  /\ steps = MaxSteps \/ Len(outE) = MaxReplayed
  /\ user = {} /\ frames = <<>>
  /\ ended' = TRUE
  /\ UNCHANGED <<deferred, eager, cap, frames, user, placed, streams, at, outE, outC, steps>>

RestoreBug(e, d) == [Reset(e) EXCEPT !.events = d.events]  \* next_label left at 0

Restore(e, d) == [Reset(e) EXCEPT !.events = d.events, !.next = d.next]

\* One turn of the loop of emit_deferred_routines, up to the replay, for a
\* routine of which no direct IR was retained.
EmitDeferred ==
  /\ ended /\ deferred /\ Capturing(cap)
  /\ Len(outC) < Len(streams)
  /\ cap' = BeginReplay(Restore(cap, streams[Len(outC) + 1]))
  /\ at' = 1
  /\ UNCHANGED <<deferred, eager, frames, user, placed, streams, outE, outC, steps, ended>>

ReplayNext ==
  \/ \E op \in Kinds : PlainStatement(op)
  \/ \E op \in Kinds, l \in Labels : BranchStatement(op, l)
  \/ \E l \in Labels : LabelStatement(l)
  \/ OpenIf
  \/ CloseIf
  \/ EndRoutine
  \/ ReplayStep
  \/ EndReplay
  \/ EndSource
  \/ EmitDeferred

ReplaySpec == ReplayInit /\ [][ReplayNext]_replayVars

-----------------------------------------------------------------------------
(* Properties.                                                             *)

\* The types, and that no offset is set for a label of a higher number than
\* the routine has allocated ("Called set_label_offset on unallocated label").
ReplayTypeOK ==
  /\ \A e \in {eager, cap} :
       /\ e.exec \subseteq Flags
       /\ e.next \in 0 .. MaxLabels
       /\ e.offset \in [Labels -> -1 .. MaxSteps]
       /\ ~e.fatal
  /\ user \subseteq Labels /\ placed \subseteq user

\* Capture keeps every question the parser asks of the assembler answered as
\* encoding would: can this point be reached, has this label been branched to,
\* how many labels are there (asm.c:1062).
ParserAgrees ==
  ~ended /\ Capturing(cap) =>
    cap.exec = eager.exec /\ cap.use = eager.use /\ cap.next = eager.next

\* A routine that encodes without an error is replayed to the same code, with
\* the same branch targets and the same counts of label uses, immediately or
\* at the end of the pass (asm.c:2270, 1087).  Replayed at its own end it also
\* reports the errors an encoded one does: the offsets that assemble_label_no
\* set to -1 during the parse still stand (asm.c:2210).  After the parse it may
\* not: labels[] has meanwhile been used for other routines.
ReplayIsEager ==
  \A i \in DOMAIN outC :
    /\ outE[i].errors = {} => outC[i] = outE[i]
    /\ ~deferred => outC[i].errors = outE[i].errors

=============================================================================
