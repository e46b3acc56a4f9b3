--------------------------- MODULE RoutinePipeline ---------------------------
(***************************************************************************)
(* What happens to a routine between "[ Name" and the code area: it is     *)
(* captured, its direct LLVM IR is built beside the capture, and at "]" it *)
(* is either encoded at once or stashed; stashed routines are lowered,     *)
(* addressed and emitted after the parse, and the tables that copied       *)
(* routine addresses are refreshed.  One action is one step of             *)
(* assemble_routine_header, assemble_routine_end or                        *)
(* emit_deferred_routines with every call it makes.                        *)
(*                                                                         *)
(* A routine is one unit of code, so an address is a number of routines.   *)
(* Its instructions are counted: those the parser asked for, and those     *)
(* kept where a classic emission of the routine can find them.  "defs" is  *)
(* history: the name each routine was defined under, in source order.      *)
(***************************************************************************)
EXTENDS Integers, Sequences, FiniteSets

CONSTANTS
  Names,       \* names the source defines routines under
  Main,        \* Main__, compiled first by parse_program
  Rename,      \* the "Replace X Y" directives, as a function from X to Y
  MaxRoutines, \* bound: routine definitions
  MaxAsked,    \* bound: instructions of a routine
  MaxErrors,   \* bound: errors in the source
  MaxRefs      \* bound: grammar tokens "noun=X"

ASSUME NamesAssumption ==
  /\ Main \in Names
  /\ DOMAIN Rename \subseteq Names \ {Main}
  /\ \A x \in DOMAIN Rename : Rename[x] \notin Names
  /\ \A x, y \in DOMAIN Rename : Rename[x] = Rename[y] => x = y
  /\ {MaxRoutines, MaxAsked, MaxErrors, MaxRefs} \subseteq Nat

VARIABLES
  mode,     \* the options no directive changes
  infix,    \* define_INFIX_switch
  latch,    \* deferred_lowering_latch
  phase,    \* of run_pass
  open,     \* between the header and the end of a routine
  cur,      \* cur_emit, and the instruction counts of the open routine
  direct,   \* direct_ru.state
  stash,    \* deferred_routines
  next,     \* the stashed routine emit_deferred_routines comes to next
  code,     \* the code area: the routines transferred to it
  value,    \* symbols[].value of the routine symbols
  errors,   \* no_errors
  grammar,  \* the "noun=X" tokens in grammar_lines
  actions,  \* actions[].byte_offset, for the action whose routine is X
  defs      \* history

vars == <<mode, infix, latch, phase, open, cur, direct, stash, next, code,
          value, errors, grammar, actions, defs>>

Renamed   == {Rename[x] : x \in DOMAIN Rename}
Symbols   == Names \cup Renamed
Addresses == 0 .. MaxRoutines

Modes == [ llvm    : BOOLEAN,  \* glulx_mode, LLVM_CODEGEN, available, no -k
           track   : BOOLEAN,  \* track_unused_routines
           flipped : BOOLEAN,  \* llvm_parser_writer_flipped
           shadow  : BOOLEAN ] \* llvm_shadow_enabled

Idle == [ capturing |-> FALSE, shadow |-> TRUE, started |-> FALSE,
          errors0 |-> 0, asked |-> 0, kept |-> 0 ]

Captures == mode.llvm /\ ~infix

DeferredLoweringWanted == mode.llvm /\ ~infix /\ ~mode.track

\* Mutated forms, named ...Bug, stand before the definitions they would replace.
LatchConflictBug(x) == FALSE  \* no check after a Switches directive

LatchConflict(x) == latch # (mode.llvm /\ ~x /\ ~mode.track)

IsParserWriter == mode.flipped /\ direct = "building"

PC == Len(code)  \* zmachine_pc

Init ==
  /\ mode \in Modes
  /\ infix \in BOOLEAN
  /\ latch = DeferredLoweringWanted
  /\ phase = "parse" /\ open = FALSE
  /\ cur = Idle /\ direct = "inactive"
  /\ stash = <<>> /\ next = 1 /\ code = <<>>
  /\ value = [s \in Symbols |-> 0]
  /\ errors = 0
  /\ grammar = <<>>
  /\ actions = [s \in Names |-> 0]
  /\ defs = <<>>

-----------------------------------------------------------------------------
(* While a routine is open.                                                *)

ShadowStoreBug == mode.shadow  \* keeps a stream the flip would skew

\* An empty capture whose source already has errors is kept in any case: it
\* is that routine's only output.
ShadowStore == IF errors = 0 THEN mode.shadow /\ ~mode.flipped ELSE TRUE

MayDefine(n) ==
  /\ (defs = <<>>) <=> (n = Main)
  /\ n \in DOMAIN Rename \/ \A i \in DOMAIN defs : defs[i] # n

AssembleRoutineHeader(n) ==
  /\ phase = "parse" /\ ~open
  /\ Len(defs) < MaxRoutines
  /\ MayDefine(n)
  /\ open' = TRUE
  /\ defs' = Append(defs, n)
  /\ cur' = IF Captures
              THEN [ Idle EXCEPT !.capturing = TRUE, !.shadow = ShadowStore,
                                 !.started = (errors = 0), !.errors0 = errors ]
              ELSE Idle
  /\ direct' = IF Captures /\ errors = 0 THEN "building" ELSE direct
  /\ UNCHANGED <<mode, infix, latch, phase, stash, next, code, value, errors,
                 grammar, actions>>

\* Is the instruction kept: encoded at once, or captured as an event?
Keeps == ~cur.capturing \/ (cur.shadow /\ ~IsParserWriter)

AssembleInstruction ==
  /\ open
  /\ cur.asked < MaxAsked
  /\ cur' = [cur EXCEPT !.asked = @ + 1, !.kept = IF Keeps THEN @ + 1 ELSE @]
  /\ UNCHANGED <<mode, infix, latch, phase, open, direct, stash, next, code,
                 value, errors, grammar, actions, defs>>

DirectReject ==
  /\ open /\ direct = "building"
  /\ direct' = "rejected"
  /\ UNCHANGED <<mode, infix, latch, phase, open, cur, stash, next, code,
                 value, errors, grammar, actions, defs>>

SourceError ==
  /\ phase = "parse"
  /\ errors < MaxErrors
  /\ errors' = errors + 1
  /\ UNCHANGED <<mode, infix, latch, phase, open, cur, direct, stash, next,
                 code, value, grammar, actions, defs>>

-----------------------------------------------------------------------------
(* The end of a routine.                                                   *)

\* Where direct_routine_finish or direct_routine_abandon may leave the build:
\* finish rejects a body whose blocks do not close.
Finished ==
  IF ~cur.started THEN {direct}
  ELSE IF errors # cur.errors0 THEN {"inactive"}
  ELSE IF direct = "building" THEN {"ready", "rejected"}
  ELSE {direct}

\* Verifying, optimising or lowering a finished function may fail.
MayLower(ready) == IF ready THEN BOOLEAN ELSE {FALSE}

Transferred(id, lowered, kept, asked) ==
  Append(code, [id |-> id,
                how |-> IF lowered THEN "lowered"
                        ELSE IF kept = asked THEN "whole" ELSE "part"])

\* The routine to emit has neither lowered code nor a stream to replay.
NothingToReplayBug(lowered, shadow) == FALSE

NothingToReplay(lowered, shadow) == ~lowered /\ ~shadow

Emit(id, lowered, shadow, kept, asked) ==
  /\ code' = Transferred(id, lowered,
                         IF NothingToReplay(lowered, shadow) THEN 0 ELSE kept, asked)
  /\ errors' = IF NothingToReplay(lowered, shadow) THEN errors + 1 ELSE errors

AlsoBug(y, stashed) == [stashed EXCEPT ![Len(stashed)].also = {y}]  \* any definition

\* defer_replace_original: the first definition of X also gives Y its address.
Also(y, stashed) ==
  IF value[y] # 0 \/ \E i \in DOMAIN stashed : y \in stashed[i].also
    THEN stashed
    ELSE [stashed EXCEPT ![Len(stashed)].also = {y}]

StashDeferred(n, ready) ==
  LET d == [ id |-> Len(defs), name |-> n, also |-> {}, shadow |-> cur.shadow,
             handle |-> ready, kept |-> cur.kept, asked |-> cur.asked ]
      stashed == Append(stash, d)
  IN  /\ stash' = IF n \in DOMAIN Rename THEN Also(Rename[n], stashed) ELSE stashed
      /\ value' = [value EXCEPT ![n] = PC]
      /\ UNCHANGED <<code, errors>>

AssignEagerBug(n) ==  \* the last definition of X is the one Y gets
  [value EXCEPT ![n] = PC, ![Rename[n]] = PC]

\* X gets its address; Y gets that of the first definition of X.
AssignEager(n) ==
  IF value[Rename[n]] = 0
    THEN [value EXCEPT ![n] = PC, ![Rename[n]] = PC]
    ELSE [value EXCEPT ![n] = PC]

EmitNow(n, ready) ==
  /\ \E lowered \in MayLower(cur.capturing /\ ready) :
       Emit(Len(defs), lowered, ~cur.capturing \/ cur.shadow, cur.kept, cur.asked)
  /\ value' = IF n \in DOMAIN Rename THEN AssignEager(n) ELSE [value EXCEPT ![n] = PC]
  /\ UNCHANGED stash

LeftBug(d) == IF d = "rejected" THEN d ELSE "inactive"  \* the fallback does not reset

\* llvm_pipeline_routine and llvm_retain_direct_routine leave the builder idle
\* whatever became of the build d.
Left(d) == "inactive"

AssembleRoutineEnd ==
  LET n == defs[Len(defs)]
  IN  /\ open
      /\ \E d \in Finished :
           /\ IF latch /\ cur.capturing
                THEN StashDeferred(n, d = "ready")
                ELSE EmitNow(n, d = "ready")
           /\ direct' = Left(d)
      /\ open' = FALSE
      /\ cur' = Idle
      /\ UNCHANGED <<mode, infix, latch, phase, next, grammar, actions, defs>>

-----------------------------------------------------------------------------
(* The rest of the pass.                                                   *)

\* "Switches X" or "Switches ~X", allowed after Main__ only.
SwitchesDirective(x) ==
  /\ phase = "parse" /\ ~open
  /\ Len(defs) = 1
  /\ x # infix
  /\ infix' = x
  /\ phase' = IF LatchConflict(x) THEN "fatal" ELSE phase
  /\ UNCHANGED <<mode, latch, open, cur, direct, stash, next, code, value,
                 errors, grammar, actions, defs>>

\* A grammar token that names a routine bakes in its address.
GrammarToken(n) ==
  /\ phase = "parse" /\ ~open
  /\ Len(grammar) < MaxRefs
  /\ \E i \in DOMAIN defs : defs[i] = n
  /\ grammar' = Append(grammar, [name |-> n, addr |-> value[n], at |-> Len(defs)])
  /\ UNCHANGED <<mode, infix, latch, phase, open, cur, direct, stash, next,
                 code, value, errors, actions, defs>>

EndParse ==
  /\ phase = "parse" /\ ~open /\ defs # <<>>
  /\ phase' = IF latch THEN "emit" ELSE "done"
  /\ actions' = [s \in Names |-> value[s]]
  /\ UNCHANGED <<mode, infix, latch, open, cur, direct, stash, next, code,
                 value, errors, grammar, defs>>

\* One turn of the loop of emit_deferred_routines.
EmitDeferredRoutine ==
  LET d == stash[next]
  IN  /\ phase = "emit"
      /\ next \in DOMAIN stash
      /\ value' = [s \in Symbols |-> IF s = d.name \/ s \in d.also THEN PC ELSE value[s]]
      /\ \E lowered \in MayLower(d.handle) :
           Emit(d.id, lowered, d.shadow, d.kept, d.asked)
      /\ next' = next + 1
      /\ UNCHANGED <<mode, infix, latch, phase, open, cur, direct, stash,
                     grammar, actions, defs>>

BackpatchGrammarBug == grammar  \* the placeholders stay

BackpatchGrammar == [i \in DOMAIN grammar |-> [grammar[i] EXCEPT !.addr = value[grammar[i].name]]]

\* find_the_actions(FALSE) and grammar_backpatch_routines
RefreshTables ==
  /\ phase = "emit" /\ next \notin DOMAIN stash
  /\ phase' = "done"
  /\ actions' = [s \in Names |-> value[s]]
  /\ grammar' = BackpatchGrammar
  /\ UNCHANGED <<mode, infix, latch, open, cur, direct, stash, next, code,
                 value, errors, defs>>

Next ==
  \/ \E n \in Names : AssembleRoutineHeader(n)
  \/ AssembleInstruction
  \/ DirectReject
  \/ SourceError
  \/ AssembleRoutineEnd
  \/ \E x \in BOOLEAN : SwitchesDirective(x)
  \/ \E n \in Names : GrammarToken(n)
  \/ EndParse
  \/ EmitDeferredRoutine
  \/ RefreshTables

Spec == Init /\ [][Next]_vars

-----------------------------------------------------------------------------
(* Properties.                                                             *)

\* The types, and that no direct build outlives its routine: every routine
\* ends with direct_ru.state inactive, so the next one starts clean.
TypeOK ==
  /\ mode \in Modes
  /\ {infix, latch, open} \subseteq BOOLEAN
  /\ phase \in {"parse", "emit", "done", "fatal"}
  /\ direct \in {"inactive", "building", "rejected"}
  /\ ~open => direct = "inactive"
  /\ value \in [Symbols -> Addresses]
  /\ actions \in [Names -> Addresses]
  /\ next \in 1 .. Len(stash) + 1

\* Every routine of the source reaches the code area once, and in the order of
\* the source: the latch leaves no routine in the stash of a pass that emits
\* at once, and none jumps ahead of the stash (asm.c:2270, 2276).
RoutinesInSourceOrder ==
  /\ \A i \in DOMAIN code : code[i].id = i
  /\ phase = "done" => Len(code) = Len(defs)

\* A routine emitted without all its instructions is an error: no routine is
\* replayed from a stream with holes, and none vanishes silently (asm.c:2695,
\* the fallback errors of assemble_routine_end and emit_deferred_routines).
NothingLostSilently ==
  \A i \in DOMAIN code : code[i].how = "part" => errors > 0

AddressOf(i) == i - 1
DefsOf(x) == {i \in DOMAIN defs : defs[i] = x}
FirstDef(x) == CHOOSE i \in DefsOf(x) : \A j \in DefsOf(x) : i <= j
LastDef(x)  == CHOOSE i \in DefsOf(x) : \A j \in DefsOf(x) : j <= i

\* When the pass is over each routine symbol holds the address of its last
\* definition, and Y of "Replace X Y" that of X's first (syntax.c:217).
SymbolsResolve ==
  phase = "done" =>
    \A x \in Names : DefsOf(x) # {} =>
      /\ value[x] = AddressOf(LastDef(x))
      /\ x \in DOMAIN Rename => value[Rename[x]] = AddressOf(FirstDef(x))

\* No table that copied an address during the parse keeps a placeholder: the
\* action table agrees with the symbols, and a deferred pass leaves in the
\* grammar the final address of the routine named (inform.c:1045).
TablesFresh ==
  phase = "done" =>
    /\ \A x \in Names : actions[x] = value[x]
    /\ \A i \in DOMAIN grammar : latch => grammar[i].addr = value[grammar[i].name]

=============================================================================
