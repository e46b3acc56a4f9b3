---------------------------- MODULE DeadRoutines ----------------------------
(***************************************************************************)
(* Dead routine removal ($OMIT_UNUSED_ROUTINES=1): the map of which        *)
(* routine mentions which symbol (symbols.c, df_...), the search for the   *)
(* routines in use, the backpatch table of the code area (asm.c), and the  *)
(* pass of output_file_z/g over the code area that leaves the unused       *)
(* routines out and moves every routine address (files.c, bpatch.c).       *)
(*                                                                         *)
(* A mention is noted when the LEXER looks a name up, and only while       *)
(* execution_never_reaches_here is clear; the operand is assembled later,  *)
(* perhaps behind a label that made the code reachable again.  The two     *)
(* have to agree, or a routine that is called is dropped.                  *)
(***************************************************************************)
EXTENDS Naturals, Sequences, FiniteSets, SequencesExt, FiniteSetsExt

CONSTANTS Syms,              \* names of routines, MainSym among them
          MainSym, NoSym,
          Targets,           \* glulx_mode: a set of BOOLEANs
          Strip,             \* STRIP_UNREACHABLE_LABELS
          ParenCases,        \* "(Foo):" may follow a clause that ended in a return
          TokensOfReplaced,  \* a grammar token may name a replaced routine
          Scale,             \* scale_factor
          Bank,              \* stands for 0x10000 in the backpatch table
          Banks,             \* stands for 4, the banks a marker byte can tell apart
          MaxFunctions, MaxBody, MaxData

\* An instruction that calls a routine: the opcode and the routine's address,
\* where the marker stands.
CallLength == 3
MarkerAt   == 1
OperandSize == 2
HeaderLength == 2

\* The first marker of the code area, in Main__, lies in the first bank.
ASSUME DeadAssumption ==
  /\ MainSym \in Syms /\ NoSym \notin Syms
  /\ Targets \subseteq BOOLEAN
  /\ {Strip, ParenCases, TokensOfReplaced} \subseteq BOOLEAN
  /\ {Scale, Bank, Banks, MaxFunctions} \subseteq Nat \ {0}
  /\ HeaderLength + MarkerAt < Bank
  /\ {MaxBody, MaxData} \subseteq Nat

VARIABLES
  glulx,     \* glulx_mode
  sym,       \* symbols[]
  funcs,     \* df_functions_head, without the record of the global namespace
  globals,   \* the references of the global namespace
  current,   \* df_current_function and the state of its parse
  pc,        \* zmachine_pc
  operands,  \* zcode_backpatch_table, and whom each operand names
  data,      \* the routine addresses of arrays, globals and properties
  tokens,    \* those of grammar tokens
  asked,     \* the actions
  stage,     \* how far the compile is
  err,       \* errors reported
  used,      \* the functions with usage flags
  todo,      \* those of them not processed yet
  newaddr,   \* newaddress of the functions measured so far
  total,     \* df_total_size_before_stripping and _after_stripping
  out        \* the output of the code area

deadVars == <<glulx, sym, funcs, globals, current, pc, operands, data, tokens,
          asked, stage, err, used, todo, newaddr, total, out>>
source == <<glulx, sym, funcs, globals, current, pc, operands, data, tokens, asked>>

\* Bug: The routine is not padded to a packed address.
AlignBug(n) == n

\* A routine of the Z-machine starts at a packed address.
Align(n) == IF glulx THEN n ELSE ((n + Scale - 1) \div Scale) * Scale

------------------------------------------------------------------------------
(* Looking a name up.                                                      *)

\* df_note_function_symbol: only a routine, or a name not yet known.
Notes(s) == sym[s].type \in {"routine", "unknown"}

\* The marker and value parse_expression gives a routine name.
Operand(s) ==
  IF sym[s].type = "zero" THEN [marker |-> "none", value |-> 0]
  ELSE IF sym[s].type = "unknown" \/ sym[s].replaced \/ glulx THEN [marker |-> "symbol", value |-> s]
  ELSE [marker |-> "routine", value |-> sym[s].value]

\* Every lookup in the routine being compiled, while code is reachable.
Mention(o, s) == IF o.reach /\ Notes(s) THEN [o EXCEPT !.refs = @ \cup {s}] ELSE o

\* Bug: A token put back is never interpreted again.
ReadAgainBug(o, context) == [o EXCEPT !.ahead.context = context]

\* get_next_token on a token put back: it is interpreted again, and the
\* mention noted, only if the lexical context is another one.
ReadAgain(o, context) ==
  IF context = o.ahead.context THEN o
  ELSE [Mention(o, o.ahead.sym) EXCEPT !.ahead.context = context]

NoToken == [sym |-> NoSym, context |-> "none"]

------------------------------------------------------------------------------
(* Routines.                                                               *)

\* The routine being compiled; count counts the statements of the program.
Closed == [sym |-> NoSym, at |-> 0, refs |-> {}, reach |-> FALSE, ahead |-> NoToken,
           count |-> 0, embedded |-> FALSE]

\* assemble_routine_header
Opened(s, embedded) ==
  [sym |-> s, at |-> pc, refs |-> {}, reach |-> TRUE, ahead |-> NoToken,
   count |-> current.count, embedded |-> embedded]

InRoutine == current.at > 0
TopLevel  == stage = "parse" /\ ~InRoutine

\* Main__ is compiled first, at address 0, and calls MainSym.
DeadInit ==
  /\ glulx \in Targets
  /\ sym = [s \in Syms |-> [type |-> "unknown", value |-> 0, replaced |-> FALSE, orig |-> NoSym]]
  /\ funcs = <<[at |-> 0, len |-> Align(HeaderLength + CallLength), refs |-> {},
                embedded |-> FALSE, name |-> NoSym]>>
  /\ globals = {} /\ current = Closed
  /\ pc = Align(HeaderLength + CallLength)
  /\ operands = <<[at |-> HeaderLength + MarkerAt, marker |-> "main", value |-> MainSym, of |-> MainSym]>>
  /\ data = <<>> /\ tokens = <<>> /\ asked = {}
  /\ stage = "parse" /\ err = {}
  /\ used = {} /\ todo = {} /\ newaddr = <<>> /\ total = [before |-> 0, after |-> 0]
  /\ out = [j |-> 0, size |-> 0, next |-> 0, use |-> TRUE, func |-> 1, patch |-> 1, placed |-> <<>>]

back == <<err, used, todo, newaddr, total, out>>

RoomForRoutine == TopLevel /\ Len(funcs) < MaxFunctions
RoomForData == TopLevel /\ Len(data) + Len(tokens) + Cardinality(asked) < MaxData

MayBegin(s) == sym[s].type = "unknown" \/ (sym[s].type = "routine" /\ sym[s].replaced)

BeginRoutine(s) ==
  /\ RoomForRoutine /\ MayBegin(s)
  /\ current' = Opened(s, FALSE) /\ pc' = pc + HeaderLength
  /\ UNCHANGED <<glulx, sym, funcs, globals, operands, data, tokens, asked, stage, back>>

\* A routine given as the value of a property.
BeginEmbedded ==
  /\ RoomForRoutine
  /\ current' = Opened(NoSym, TRUE) /\ pc' = pc + HeaderLength
  /\ UNCHANGED <<glulx, sym, funcs, globals, operands, data, tokens, asked, stage, back>>

\* The distance to the last operand that is patched: the compact table of
\* the Z-machine holds positions modulo all the banks (see Decode).
Gap == pc + MarkerAt - (Last(operands).at + OperandSize)

\* Code for an instruction naming s, in the state o the parser has reached.
AssembleOperand(o, s) ==
  LET op == Operand(s) IN
  /\ Gap < Bank
  /\ current' = [o EXCEPT !.count = @ + 1, !.ahead = NoToken]
  /\ pc' = IF o.reach THEN pc + CallLength ELSE pc
  /\ operands' = IF o.reach /\ op.marker # "none"
                 THEN Append(operands, [at |-> pc + MarkerAt, marker |-> op.marker,
                                        value |-> op.value, of |-> s])
                 ELSE operands
  /\ UNCHANGED <<glulx, sym, funcs, globals, data, tokens, asked, stage, back>>

AtStatement == InRoutine /\ current.count < MaxBody

Reached(o) == [o EXCEPT !.reach = TRUE]

\* "s();"  The first token of a statement is read in the context of
\* statements, put back, and read again by parse_expression in its own.
CallStatement(s) ==
  /\ AtStatement /\ current.ahead.sym \in {NoSym, s}
  /\ LET first == IF current.ahead = NoToken
                  THEN [Mention(current, s) EXCEPT !.ahead = [sym |-> s, context |-> "statement"]]
                  ELSE ReadAgain(current, "statement")
     IN AssembleOperand(ReadAgain(first, "expression"), s)

\* "return;"
ReturnStatement ==
  /\ AtStatement /\ current.reach /\ current.ahead = NoToken
  /\ current' = [current EXCEPT !.reach = FALSE, !.count = @ + 1] /\ pc' = pc + 1
  /\ UNCHANGED <<glulx, sym, funcs, globals, operands, data, tokens, asked, stage, back>>

\* "if (c) return;" and a look for "else", which finds s, the start of the
\* next statement, while the code is still unreachable.
IfReturnStatement(s) ==
  /\ AtStatement /\ current.count + 1 < MaxBody /\ current.reach /\ current.ahead = NoToken
  /\ LET after == [current EXCEPT !.reach = FALSE]
         seen  == [Mention(after, s) EXCEPT !.ahead = [sym |-> s, context |-> "statement"]]
     IN current' = [Reached(seen) EXCEPT !.count = @ + 1]
  /\ pc' = pc + 1
  /\ UNCHANGED <<glulx, sym, funcs, globals, operands, data, tokens, asked, stage, back>>

\* A switch clause: the label of "s:" is assembled, then its value is parsed;
\* "(s):" is parsed as an expression, and found to be a clause, before the label.
CaseClause(s, paren) ==
  /\ AtStatement /\ current.ahead = NoToken
  /\ (paren /\ ~current.reach) => ParenCases
  /\ AssembleOperand(IF paren THEN Reached(Mention(current, s)) ELSE Mention(Reached(current), s), s)

\* "for (::s())": every part of the header is parsed before the label of the
\* loop, which is stripped with the loop when nothing reaches it.
ForStatement(s) ==
  /\ AtStatement /\ current.ahead = NoToken
  /\ LET parsed == Mention(current, s)
     IN AssembleOperand(IF Strip THEN parsed ELSE Reached(parsed), s)

\* Bug: Y of Replace X Y gets the last definition of X.
DefineRoutineBug(s, addr) ==
  LET y == sym[s].orig
      d == [sym EXCEPT ![s].type = "routine", ![s].value = addr]
  IN IF y # NoSym THEN [d EXCEPT ![y].type = "routine", ![y].value = addr] ELSE d

\* Closing the routine: its symbol gets the address, and under Replace X Y
\* the first definition of X is also Y's.
DefineRoutine(s, addr) ==
  LET y == sym[s].orig
      d == [sym EXCEPT ![s].type = "routine", ![s].value = addr]
  IN IF y # NoSym /\ sym[y].value = 0
     THEN [d EXCEPT ![y].type = "routine", ![y].value = addr] ELSE d

CloseRoutine ==
  /\ InRoutine /\ current.ahead = NoToken
  /\ LET end == Align(IF current.reach THEN pc + 1 ELSE pc)
     IN /\ pc' = end
        /\ funcs' = Append(funcs, [at |-> current.at, len |-> end - current.at, refs |-> current.refs,
                                   embedded |-> current.embedded, name |-> current.sym])
  /\ sym' = IF current.embedded THEN sym ELSE DefineRoutine(current.sym, current.at)
  /\ data' = IF current.embedded THEN Append(data, [marker |-> "routine", value |-> current.at, of |-> NoSym])
             ELSE data
  /\ current' = [Closed EXCEPT !.count = current.count]
  /\ UNCHANGED <<glulx, globals, operands, tokens, asked, stage, back>>

------------------------------------------------------------------------------
(* Mentions outside routines.                                              *)

MentionGlobal(s) == globals' = IF Notes(s) THEN globals \cup {s} ELSE globals

\* The value of an array entry, a global or a property.
DataEntry(s) ==
  /\ RoomForData
  /\ MentionGlobal(s)
  /\ LET op == Operand(s)
     IN data' = IF op.marker = "none" THEN data
                ELSE Append(data, [marker |-> op.marker, value |-> op.value, of |-> s])
  /\ UNCHANGED <<glulx, sym, funcs, current, pc, operands, tokens, asked, stage, back>>

\* A token "noun=s" keeps the address s has now.
RoutineToken(s) ==
  /\ RoomForData
  /\ sym[s].type = "routine" /\ (sym[s].replaced => TokensOfReplaced)
  /\ MentionGlobal(s)
  /\ tokens' = Append(tokens, [value |-> sym[s].value, of |-> s])
  /\ UNCHANGED <<glulx, sym, funcs, current, pc, operands, data, asked, stage, back>>

\* An action: its routine is looked up at the end of the parse.
Action(s) ==
  /\ RoomForData /\ s \notin asked
  /\ asked' = asked \cup {s}
  /\ UNCHANGED <<glulx, sym, funcs, globals, current, pc, operands, data, tokens, stage, back>>

ReplaceDirective(s, y) ==
  /\ TopLevel /\ sym[s].type = "unknown" /\ ~sym[s].replaced
  /\ y # s /\ (y # NoSym => sym[y].type = "unknown")
  /\ sym' = IF y = NoSym THEN [sym EXCEPT ![s].replaced = TRUE]
            ELSE [sym EXCEPT ![s].replaced = TRUE, ![s].orig = y, ![y].type = "zero"]
  /\ UNCHANGED <<glulx, funcs, globals, current, pc, operands, data, tokens, asked, stage, back>>

\* find_the_actions.  A name with no definition is an error, and then no
\* story file is written.
FindTheActions ==
  /\ TopLevel /\ sym[MainSym].type = "routine"
  /\ globals' = globals \cup {s \in asked : Notes(s)}
  /\ err' = {e \in {"undefined"} : \E s \in asked : sym[s].type # "routine"}
  /\ stage' = "mark"
  /\ UNCHANGED <<glulx, sym, funcs, current, pc, operands, data, tokens, asked, used, todo, newaddr, total, out>>

------------------------------------------------------------------------------
(* locate_dead_functions.                                                  *)

FunctionsAt(addr) == {i \in DOMAIN funcs : funcs[i].at = addr}

\* Bug: The routine's own list of mentions is dropped from the search.
MentionedBug(refs) ==
  UNION {FunctionsAt(sym[s].value) : s \in {r \in refs : sym[r].type = "routine" /\ r \in globals}}

\* The functions the routine symbols of a set of mentions stand for now.
Mentioned(refs) ==
  UNION {FunctionsAt(sym[s].value) : s \in {r \in refs : sym[r].type = "routine"}}

MarkRoots ==
  /\ stage = "mark" /\ err = {}
  /\ used' = {1} \cup {i \in DOMAIN funcs : funcs[i].embedded} \cup Mentioned(globals \cup {MainSym})
  /\ todo' = used'
  /\ stage' = "search"
  /\ UNCHANGED <<source, err, newaddr, total, out>>

\* The next function of the list, whose order does not matter, is processed.
Search ==
  /\ stage = "search"
  /\ \E f \in todo :
       LET found == Mentioned(funcs[f].refs) \ used
       IN used' = used \cup found /\ todo' = (todo \ {f}) \cup found
  /\ UNCHANGED <<source, stage, err, newaddr, total, out>>

\* The next function gets its new address, if it is used.  "Address gap in
\* function list" and "New function address is not aligned" are internal errors.
Measure ==
  /\ stage = "search" /\ todo = {} /\ Len(newaddr) < Len(funcs)
  /\ LET func  == Len(newaddr) + 1
         after == IF func \in used THEN total.after + funcs[func].len ELSE total.after
     IN /\ newaddr' = Append(newaddr, IF func \in used THEN total.after ELSE 0)
        /\ total' = [before |-> total.before + funcs[func].len, after |-> after]
        /\ err' = err \cup {e \in {"gap"} : funcs[func].at # total.before}
                      \cup {e \in {"unaligned"} : ~glulx /\ after % Scale # 0}
  /\ UNCHANGED <<source, stage, used, todo, out>>

------------------------------------------------------------------------------
(* Patching.                                                               *)

\* df_stripped_address_for_address
Moved(addr) ==
  LET at == FunctionsAt(addr) IN IF at = {} THEN 0 ELSE newaddr[Max(at)]

Patched(o) == Moved(CASE o.marker = "routine" -> o.value
                      [] OTHER                -> sym[o.value].value)

\* The internal error "Tried to backpatch a function address which should
\* be stripped".
PatchErrors(o) ==
  CASE o.marker # "routine" /\ sym[o.value].type = "unknown" -> {"undefined"}
    [] o.marker # "routine" /\ sym[o.value].type = "zero"    -> {}
    [] OTHER ->
         {e \in {"stripped"} :
            FunctionsAt(IF o.marker = "routine" THEN o.value ELSE sym[o.value].value) \cap used = {}}

Token(t) == [marker |-> "routine", value |-> t.value]
ActionOf(s) == [marker |-> "routine", value |-> sym[s].value]

\* The output begins with the check that "Code size does not match" reports.
PatchTables ==
  /\ stage = "search" /\ Len(newaddr) = Len(funcs)
  /\ err' = err \cup (UNION {PatchErrors(d) : d \in Range(data)})
                \cup (UNION {PatchErrors(Token(t)) : t \in Range(tokens)})
                \cup (UNION {PatchErrors(ActionOf(s)) : s \in asked})
                \cup {e \in {"size"} : pc # total.before}
  /\ stage' = "output"
  /\ UNCHANGED <<source, used, todo, newaddr, total, out>>

\* The three-byte entries of the Z-machine hold an offset of two bytes, two
\* bits of the bank in the marker byte, and carry out of them into the bit
\* that says whether the operand is short.  Glulx holds the whole offset.
Encode(at) == [offset |-> IF glulx THEN at ELSE at % (Banks * Bank),
               short  |-> ~glulx /\ (at \div (Banks * Bank)) % 2 = 1]

\* How often the reader adds all the banks before the position is near enough.
Laps(offset, j) ==
  IF glulx THEN 0
  ELSE CHOOSE n \in 0 .. (j \div (Banks * Bank) + 1) : /\ offset + n * Banks * Bank + (Banks - 1) * Bank >= j
                             /\ \A k \in 0 .. (n - 1) : offset + k * Banks * Bank + (Banks - 1) * Bank < j

\* Positions are written in increasing order, each less than a bank after the
\* one before, so the reader finds them from their remainders.
Decode(e, j) ==
  [offset |-> e.offset + Laps(e.offset, j) * Banks * Bank,
   short  |-> IF Laps(e.offset, j) % 2 = 1 THEN ~e.short ELSE e.short]

PatchTarget == IF out.patch <= Len(operands)
          THEN Decode(Encode(operands[out.patch].at), out.j)
          ELSE [offset |-> pc, short |-> FALSE]

\* Bug: The flag is read after the iterator has moved on.
IterateBug(o) ==
  IF o.j # o.next THEN o
  ELSE IF o.func > Len(funcs) THEN [o EXCEPT !.use = TRUE, !.next = pc + 1]
  ELSE [o EXCEPT !.use = (o.func + 1) \in used, !.next = funcs[o.func].at + funcs[o.func].len,
                 !.func = @ + 1]

\* df_next_function_iterate, when the output reaches a function break.
Iterate(o) ==
  IF o.j # o.next THEN o
  ELSE IF o.func > Len(funcs) THEN [o EXCEPT !.use = TRUE, !.next = pc + 1]
  ELSE [o EXCEPT !.use = o.func \in used, !.next = funcs[o.func].at + funcs[o.func].len,
                 !.func = @ + 1]

\* Copy or skip code up to the next patch or function break.
OutputCode ==
  /\ stage = "output" /\ out.j < PatchTarget.offset
  /\ LET to == IF PatchTarget.offset < out.next THEN PatchTarget.offset ELSE out.next
     IN out' = Iterate([out EXCEPT !.j = to,
                                   !.size = IF out.use THEN @ + (to - out.j) ELSE @])
  /\ UNCHANGED <<source, stage, err, used, todo, newaddr, total>>

OutputPatch ==
  /\ stage = "output" /\ out.patch <= Len(operands) /\ out.j >= PatchTarget.offset
  /\ LET o == operands[out.patch] IN
     /\ out' = [out EXCEPT !.j = @ + (IF PatchTarget.short THEN 1 ELSE OperandSize),
                           !.patch = @ + 1,
                           !.size = IF out.use THEN @ + OperandSize ELSE @,
                           !.placed = IF ~out.use THEN @
                                      ELSE Append(@, [at |-> out.size, patch |-> out.patch,
                                                      value |-> Patched(o)])]
     /\ err' = err \cup (IF out.use THEN PatchErrors(o) ELSE {})
                   \cup {e \in {"misplaced"} : o.at # out.j \/ PatchTarget.short}
                   \cup {e \in {"straddle"} : out.j + OperandSize > out.next}
  /\ UNCHANGED <<source, stage, used, todo, newaddr, total>>

OutputEnd ==
  /\ stage = "output" /\ out.patch > Len(operands) /\ out.j >= pc
  /\ err' = err \cup {e \in {"length"} : out.size # total.after}
  /\ stage' = "done"
  /\ UNCHANGED <<source, used, todo, newaddr, total, out>>

Directive ==
  \E s \in Syms : \/ BeginRoutine(s) \/ DataEntry(s) \/ RoutineToken(s) \/ Action(s)
                  \/ \E y \in Syms \cup {NoSym} : ReplaceDirective(s, y)
AnyStatement ==
  \E s \in Syms : \/ CallStatement(s) \/ IfReturnStatement(s) \/ ForStatement(s)
                  \/ \E paren \in BOOLEAN : CaseClause(s, paren)

DeadNext ==
  \/ Directive \/ BeginEmbedded \/ AnyStatement \/ ReturnStatement \/ CloseRoutine
  \/ FindTheActions \/ MarkRoots \/ Search \/ Measure \/ PatchTables
  \/ OutputCode \/ OutputPatch \/ OutputEnd

DeadSpec == DeadInit /\ [][DeadNext]_deadVars

------------------------------------------------------------------------------
(* Properties.                                                             *)

SymRecord == [type : {"unknown", "zero", "routine"}, value : Nat, replaced : BOOLEAN,
              orig : Syms \cup {NoSym}]
OperandRecord == [marker : {"routine", "symbol", "main"}, value : Nat \cup Syms,
                  of : Syms \cup {NoSym}]

\* Type invariant: functions tile the code area from 0, and the search only
\* queues functions it has marked.
DeadTypeOK ==
  /\ sym \in [Syms -> SymRecord]
  /\ \A i \in DOMAIN funcs :
       /\ funcs[i].refs \subseteq Syms /\ funcs[i].len > 0
       /\ funcs[i].at = IF i = 1 THEN 0 ELSE funcs[i - 1].at + funcs[i - 1].len
       /\ glulx \/ funcs[i].at % Scale = 0
  /\ globals \subseteq Syms /\ current.refs \subseteq Syms
  /\ \A d \in Range(data) : d \in OperandRecord
  /\ stage \in {"parse", "mark", "search", "output", "done"}
  /\ used \subseteq DOMAIN funcs /\ todo \subseteq used

\* What a name means to the author: its last definition, or, for the second
\* name of Replace X Y, the first definition of X.
DefinitionsOf(s) == {i \in DOMAIN funcs : funcs[i].name = s}
Meanings(s) ==
  IF DefinitionsOf(s) # {} THEN {Max(DefinitionsOf(s))}
  ELSE {Min(DefinitionsOf(x)) : x \in {y \in Syms : sym[y].orig = s /\ DefinitionsOf(y) # {}}}

Written == stage = "done" /\ "undefined" \notin err

\* Every routine address in the story file, in code, in arrays and
\* properties, in grammar and in the action table, is the address the
\* routine the author named was moved to, so that routine was kept
\* (bpatch.c:124, files.c:499, tables.c:966).
LinksRight ==
  Written =>
    /\ \A p \in Range(out.placed) : \A f \in Meanings(operands[p.patch].of) :
         f \in used /\ p.value = newaddr[f]
    /\ \A d \in Range(data) : \A f \in Meanings(d.of) :
         d.of # NoSym => f \in used /\ Patched(d) = newaddr[f]
    /\ \A t \in Range(tokens) : \A f \in Meanings(t.of) :
         f \in used /\ Patched(Token(t)) = newaddr[f]
    /\ \A s \in asked : \A f \in Meanings(s) :
         f \in used /\ Patched(ActionOf(s)) = newaddr[f]

Owner(i) == Max({f \in DOMAIN funcs : funcs[f].at <= operands[i].at})

\* The output pass writes exactly the operands of the routines in use, each
\* where it stands in its moved routine, though it finds them through
\* offsets that wrap (files.c:476) and function breaks (files.c:508), and
\* reports no internal error: none crosses a break, the code is as long as
\* announced, and no dropped routine has its address asked for ("The function
\* must not itself be unused", symbols.c:1458).
PlacedRight ==
  /\ err \subseteq {"undefined"}
  /\ Written =>
       /\ {p.patch : p \in Range(out.placed)} = {i \in DOMAIN operands : Owner(i) \in used}
       /\ \A p \in Range(out.placed) :
            p.at = newaddr[Owner(p.patch)] + (operands[p.patch].at - funcs[Owner(p.patch)].at)

==============================================================================
