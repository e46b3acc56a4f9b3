----------------------------- MODULE Declarations -----------------------------
(***************************************************************************)
(* What a name stands for.  Directives give symbols their values (Constant, *)
(* Default, Stub, Replace, Undef and routine definitions, directs.c and     *)
(* syntax.c); code mentions names before and after that.  A mention of a    *)
(* symbol whose value can still change is left with the symbol and settled  *)
(* at the end by backpatch_value (bpatch.c); any other is compiled with the *)
(* value the symbol has then.                                               *)
(*                                                                          *)
(* A source is a sequence of items [kind, name, other]; other is a second   *)
(* name or 0, or tells a routine of a system file (SystemFile).  Numbers    *)
(* and addresses are the places of their items, and routines lie CodeOffset *)
(* further on in the story.  Version 5 Z-code, built eagerly; what deferred *)
(* emission changes is in RoutinePipeline.                                  *)
(***************************************************************************)
EXTENDS SymbolTable

CONSTANTS Sources,           \* the sources
          CodeOffset         \* code_offset / scale_factor

VARIABLES
  source, at,
  table,                 \* symbols[] and its hash lists
  symbol_replacements,   \* the mappings, a sequence of [original, renamed]
  mentions,              \* the places mentioned in: [at, marker, value]
  errors, ended

vars == <<source, at, table, symbol_replacements, mentions, errors, ended>>

SystemFile == 100

Flags(T, k) == T.sym[k].flags
Unknown(T, k) == "unknown" \in Flags(T, k)
SetFlag(T, k, flag) == [T EXCEPT !.sym[k].flags = @ \cup {flag}]

(* The symbol a token names, made if it is new.                             *)
Token(name) == symbol_index(table, name)

Item(kinds) ==
  /\ ~ended /\ ~errors /\ at < Len(source) /\ source[at + 1].kind \in kinds
  /\ at' = at + 1
  /\ UNCHANGED <<source, ended>>

Name == source[at + 1].name
Other == source[at + 1].other

Fails == errors' = TRUE /\ UNCHANGED <<table, symbol_replacements, mentions>>

------------------------------------------------------------------------------
(* parse_expression on a single name: marker and value (expressp.c:120).    *)
Evaluated(T, k) ==
  LET s == T.sym[k] IN
  CASE s.type = "routine" -> IF "replace" \in s.flags THEN [marker |-> "symbol", value |-> k]
                             ELSE [marker |-> "iroutine", value |-> s.value]
    [] s.type = "constant" -> IF s.flags \cap {"unknown", "change"} # {}
                              THEN [marker |-> "symbol", value |-> k]
                              ELSE [marker |-> "none", value |-> s.value]

(* A constant given as a number (0) or by another name.                     *)
ConstantValue(T, k, from) ==
  LET s == symbol_index(T, from)
      v == Evaluated(s.table, s.index)
  IN IF from = 0 THEN assign_symbol(T, k, at + 1, "constant")
     ELSE IF v.marker = "none" THEN assign_symbol(s.table, k, v.value, "constant")
     ELSE [assign_symbol(s.table, k, v.value, "constant")
             EXCEPT !.sym[k].marker = v.marker, !.sym[k].flags = @ \cup {"change"}]

Constant ==
  /\ Item({"constant"})
  /\ LET s == Token(Name) IN
     \/ ~Unknown(s.table, s.index) /\ Fails
     \/ /\ Unknown(s.table, s.index)
        /\ table' = ConstantValue(assign_symbol(s.table, s.index, 0, "constant"), s.index, Other)
        /\ UNCHANGED <<symbol_replacements, mentions, errors>>

Default ==
  /\ Item({"default"})
  /\ LET s == Token(Name) IN
     table' = IF Unknown(s.table, s.index)
              THEN ConstantValue(SetFlag(s.table, s.index, "defcon"), s.index, Other)
              ELSE IF Other = 0 THEN s.table ELSE symbol_index(s.table, Other).table
  /\ UNCHANGED <<symbol_replacements, mentions, errors>>

Stub ==
  /\ Item({"stub"})
  /\ LET s == Token(Name) IN
     table' = IF Unknown(s.table, s.index)
              THEN assign_symbol(SetFlag(s.table, s.index, "stub"), s.index, at + 1, "routine")
              ELSE s.table
  /\ UNCHANGED <<symbol_replacements, mentions, errors>>

Undef ==
  /\ Item({"undef"})
  /\ LET s == Token(Name) IN
     \/ Unknown(s.table, s.index) /\ table' = s.table /\ UNCHANGED errors
     \/ /\ ~Unknown(s.table, s.index) /\ s.table.sym[s.index].type = "constant"
        /\ table' = end_symbol_scope(s.table, s.index, FALSE)
        /\ UNCHANGED errors
     \/ /\ ~Unknown(s.table, s.index) /\ s.table.sym[s.index].type # "constant"
        /\ table' = s.table /\ errors' = TRUE
  /\ UNCHANGED <<symbol_replacements, mentions>>

(* A mapping is made although an error is reported for it.                  *)
(* Bug: a name that is itself mapped may be a new name.                     *)
MappingAllowedBug(original, renamed) ==
  original # renamed /\ \A m \in DOMAIN symbol_replacements :
                          symbol_replacements[m].original # original

MappingAllowed(original, renamed) ==
  original # renamed /\ \A m \in DOMAIN symbol_replacements :
                          symbol_replacements[m].original \notin {original, renamed}

Replace ==
  /\ Item({"replace"})
  /\ LET s == Token(Name)
         marked == SetFlag(s.table, s.index, "replace")
         r == symbol_index(marked, Other)
     IN \/ ~Unknown(s.table, s.index) /\ Fails
        \/ /\ Unknown(s.table, s.index) /\ Other = 0
           /\ table' = marked
           /\ UNCHANGED <<symbol_replacements, errors, mentions>>
        \/ Unknown(s.table, s.index) /\ Other # 0 /\ ~Unknown(r.table, r.index) /\ Fails
        \/ /\ Unknown(s.table, s.index) /\ Other # 0 /\ Unknown(r.table, r.index)
           /\ table' = assign_symbol(r.table, r.index, 0, "constant")
           /\ errors' = ~MappingAllowed(s.index, r.index)
           /\ symbol_replacements' = IF s.index = r.index THEN symbol_replacements
                                     ELSE Append(symbol_replacements,
                                                 [original |-> s.index, renamed |-> r.index])
           /\ UNCHANGED mentions

(* One sweep over the mappings in the order they were made.                 *)
RECURSIVE Sweep(_, _)
Sweep(k, ix) ==
  IF ix > Len(symbol_replacements) THEN k
  ELSE Sweep(IF symbol_replacements[ix].original = k THEN symbol_replacements[ix].renamed ELSE k,
             ix + 1)

find_symbol_replacement(k) == Sweep(k, 1)

(* The first definition goes to the new name as well.                       *)
(* Bug: every definition does.                                              *)
OriginalBug(T, k, rep) == assign_symbol(T, rep, T.sym[k].value, "routine")

Original(T, k, rep) ==
  IF T.sym[rep].value = 0 THEN assign_symbol(T, rep, T.sym[k].value, "routine") ELSE T

Routine ==
  /\ Item({"routine"})
  /\ LET s == Token(Name)
         rep == find_symbol_replacement(s.index)
         replaced == "replace" \in Flags(s.table, s.index)
     IN \/ ~Unknown(s.table, s.index) /\ ~replaced /\ Fails
        \/ /\ replaced /\ rep = s.index /\ Other = SystemFile
           /\ table' = s.table
           /\ UNCHANGED <<symbol_replacements, mentions, errors>>
        \/ /\ Unknown(s.table, s.index) \/ replaced
           /\ ~(replaced /\ rep = s.index /\ Other = SystemFile)
           /\ LET T == assign_symbol(s.table, s.index, at + 1, "routine") IN
                table' = IF rep = s.index THEN T ELSE Original(T, s.index, rep)
           /\ UNCHANGED <<symbol_replacements, mentions, errors>>

Mention ==
  /\ Item({"mention"})
  /\ LET s == Token(Name)
         v == Evaluated(s.table, s.index)
     IN /\ table' = s.table
        /\ mentions' = mentions \cup {[at |-> at + 1, marker |-> v.marker, value |-> v.value]}
  /\ UNCHANGED <<symbol_replacements, errors>>

EndOfSource ==
  /\ ~ended /\ ~errors /\ at = Len(source)
  /\ ended' = TRUE
  /\ UNCHANGED <<source, at, table, symbol_replacements, mentions, errors>>

------------------------------------------------------------------------------
(* backpatch_value: a constant given by a name is settled in its symbol the *)
(* first time it is come upon.                                              *)
RECURSIVE backpatch_value(_, _, _)
backpatch_value(T, marker, value) ==
  IF marker = "iroutine" THEN [table |-> T, value |-> value + CodeOffset, error |-> FALSE]
  ELSE IF Unknown(T, value) THEN [table |-> T, value |-> 0, error |-> TRUE]
  ELSE LET s == T.sym[value]
           clear == [T EXCEPT !.sym[value].flags = @ \ {"change"}]
           r == IF "change" \in s.flags THEN backpatch_value(clear, s.marker, s.value)
                ELSE [table |-> T, value |-> s.value, error |-> FALSE]
           settled == [r.table EXCEPT !.sym[value].value = r.value]
       IN [table |-> settled, error |-> r.error,
           value |-> r.value + IF s.type = "routine" THEN CodeOffset ELSE 0]

(* The code area is run through once, mention by mention.                   *)
Backpatch ==
  /\ ended /\ ~errors
  /\ \E m \in mentions :
       /\ m.marker \notin {"none", "done"}
       /\ \A q \in mentions : q.marker \notin {"none", "done"} => q.at >= m.at
       /\ LET b == backpatch_value(table, m.marker, m.value) IN
            /\ table' = b.table
            /\ errors' = b.error
            /\ mentions' = (mentions \ {m}) \cup {[m EXCEPT !.marker = "done", !.value = b.value]}
  /\ UNCHANGED <<source, at, symbol_replacements, ended>>

Init ==
  /\ source \in Sources /\ at = 0 /\ table = EmptyTable
  /\ symbol_replacements = <<>> /\ mentions = {} /\ errors = FALSE /\ ended = FALSE

Next == Constant \/ Default \/ Stub \/ Undef \/ Replace \/ Routine \/ Mention \/ EndOfSource \/ Backpatch

Spec == Init /\ [][Next]_vars

------------------------------------------------------------------------------
(* What a name means, from the source alone.  An Undef of a name with a     *)
(* meaning ends it; what follows may give it another.                       *)
Places == 1..Len(source)
Gives(q, name) ==
  \/ source[q].kind \in {"constant", "default", "stub", "routine"} /\ source[q].name = name
  \/ source[q].kind = "replace" /\ source[q].other = name

RECURSIVE Epoch(_, _)
Epoch(name, p) ==
  IF p = 0 THEN 0
  ELSE LET e == Epoch(name, p - 1) IN
       IF /\ source[p].kind = "undef" /\ source[p].name = name
          /\ \E q \in 1..p - 1 : Gives(q, name) /\ Epoch(name, q) = e
       THEN e + 1 ELSE e

Replacements(name) == {q \in Places : source[q].kind = "replace" /\ source[q].name = name}
Renaming(name, e) == {q \in Places : /\ source[q].kind = "replace" /\ source[q].other = name
                                    /\ Epoch(name, q) = e}

(* What the claims leave out: a name for an original that is mentioned, or  *)
(* given to a constant, before the original was defined is compiled as 0;   *)
(* a constant may take a name that is to be replaced, and is replaced then; *)
(* and constants given by each other's names go round in a circle.          *)
Ordinary(s) ==
  /\ \A p, q \in DOMAIN s :
       /\ s[p].kind = "replace"
       /\ \/ s[q].kind = "mention" /\ s[q].name = s[p].other
          \/ s[q].kind \in {"constant", "default"} /\ s[q].other = s[p].other /\ s[q].other # 0
       => \E r \in 1..q - 1 : r > p /\ s[r].kind = "routine" /\ s[r].name = s[p].name
  /\ \A p, q \in DOMAIN s :
       s[p].kind = "replace" /\ s[q].kind \in {"constant", "default"} => s[q].name # s[p].name
  /\ \A p, q \in DOMAIN s :
       /\ s[p].kind \in {"constant", "default"} /\ s[p].other # 0
       /\ s[q].kind \in {"constant", "default"}
       => s[q].other # s[p].name \/ s[p].other # s[q].name

(* A system file's definition of a routine replaced without a new name.     *)
Skipped(q) ==
  /\ source[q].kind = "routine" /\ source[q].other = SystemFile
  /\ \E r \in Replacements(source[q].name) : r < q
  /\ \A r \in Replacements(source[q].name) : r < q => source[r].other = 0

(* The items that give the name its meaning: a default or stub only where   *)
(* nothing did before.                                                      *)
GivesAnew(q, name, e) == Gives(q, name) /\ Epoch(name, q) = e /\ ~Skipped(q)
Counts(q, name, e) ==
  /\ GivesAnew(q, name, e)
  /\ source[q].kind \in {"default", "stub"} => \A r \in 1..q - 1 : ~GivesAnew(r, name, e)

First(S) == CHOOSE q \in S : \A r \in S : q <= r
Last(S) == CHOOSE q \in S : \A r \in S : r <= q

(* The number of a constant or the address of a routine.                    *)
RECURSIVE Meaning(_, _)
Meaning(name, e) ==
  LET originals == {q \in Places : source[q].kind = "routine" /\ \E r \in Renaming(name, e) :
                                     r < q /\ source[r].name = source[q].name}
      given == {q \in Places : Counts(q, name, e)}
      q == Last(given)
  IN IF Renaming(name, e) # {} THEN IF originals = {} THEN 0 ELSE First(originals) + CodeOffset
     ELSE IF source[q].kind \in {"stub", "routine"} THEN q + CodeOffset
     ELSE IF source[q].other = 0 THEN q
     ELSE Meaning(source[q].other, Epoch(source[q].other, q))

(* Every mention of a name in a program without errors ends up with what    *)
(* the name means, whether it came before or after the items that give the  *)
(* meaning, and through however many constants it goes.  Of a routine that  *)
(* is replaced this is the last definition, of the name for the original    *)
(* the first (symbols.c:1066, syntax.c:191, bpatch.c:198).                  *)
NamesSettle ==
  ended /\ ~errors =>
    \A m \in mentions : m.marker \in {"none", "done"} =>
      m.value = Meaning(source[m.at].name, Epoch(source[m.at].name, m.at))

(* The one sweep over the mappings finds the end of them: in a program      *)
(* without errors no name that stands for an original is replaced itself,   *)
(* and no routine is replaced twice.                                        *)
ReplacementsSettle ==
  ~errors => \A k \in DOMAIN table.sym :
    /\ \A m \in DOMAIN symbol_replacements :
         symbol_replacements[m].original # find_symbol_replacement(k)
    /\ Cardinality({m \in DOMAIN symbol_replacements : symbol_replacements[m].original = k}) <= 1
==============================================================================
