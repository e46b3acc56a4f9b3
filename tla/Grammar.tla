------------------------------- MODULE Grammar -------------------------------
(***************************************************************************)
(* Verbs, grammar lines and actions (verbs.c), from the directives Verb,   *)
(* Extend and Fake_Action to the tables of the story file (tables.c).      *)
(*                                                                         *)
(* A word of the source is a number; Prepared gives what the dictionary    *)
(* keeps of it.  The dictionary is used by what it promises (WordTable):   *)
(* an entry keeps the number it got, and its place is that of its word.    *)
(* Grammar lines are cells [action, reverse, count, tokens], one for each  *)
(* line, and an address in the story file is the index into its table.     *)
(* After the first error only the fact that there was one is kept.         *)
(***************************************************************************)
EXTENDS Integers, Sequences, FiniteSets, SequencesExt

CONSTANTS
  Programs,       \* [glulx, version, metas, deferred, directives]: the target,
                  \* grammar_version_number, GRAMMAR_META_FLAG, deferred lowering
  Prepared(_),    \* a word, cut to the resolution of the dictionary
  Address,        \* final address of each routine; Address[a] is that of aSub
  MaxTokens1,     \* 6: tokens of a line under grammar version 1
  CountField,     \* 32: values of the token count under grammar version 3
  FakeBase1,      \* 256: lowest_fake_action under grammar version 1
  FakeBase2,      \* 4096: the same under versions 2 and 3
  ActionField,    \* 1024: actions that fit into a Z-code grammar line
  VerbLimit       \* 255: Inform-verbs in Z-code

LimitsAssumption ==
  /\ MaxTokens1 \in Nat /\ CountField \in Nat \ {0} /\ VerbLimit \in Nat
  /\ FakeBase1 \in Nat /\ ActionField \in Nat /\ FakeBase2 > ActionField

VARIABLES
  source,     \* the program being compiled
  at,         \* directives compiled so far
  g,          \* the tables of verbs.c, see Init
  story       \* the tables as written, or << >>

vars == <<source, at, g, story>>

Error(m) == [m EXCEPT !.errors = TRUE]
---------------------------------------------------------------------------
(* The dictionary, as far as grammar uses it.                              *)

dictionary_find(m, word) ==
  IF \E n \in DOMAIN m.dictionary : m.dictionary[n].word = Prepared(word)
  THEN CHOOSE n \in DOMAIN m.dictionary : m.dictionary[n].word = Prepared(word)
  ELSE -1

dictionary_add(m, word, flags) ==
  LET n == dictionary_find(m, word) IN
  IF n = -1
  THEN [m EXCEPT !.dictionary =
          Append(@, [word |-> Prepared(word), flags |-> flags, verb |-> 0])]
  ELSE [m EXCEPT !.dictionary[n].flags = @ \cup flags]

\* One byte of an entry in Z-code, two in Glulx.
VerbField == IF source.glulx THEN 65535 ELSE 255

dictionary_set_verb_number(m, entry, verb) ==
  [m EXCEPT !.dictionary[entry].verb = VerbField - verb]

final_dict_order(m, n) ==
  Cardinality({k \in DOMAIN m.dictionary : m.dictionary[k].word < m.dictionary[n].word})
---------------------------------------------------------------------------
(* Actions.                                                                *)

lowest_fake_action == IF source.version = 1 THEN FakeBase1 ELSE FakeBase2

Known(m, name) == name \in DOMAIN m.symbols

Assign(m, name, type, value) ==
  [m EXCEPT !.symbols = [x \in DOMAIN @ \cup {name} |->
     IF x = name THEN [type |-> type, value |-> value] ELSE @[x]]]

make_fake_action(m, name) ==
  IF Known(m, name) THEN Error(m)
  ELSE Assign([m EXCEPT !.no_fake_actions = @ + 1],
              name, "fake", lowest_fake_action + m.no_fake_actions)

action_of_name(m, name) ==
  IF Known(m, name) THEN m
  ELSE IF \/ Len(m.actions) >= lowest_fake_action
          \/ ~source.glulx /\ Len(m.actions) >= ActionField
  THEN Error(m)
  ELSE Assign([m EXCEPT !.actions =
                 Append(@, [name |-> name, meta |-> FALSE, byte_offset |-> 0])],
              name, "action", Len(m.actions))

\* ##Action in an expression: the operand, marked for backpatching if it is real.
Mention(m, name) ==
  LET n == action_of_name(m, name) IN
  IF n.errors THEN n
  ELSE [n EXCEPT !.uses = Append(@,
          [name |-> name, value |-> n.symbols[name].value,
           marked |-> n.symbols[name].type = "action"])]

\* What symbols[] says of a routine now: a placeholder until the routines that
\* were deferred have been emitted.
RoutineValue(routine) == IF source.deferred THEN 0 ELSE Address[routine]

find_the_actions(m) ==
  IF \E i \in DOMAIN m.actions : m.actions[i].name \notin DOMAIN Address
  THEN Error(m)
  ELSE [m EXCEPT !.actions = [i \in DOMAIN @ |->
          [@[i] EXCEPT !.byte_offset = Address[m.actions[i].name]]]]

\* Bug: Meta actions are put first without their order.
SortedBug(m) == SelectSeq([i \in DOMAIN m.actions |-> i - 1], LAMBDA a : TRUE)

\* sort_actions: external_to_int, meta actions first.
Sorted(m) ==
  LET all == [i \in DOMAIN m.actions |-> i - 1] IN
  IF source.metas
  THEN SelectSeq(all, LAMBDA a : m.actions[a + 1].meta)
       \o SelectSeq(all, LAMBDA a : ~m.actions[a + 1].meta)
  ELSE all

internal_to_ext(m, action) == (CHOOSE i \in DOMAIN m.actions : Sorted(m)[i] = action) - 1
---------------------------------------------------------------------------
(* Adjectives and parsing routines have numbers of their own.              *)

\* The n-th of a list without repetitions, from 0, appending it if need be.
IndexIn(list, x) == (CHOOSE i \in DOMAIN list : list[i] = x) - 1
With(list, x) == IF x \in ToSet(list) THEN list ELSE Append(list, x)

make_adjective(m, word) ==
  LET n == dictionary_add(m, word, {"prep"}) IN
  [n EXCEPT !.adjectives = With(@, dictionary_find(n, word))]

make_parsing_routine(m, routine) ==
  [m EXCEPT !.grammar_token_routine = With(@, RoutineValue(routine))]

Cell(byte, data) == [byte |-> byte, data |-> data, next |-> FALSE, prior |-> FALSE]

\* Bytes of a token under version 1, where it has no data ...
Base1 == [noun |-> 16, routine |-> 48, scope |-> 80]
\* ... and under 2 and 3; those of routines have bit 7 set and those of
\* dictionary words bit 6, which tells construct_storyfile what to patch.
Base2 == [noun |-> 131, scope |-> 133, routine |-> 134]

\* The table a token needs an entry of, made if it is not there.
Entered(m, token) ==
  CASE token.kind = "word" ->
         IF source.version = 2 THEN dictionary_add(m, token.data, {"prep"})
         ELSE make_adjective(m, token.data)
    [] token.kind \in DOMAIN Base1 ->
         IF source.version = 2 THEN m ELSE make_parsing_routine(m, token.data)
    [] OTHER -> m

Number(m, token) ==
  IF token.kind = "word"
  THEN IF source.version = 2 THEN dictionary_find(m, token.data)
       ELSE IndexIn(m.adjectives, dictionary_find(m, token.data))
  ELSE IF token.kind \in DOMAIN Base1
  THEN IF source.version = 2 THEN RoutineValue(token.data)
       ELSE IndexIn(m.grammar_token_routine, RoutineValue(token.data))
  ELSE token.data

Encoded(token, n) ==
  CASE token.kind = "word"            -> IF source.version = 1 THEN Cell(255 - n, 0) ELSE Cell(66, n)
    [] token.kind \in DOMAIN Base1    -> IF source.version = 1 THEN Cell(Base1[token.kind] + n, 0)
                                         ELSE Cell(Base2[token.kind], n)
    [] token.kind = "elementary"      -> IF source.version = 1 THEN Cell(n, 0) ELSE Cell(1, n)
    [] token.kind = "attribute"       -> IF source.version = 1 THEN Cell(128 + n, 0) ELSE Cell(4, n)
---------------------------------------------------------------------------
(* grammar_line.  s holds its locals, and m in s.m.                        *)

Slash(s) ==
  IF source.version = 1 \/ s.last_was_slash \/ Last(s.tokens).byte # 66
  THEN [s EXCEPT !.m = Error(@)]
  ELSE [s EXCEPT !.tokens[Len(s.tokens)].next = TRUE,
                 !.last_was_slash = TRUE, !.slash_mode = TRUE]

\* The tokens a line has room for.
Room == CASE source.version = 1 -> MaxTokens1
          [] source.version = 3 -> CountField - 1
          [] OTHER -> 1000

\* A routine that is given by its address is noted for grammar_backpatch_routines.
Fixup(s, token) ==
  IF source.deferred /\ token.kind \in DOMAIN Base1
  THEN {[line |-> Len(s.m.grammar_lines) + 1, token |-> Len(s.tokens) + 1, routine |-> token.data]}
  ELSE {}

Token(s, token) ==
  LET m    == Entered(s.m, token)
      cell == Encoded(token, Number(m, token))
      mode == s.last_was_slash /\ s.slash_mode
      t    == [s EXCEPT !.last_was_slash = FALSE, !.slash_mode = mode, !.m = m,
                        !.grammar_token = @ + 1]
  IN  IF \/ source.version = 1 /\ token = [kind |-> "elementary", data |-> 9]
         \/ mode /\ token.kind # "word" /\ t.grammar_token <= Room
      THEN [t EXCEPT !.m = Error(@)]
      ELSE IF t.grammar_token > Room THEN t
      ELSE [t EXCEPT !.tokens = Append(@, [cell EXCEPT !.prior = mode]),
                     !.m.fixups = @ \cup Fixup(s, token)]

Tokens(m, line) ==
  FoldLeft(LAMBDA s, token : IF s.m.errors THEN s
                             ELSE IF token.kind = "/" THEN Slash(s) ELSE Token(s, token),
           [m |-> m, tokens |-> << >>, grammar_token |-> 0,
            last_was_slash |-> TRUE, slash_mode |-> FALSE],
           line.tokens)

\* The action word: the count only under version 3, where it is all there is to
\* say how long the line is.
LineHead(action, s, line) ==
  [action  |-> IF source.glulx THEN action ELSE action % (IF source.version = 1 THEN FakeBase1 ELSE ActionField),
   reverse |-> line.reverse,
   count   |-> IF source.version = 3 THEN s.grammar_token % CountField ELSE -1,
   tokens  |-> s.tokens]

\* Parses `given` as line number `line` of a verb (Inform_verbs[verb].l[line]).
grammar_line(m, verb, allmeta, line, given) ==
  LET s == Tokens(m, given)
      n == action_of_name(s.m, given.action)
  IN  IF \/ s.m.errors \/ n.errors
         \/ s.last_was_slash /\ s.grammar_token > 0
         \/ n.symbols[given.action].type = "fake"
         \/ given.reverse /\ source.version = 1
         \/ given.meta /\ ~source.metas
      THEN Error(m)
      ELSE LET action == n.symbols[given.action].value IN
           [n EXCEPT
              !.grammar_lines = Append(@, LineHead(action, s, given)),
              !.Inform_verbs[verb].l = [k \in DOMAIN @ \cup {line} |->
                 IF k = line THEN Len(n.grammar_lines) + 1 ELSE @[k]],
              !.actions[action + 1].meta = @ \/ allmeta \/ given.meta]
---------------------------------------------------------------------------
(* Verb and Extend.  Inform-verbs are numbered from 0, and so are the lines *)
(* of one.                                                                 *)

no_Inform_verbs(m) == Cardinality(DOMAIN m.Inform_verbs)

TooManyVerbs(m) == ~source.glulx /\ no_Inform_verbs(m) >= VerbLimit

NewVerb(m, l, lines) ==
  [m EXCEPT !.Inform_verbs = [v \in 0 .. no_Inform_verbs(m) |->
     IF v = no_Inform_verbs(m) THEN [l |-> l, lines |-> lines, used |-> FALSE] ELSE @[v]]]

\* The Inform-verb of a dictionary entry in English_verbs; -1 if there is none,
\* or none yet.
VerbOf(m, entry) ==
  IF entry \in DOMAIN m.English_verbs THEN m.English_verbs[entry] ELSE -1

get_existing_verb(m, word) == VerbOf(m, dictionary_find(m, word))

SetVerb(m, entries, verb) ==
  FoldSet(LAMBDA entry, n : dictionary_set_verb_number(
             [n EXCEPT !.English_verbs = [e \in DOMAIN @ \cup {entry} |->
                IF e = entry THEN verb ELSE @[e]]], entry, verb),
          m, entries)

\* All lines of a directive, the first of them at number `first`.
Lines(m, verb, allmeta, first, lines) ==
  FoldLeftDomain(LAMBDA n, i : IF n.errors THEN n
                               ELSE grammar_line(n, verb, allmeta, first + i - 1, lines[i]),
                 m, lines)

\* The old lines, from number `lines` on, move up by one.
Shifted(l, old, lines) ==
  [k \in DOMAIN l \cup {old + lines} |->
     IF k \in lines + 1 .. lines + old THEN l[k - 1]
     ELSE IF k \in DOMAIN l THEN l[k] ELSE 0]

Before(m, verb, old, lines) ==
  [m EXCEPT !.Inform_verbs[verb].l = Shifted(@, old, lines)]

\* Bug: The gap that the last turn opened is left in place.
ExtendFirstBug(m, verb, lines) ==
  LET old == m.Inform_verbs[verb].lines
      new == Len(lines)
      n   == FoldLeftDomain(LAMBDA p, i : IF p.errors THEN p
                              ELSE grammar_line(Before(p, verb, old, i - 1), verb, FALSE, i - 1, lines[i]),
                            m, lines)
  IN  [Before(n, verb, old, new) EXCEPT !.Inform_verbs[verb].lines = old + new]

\* EXTEND_FIRST: before each line the old ones make room for it, and before the
\* end of the directive is seen they do so once too often.
ExtendFirst(m, verb, lines) ==
  LET old == m.Inform_verbs[verb].lines
      new == Len(lines)
      n   == FoldLeftDomain(LAMBDA p, i : IF p.errors THEN p
                              ELSE grammar_line(Before(p, verb, old, i - 1), verb, FALSE, i - 1, lines[i]),
                            m, lines)
      p   == Before(n, verb, old, new)
  IN  [p EXCEPT !.Inform_verbs[verb].lines = old + new,
                !.Inform_verbs[verb].l = [k \in DOMAIN @ |->
                   IF k \in new .. new + old - 1 THEN @[k + 1] ELSE @[k]]]

do_extend_verb(m, verb, mode, lines) ==
  IF mode = "first" THEN ExtendFirst(m, verb, lines)
  ELSE LET first == IF mode = "replace" THEN 0 ELSE m.Inform_verbs[verb].lines
       IN  [Lines(m, verb, FALSE, first, lines) EXCEPT !.Inform_verbs[verb].lines = first + Len(lines)]

Added(m, d) ==
  FoldLeft(LAMBDA n, word : dictionary_add(n, word, {"verb"} \cup (IF d.meta THEN {"meta"} ELSE {})),
           m, d.words)

\* A Verb for words that all stand for the same verb already: "Extend last".
SameVerb(m, d) ==
  /\ get_existing_verb(m, d.words[1]) # -1
  /\ \A i \in DOMAIN d.words : get_existing_verb(m, d.words[i]) = get_existing_verb(m, d.words[1])
  /\ d.like = 0 /\ d.lines # << >>

make_verb(m, d) ==
  LET n       == Added(m, d)
      entries == {dictionary_find(n, d.words[i]) : i \in DOMAIN d.words}
      verb    == no_Inform_verbs(n)
  IN  IF SameVerb(m, d)
      THEN do_extend_verb(n, get_existing_verb(m, d.words[1]), "last", d.lines)
      ELSE IF \/ entries \cap DOMAIN m.English_verbs # {}
              \/ Cardinality(entries) < Len(d.words)
      THEN Error(m)
      ELSE IF d.like # 0
      THEN IF get_existing_verb(m, d.like) = -1 THEN Error(m)
           ELSE SetVerb(n, entries, get_existing_verb(m, d.like))
      ELSE IF TooManyVerbs(m) THEN Error(m)
      ELSE [Lines(SetVerb(NewVerb(n, << >>, 0), entries, verb), verb, d.meta, 0, d.lines)
              EXCEPT !.Inform_verbs[verb].lines = Len(d.lines)]

\* Extend only: the words get a verb of their own, with the lines of the verb
\* of the last one.  The list of words is not empty and does not repeat a word.
ExtendOnly(m, d) ==
  LET old == m.Inform_verbs[get_existing_verb(m, Last(d.words))]
      new == no_Inform_verbs(m)
      n   == SetVerb(m, {dictionary_find(m, d.words[i]) : i \in DOMAIN d.words}, new)
  IN  do_extend_verb(NewVerb(n, [k \in 0 .. old.lines - 1 |-> old.l[k]], old.lines),
                     new, d.mode, d.lines)

extend_verb(m, d) ==
  IF \/ \E i \in DOMAIN d.words : get_existing_verb(m, d.words[i]) = -1
     \/ d.only /\ TooManyVerbs(m)
  THEN Error(m)
  ELSE IF d.only THEN ExtendOnly(m, d)
  ELSE do_extend_verb(m, get_existing_verb(m, d.words[1]), d.mode, d.lines)
---------------------------------------------------------------------------
(* The end of the pass and the story file.                                 *)

grammar_backpatch_routines(m) ==
  FoldSet(LAMBDA f, n : [n EXCEPT !.grammar_lines[f.line].tokens[f.token].data = Address[f.routine]],
          m, m.fixups)

locate_dead_grammar_lines(m) ==
  [m EXCEPT !.Inform_verbs = [v \in DOMAIN @ |->
     [@[v] EXCEPT !.used = \E e \in DOMAIN m.English_verbs : m.English_verbs[e] = v]]]

\* A token with the address of its dictionary word, if it has one.
Placed(m, cell) ==
  IF source.version = 2 /\ cell.byte = 66
  THEN [cell EXCEPT !.data = final_dict_order(m, @)] ELSE cell

\* The part of a line that construct_storyfile copies, with the number of the
\* tokens that are not prepositions under version 1.
WrittenLine(m, line) ==
  LET tokens == [i \in DOMAIN line.tokens |-> Placed(m, line.tokens[i])] IN
  [action  |-> internal_to_ext(m, line.action),
   reverse |-> line.reverse,
   count   |-> CASE source.version = 1 -> Cardinality({i \in DOMAIN tokens : tokens[i].byte < 180})
                 [] source.version = 3 -> line.count
                 [] OTHER -> -1,
   tokens  |-> CASE source.version = 1 ->
                      [i \in 1 .. MaxTokens1 |-> IF i \in DOMAIN tokens THEN tokens[i] ELSE Cell(0, 0)]
                 [] source.version = 3 -> SubSeq(tokens, 1, line.count)
                 [] OTHER -> tokens]

\* The lines of a verb nobody can say are left out.
WrittenVerb(m, verb) ==
  IF verb.used THEN [i \in 1 .. verb.lines |-> WrittenLine(m, m.grammar_lines[verb.l[i - 1]])] ELSE << >>

construct_storyfile(m) ==
  [verbs      |-> [v \in DOMAIN m.Inform_verbs |-> WrittenVerb(m, m.Inform_verbs[v])],
   actions    |-> [i \in DOMAIN m.actions |-> m.actions[Sorted(m)[i] + 1].byte_offset],
   preactions |-> m.grammar_token_routine,
   adjectives |-> [i \in DOMAIN m.adjectives |-> final_dict_order(m, m.adjectives[i])],
   dictionary |-> [place \in 0 .. Len(m.dictionary) - 1 |->
                     m.dictionary[CHOOSE n \in DOMAIN m.dictionary : final_dict_order(m, n) = place]],
   uses       |-> [i \in DOMAIN m.uses |->
                     [name |-> m.uses[i].name,
                      value |-> IF m.uses[i].marked THEN internal_to_ext(m, m.uses[i].value)
                                                    ELSE m.uses[i].value]],
   metas      |-> Cardinality({i \in DOMAIN m.actions : m.actions[i].meta})]
---------------------------------------------------------------------------
Init ==
  /\ source \in Programs
  /\ at = 0
  /\ g = [dictionary |-> << >>, English_verbs |-> << >>, Inform_verbs |-> << >>,
          grammar_lines |-> << >>, actions |-> << >>, no_fake_actions |-> 0,
          symbols |-> << >>, adjectives |-> << >>, grammar_token_routine |-> << >>,
          fixups |-> {}, uses |-> << >>, errors |-> FALSE]
  /\ story = << >>

Directive(kind) ==
  /\ at < Len(source.directives) /\ ~g.errors
  /\ source.directives[at + 1].kind = kind
  /\ at' = at + 1
  /\ UNCHANGED <<source, story>>

Verb == Directive("Verb") /\ g' = make_verb(g, source.directives[at + 1])
Extend == Directive("Extend") /\ g' = extend_verb(g, source.directives[at + 1])
Fake == Directive("Fake_Action") /\ g' = make_fake_action(g, source.directives[at + 1].name)
Use == Directive("Mention") /\ g' = Mention(g, source.directives[at + 1].name)

\* run_pass after the parse: the addresses are known, actions are sorted.
EndPass ==
  /\ at = Len(source.directives) /\ ~g.errors
  /\ g' = locate_dead_grammar_lines(grammar_backpatch_routines(find_the_actions(g)))
  /\ at' = at + 1
  /\ UNCHANGED <<source, story>>

Construct ==
  /\ at = Len(source.directives) + 1 /\ ~g.errors /\ story = << >>
  /\ story' = construct_storyfile(g)
  /\ UNCHANGED <<source, at, g>>

Next == Verb \/ Extend \/ Fake \/ Use \/ EndPass \/ Construct

Spec == Init /\ [][Next]_vars
---------------------------------------------------------------------------
(* What the tables of the story file say, read as list_grammar_line_v1, _v2 *)
(* and _v3 read theirs.                                                     *)

Routine(address) == CHOOSE r \in DOMAIN Address : Address[r] = address
IsRoutine(address) == \E r \in DOMAIN Address : Address[r] = address

\* The token a cell stands for, [kind, data, next, prior].
Means(kind, data, cell) == [kind |-> kind, data |-> data, next |-> cell.next, prior |-> cell.prior]

WordAt(place) == IF place \in DOMAIN story.dictionary THEN story.dictionary[place].word ELSE -1
RoutineAt(address) == IF IsRoutine(address) THEN Routine(address) ELSE "none"
Adjective(n) == IF n + 1 \in DOMAIN story.adjectives THEN WordAt(story.adjectives[n + 1]) ELSE -1
Preaction(n) == IF n + 1 \in DOMAIN story.preactions THEN RoutineAt(story.preactions[n + 1]) ELSE "none"

ReadToken1(cell) ==
  LET b == cell.byte IN
  CASE b < 16             -> Means("elementary", b, cell)
    [] b \in 16 .. 47     -> Means("noun", Preaction(b - 16), cell)
    [] b \in 48 .. 79     -> Means("routine", Preaction(b - 48), cell)
    [] b \in 80 .. 127    -> Means("scope", Preaction(b - 80), cell)
    [] b \in 128 .. 159   -> Means("attribute", b - 128, cell)
    [] OTHER              -> Means("word", Adjective(255 - b), cell)

ReadToken2(cell) ==
  LET routine(d) == IF source.version = 3 THEN Preaction(d) ELSE RoutineAt(d) IN
  CASE cell.byte = 1   -> Means("elementary", cell.data, cell)
    [] cell.byte = 66  -> Means("word", IF source.version = 3 THEN Adjective(cell.data)
                                        ELSE WordAt(cell.data), cell)
    [] cell.byte = 4   -> Means("attribute", cell.data, cell)
    [] cell.byte = 131 -> Means("noun", routine(cell.data), cell)
    [] cell.byte = 133 -> Means("scope", routine(cell.data), cell)
    [] cell.byte = 134 -> Means("routine", routine(cell.data), cell)

\* Version 1 gives only the number of tokens that are not prepositions.
TokensIn(line) ==
  IF source.version = 1
  THEN LET others(i) == Cardinality({j \in 1 .. i : line.tokens[j].byte < 160})
           last == CHOOSE i \in 0 .. Len(line.tokens) :
                     /\ others(i) <= line.count
                     /\ i < Len(line.tokens) => others(i + 1) > line.count
       IN  [i \in 1 .. last |-> ReadToken1(line.tokens[i])]
  ELSE [i \in DOMAIN line.tokens |-> ReadToken2(line.tokens[i])]

ReadLine(line) ==
  [tokens  |-> TokensIn(line),
   action  |-> RoutineAt(story.actions[line.action + 1]),
   reverse |-> line.reverse]

\* The lines that the dictionary leads to from a word.
ReadVerb(entry) ==
  LET lines == story.verbs[VerbField - entry.verb] IN
  [i \in DOMAIN lines |-> ReadLine(lines[i])]
---------------------------------------------------------------------------
World == INSTANCE GrammarWorld WITH
  MaxTokens3 <- CountField - 1,
  MaxActions1 <- FakeBase1, MaxActions <- ActionField, MaxVerbs <- VerbLimit

Said == World!Meaning(source, DOMAIN Address)

\* A program that may be compiled gets a story file in which each word leads to
\* the lines its Verb and Extend directives give it, in their order, with the
\* tokens, their alternatives and the action of each; a program that may not
\* gets an error (make_verb, extend_verb, grammar_line and the tables).
GrammarAsDeclared ==
  /\ story # << >> =>
       LET said == Said IN
       /\ said.legal
       /\ \A place \in DOMAIN story.dictionary :
            LET entry == story.dictionary[place]
                verbs == {i \in DOMAIN said.groups : entry.word \in said.groups[i].keys}
            IN  ("verb" \in entry.flags) = (verbs # {})
                /\ \A i \in verbs : ReadVerb(entry) = said.groups[i].lines
  /\ g.errors => ~Said.legal

\* ##Action is, wherever it is used, the place of the action's routine in the
\* table of actions, meta actions before all others; a fake action is none of
\* them and like no other (sort_actions and the backpatching).
ActionsAsDeclared ==
  story # << >> =>
    LET said == Said IN
    \A i \in DOMAIN story.uses :
      LET use == story.uses[i] IN
      IF use.name \in said.actions
      THEN /\ use.value + 1 \in DOMAIN story.actions
           /\ story.actions[use.value + 1] = Address[use.name]
           /\ source.metas => (use.value < story.metas) = (use.name \in said.metas)
      ELSE /\ use.name \in said.fakes
           /\ use.value >= Len(story.actions)
           /\ \A j \in DOMAIN story.uses :
                story.uses[j].value = use.value => story.uses[j].name = use.name
=============================================================================
