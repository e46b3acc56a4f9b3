------------------------------ MODULE MCGrammar -------------------------------
EXTENDS Integers, Sequences, TLC

CONSTANT LongLines      \* whether only the programs of Long are compiled

VARIABLES source, at, g, story

Tok(kind, data) == [kind |-> kind, data |-> data]
Slash == Tok("/", 0)
Noun == Tok("elementary", 0)
Held == Tok("elementary", 1)
Word(w) == Tok("word", w)
Line(tokens, action) == [tokens |-> tokens, action |-> action, reverse |-> FALSE, meta |-> FALSE]
Reversed(line) == [line EXCEPT !.reverse = TRUE]
Meta(line) == [line EXCEPT !.meta = TRUE]

Verb(words, lines) == [kind |-> "Verb", meta |-> FALSE, words |-> words, like |-> 0, lines |-> lines]
MetaVerb(words, lines) == [Verb(words, lines) EXCEPT !.meta = TRUE]
VerbLike(words, like) == [Verb(words, <<>>) EXCEPT !.like = like]
Extend(word, mode, lines) ==
  [kind |-> "Extend", only |-> FALSE, words |-> <<word>>, mode |-> mode, lines |-> lines]
ExtendOnly(words, mode, lines) ==
  [kind |-> "Extend", only |-> TRUE, words |-> words, mode |-> mode, lines |-> lines]
Fake(name) == [kind |-> "Fake_Action", name |-> name]
Mention(name) == [kind |-> "Mention", name |-> name]

(* Words 10 to 19 are the same to the dictionary, and so on.                *)
Prepare(w) == w \div 10

Addresses == [Take |-> 101, Drop |-> 102, Score |-> 103, Look |-> 104, find |-> 105, list |-> 106]

Target(glulx, version, metas, deferred) ==
  [glulx |-> glulx, version |-> version, metas |-> metas, deferred |-> deferred]
Targets == {Target(FALSE, 1, TRUE, FALSE), Target(FALSE, 2, FALSE, FALSE), Target(FALSE, 3, TRUE, FALSE),
            Target(TRUE, 2, TRUE, TRUE)}
Program(target, directives) == target @@ [directives |-> directives]

(* Two verbs, then three directives that divide, join and extend them.      *)
TakeNoun == Line(<<Noun>>, "Take")
DropOff == Line(<<Word(50), Tok("noun", "find")>>, "Drop")
ScoreIt == Line(<<>>, "Score")
Opening == <<Mention("Score"), Verb(<<20, 10>>, <<DropOff, TakeNoun>>), MetaVerb(<<30>>, <<ScoreIt>>)>>
More == Line(<<Held, Word(55)>>, "Take")
Fix == Line(<<Tok("routine", "list")>>, "Look")
Changes ==
  {Extend(10, "last", <<More>>), Extend(20, "first", <<More, Fix>>), Extend(30, "first", <<>>),
   Extend(11, "replace", <<Fix, ScoreIt>>), Extend(50, "last", <<More>>),
   ExtendOnly(<<10>>, "first", <<Fix>>), ExtendOnly(<<10, 20>>, "last", <<Reversed(More)>>),
   ExtendOnly(<<20, 30>>, "replace", <<Meta(Fix)>>),
   Verb(<<20, 10>>, <<More>>), Verb(<<30, 10>>, <<Fix>>), Verb(<<40, 41>>, <<Fix>>),
   VerbLike(<<40>>, 20), VerbLike(<<41, 60>>, 40), Verb(<<60>>, <<>>),
   MetaVerb(<<40>>, <<Fix>>), Mention("Drop"), Mention("Gone"), Fake("Gone"), Fake("Look")}
Extending ==
  {Program(t, Opening \o <<a, b, c>> \o <<Mention("Take")>>) :
     t \in Targets, a \in Changes, b \in Changes, c \in Changes}

(* Every line of up to three tokens, after one that has used up numbers.    *)
Kinds == {Slash, Noun, Tok("elementary", 9), Word(50), Word(51), Word(20), Tok("noun", "find"),
          Tok("scope", "list"), Tok("routine", "list"), Tok("attribute", 2)}
Lines(kinds, n) == UNION {[1..k -> kinds] : k \in 0..n}
Tokens ==
  {Program(t, <<Verb(<<10>>, <<Line(<<Word(60), Tok("scope", "find")>>, "Take"), Line(l, "Drop"),
                              Line(<<Word(51), Slash, Word(20)>>, "Drop")>>)>>) :
     t \in Targets, l \in Lines(Kinds, 3)}
Longer ==
  {Program(t, <<Verb(<<10>>, <<Line(l, "Drop")>>)>>) :
     t \in {s \in Targets : s.version # 3}, l \in [1..5 -> {Word(50), Noun, Slash}]}

(* A line with more tokens than version 3 has room for.                     *)
Long ==
  {Program(Target(FALSE, 3, FALSE, FALSE), <<Verb(<<10>>, <<Line([i \in 1..4 |-> Noun], "Take")>>)>>)}

G == INSTANCE Grammar WITH
  Programs <- IF LongLines THEN Long ELSE Extending \cup Tokens \cup Longer,
  Prepared <- Prepare, Address <- Addresses, MaxTokens1 <- 3, CountField <- 4,
  FakeBase1 <- 3, FakeBase2 <- 6, ActionField <- 5, VerbLimit <- 4

GrammarSpec == G!Init /\ [][G!Next]_G!vars

(* Words lead to the lines their directives give them; see Grammar.         *)
GrammarAsDeclared == g # <<>> => G!GrammarAsDeclared

(* Action numbers lead to the routines of the actions; see Grammar.         *)
ActionsAsDeclared == G!ActionsAsDeclared
===============================================================================
