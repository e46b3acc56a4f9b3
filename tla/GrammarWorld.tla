---------------------------- MODULE GrammarWorld ----------------------------
(***************************************************************************)
(* What a program says about its verbs, whatever tables the compiler makes *)
(* of it: the words fall into groups, and each group has its list of       *)
(* lines, which Verb and Extend add to from either end, replace, or copy   *)
(* for some of the words.                                                  *)
(***************************************************************************)
EXTENDS Integers, Sequences, FiniteSets, SequencesExt

CONSTANTS
  Prepared(_),   \* what the dictionary keeps of a word
  MaxTokens1, MaxTokens3,              \* tokens of a line, versions 1 and 3
  MaxActions1, MaxActions, MaxVerbs    \* actions with version 1, in Z-code
                                       \* otherwise, and verbs in Z-code

Keys(words) == {Prepared(words[i]) : i \in DOMAIN words}

GroupsOf(r, keys) == {i \in DOMAIN r.groups : r.groups[i].keys \cap keys # {}}
Group(r, word) == CHOOSE i \in DOMAIN r.groups : Prepared(word) \in r.groups[i].keys
HasVerb(r, word) == GroupsOf(r, {Prepared(word)}) # {}

\* A slash stands between two words, and not under version 1.
SlashesLegal(p, tokens) ==
  \A i \in DOMAIN tokens : tokens[i].kind = "/" =>
    /\ p.version # 1
    /\ i - 1 \in DOMAIN tokens /\ tokens[i - 1].kind = "word"
    /\ i + 1 \in DOMAIN tokens /\ tokens[i + 1].kind = "word"

LineLegal(p, r, line) ==
  /\ SlashesLegal(p, line.tokens)
  /\ p.version = 1 => /\ ~line.reverse
                      /\ \A i \in DOMAIN line.tokens :
                           line.tokens[i] # [kind |-> "elementary", data |-> 9]
  /\ line.meta => p.metas
  /\ line.action \notin r.fakes

\* The tokens a player's words are matched against: without the slashes, each
\* with its alternatives noted, and no more than there is room for.
Matched(p, tokens) ==
  LET slash(i) == i \in DOMAIN tokens /\ tokens[i].kind = "/"
      all == SelectSeq([i \in DOMAIN tokens |-> [kind |-> tokens[i].kind,
                          data |-> IF tokens[i].kind = "word" THEN Prepared(tokens[i].data)
                                   ELSE IF tokens[i].kind = "/" THEN 0 ELSE tokens[i].data,
                          next |-> slash(i + 1), prior |-> slash(i - 1)]],
                       LAMBDA t : t.kind # "/")
      most == CASE p.version = 1 -> MaxTokens1 [] p.version = 3 -> MaxTokens3 [] OTHER -> Len(all)
  IN  SubSeq(all, 1, IF Len(all) < most THEN Len(all) ELSE most)

Said(p, lines) ==
  [i \in DOMAIN lines |-> [tokens |-> Matched(p, lines[i].tokens),
                           action |-> lines[i].action, reverse |-> lines[i].reverse]]

\* What the lines of a directive add besides themselves.
Noted(p, r, d, allmeta) ==
  [r EXCEPT
     !.actions = @ \cup {d.lines[i].action : i \in DOMAIN d.lines},
     !.metas   = @ \cup {d.lines[i].action : i \in {j \in DOMAIN d.lines : allmeta \/ d.lines[j].meta}},
     !.legal   = @ /\ \A i \in DOMAIN d.lines : LineLegal(p, r, d.lines[i])]

Wrong(r) == [r EXCEPT !.legal = FALSE]

AddLines(p, r, group, where, lines) ==
  [r EXCEPT !.groups[group].lines =
     CASE where = "replace" -> Said(p, lines)
       [] where = "first"   -> Said(p, lines) \o @
       [] OTHER             -> @ \o Said(p, lines)]

Verb(p, r, d) ==
  LET of == GroupsOf(r, Keys(d.words)) IN
  IF /\ d.like = 0 /\ d.lines # << >>
     /\ \A i \in DOMAIN d.words : HasVerb(r, d.words[i])
     /\ Cardinality(of) = 1
  THEN Noted(p, AddLines(p, r, CHOOSE i \in of : TRUE, "last", d.lines), d, FALSE)
  ELSE IF of # {} \/ Cardinality(Keys(d.words)) < Len(d.words) THEN Wrong(r)
  ELSE IF d.like # 0
  THEN IF HasVerb(r, d.like) THEN [r EXCEPT !.groups[Group(r, d.like)].keys = @ \cup Keys(d.words)]
       ELSE Wrong(r)
  ELSE Noted(p, [r EXCEPT !.groups = Append(@, [keys |-> Keys(d.words), lines |-> Said(p, d.lines)])],
             d, d.meta)

Extend(p, r, d) ==
  IF \E i \in DOMAIN d.words : ~HasVerb(r, d.words[i]) THEN Wrong(r)
  ELSE IF ~d.only THEN Noted(p, AddLines(p, r, Group(r, d.words[1]), d.mode, d.lines), d, FALSE)
  ELSE LET lines  == r.groups[Group(r, Last(d.words))].lines
           others == [i \in DOMAIN r.groups |-> [r.groups[i] EXCEPT !.keys = @ \ Keys(d.words)]]
           split  == [r EXCEPT !.groups = Append(others, [keys |-> Keys(d.words), lines |-> lines])]
       IN  Noted(p, AddLines(p, split, Len(split.groups), d.mode, d.lines), d, FALSE)

Fake(r, name) ==
  IF name \in r.actions \cup r.fakes THEN Wrong(r) ELSE [r EXCEPT !.fakes = @ \cup {name}]

Use(r, name) == IF name \in r.fakes THEN r ELSE [r EXCEPT !.actions = @ \cup {name}]

\* What the whole program says; routines are those there are.
Meaning(p, routines) ==
  LET all == FoldLeft(LAMBDA r, d :
               IF ~r.legal THEN r ELSE
               CASE d.kind = "Verb"        -> Verb(p, r, d)
                 [] d.kind = "Extend"      -> Extend(p, r, d)
                 [] d.kind = "Fake_Action" -> Fake(r, d.name)
                 [] d.kind = "Mention"     -> Use(r, d.name),
               [groups |-> << >>, actions |-> {}, metas |-> {}, fakes |-> {}, legal |-> TRUE],
               p.directives)
  IN  [all EXCEPT !.legal =
         /\ @
         /\ all.actions \subseteq routines
         /\ p.version = 1 => Cardinality(all.actions) <= MaxActions1
         /\ ~p.glulx => Cardinality(all.actions) <= MaxActions /\ Len(all.groups) <= MaxVerbs]
=============================================================================
