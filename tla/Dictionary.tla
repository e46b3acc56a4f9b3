----------------------------- MODULE Dictionary -----------------------------
(***************************************************************************)
(* The dictionary while it is compiled (text.c): dictionary_add walks down *)
(* a tree whose links are red or black, splitting and rotating on its way, *)
(* until it finds the word or the place for it; dictionary_find reads the  *)
(* tree; sort_dictionary puts the entries in order.  One action is one     *)
(* turn of the loop of dictionary_add.                                     *)
(***************************************************************************)
EXTENDS Integers, Sequences, FiniteSets

CONSTANTS
  Texts,             \* dictionary words in the source:
                     \* [letters, pos, neg], letters numbered from 1
  Resolution,        \* DICT_WORD_SIZE
  Arguments,         \* flag1 of the callers, as sets of flags
  TruncateFlag,      \* DICT_TRUNCATE_FLAG
  ImplicitSingular,  \* DICT_IMPLICIT_SINGULAR
  Beginnings,        \* bound: the texts a source begins with
  MaxAdded,          \* bound: entries that are added after the beginning
  MaxAgain           \* bound: mentions of words that have an entry

Flags == {"noun", "plural", "sing", "prep", "trunc"}

ASSUME BoundsAssumption ==
  /\ \A text \in Texts :
       text.letters \in Seq(Nat) /\ text.pos \subseteq Flags /\ text.neg \subseteq Flags
  /\ Beginnings \subseteq Seq(Texts)
  /\ Resolution \in Nat /\ MaxAdded \in Nat /\ MaxAgain \in Nat
  /\ Arguments \subseteq SUBSET Flags
  /\ TruncateFlag \in BOOLEAN /\ ImplicitSingular \in BOOLEAN

VARIABLES
  start,     \* the beginning of this source
  dtree,     \* [root, node]: root, and dtree[] as a function on the entries
  codes,     \* dict_sort_codes: entry |-> sort code
  flags,     \* the first data field of the entries of dictionary[]
  walk,      \* the word being added and the locals of dictionary_add in its loop
  answer,    \* what dictionary_add returned last
  order,     \* final_dict_order, or << >> before sort_dictionary
  again      \* mentions so far of words that had an entry

dictionaryVars == <<start, dtree, codes, flags, walk, answer, order, again>>

VACANT == -1
Entries == DOMAIN codes
dict_entries == Cardinality(Entries)

---------------------------------------------------------------------------
(* dictionary_prepare and compare_sorts.                                   *)

Prepared(text) ==
  [i \in 1 .. Resolution |->
     IF i <= Len(text.letters) THEN text.letters[i] ELSE 0]

Truncated(text) == TruncateFlag /\ Len(text.letters) > Resolution

Before(c, d) ==
  \E i \in 1 .. Resolution :
    c[i] < d[i] /\ \A j \in 1 .. i - 1 : c[j] = d[j]

\* flag1 of dictionary_add after the flags of the text were applied to it.
FlagsOf(text, flag1) ==
  LET pos   == text.pos \cup (IF Truncated(text) THEN {"trunc"} ELSE {})
      given == (flag1 \ text.neg) \cup pos
  IN  IF /\ ImplicitSingular
         /\ "noun" \in given /\ "plural" \notin given /\ "sing" \notin text.neg
      THEN given \cup {"sing"}
      ELSE given

\* What texts can lead to.
Words == {Prepared(text) : text \in Texts}
FlagSets == {FlagsOf(text, flag1) : text \in Texts, flag1 \in Arguments}

---------------------------------------------------------------------------
(* The tree.  w is the record of locals, t the tree.                       *)

Red(t, x) == x # VACANT /\ t.node[x].colour = "red"

Child(t, x, side) == t.node[x].branch[side]

\* if (ggf == VACANT) root = x; else dtree[ggf].branch[ggfr] = x;
Hang(t, w, x) ==
  IF w.ggf = VACANT THEN [t EXCEPT !.root = x]
                    ELSE [t EXCEPT !.node[w.ggf].branch[w.ggfr] = x]

\* Bug: A single rotation forgets the far side of "f".
SingleBug(t, w) ==
  [Hang(t, w, w.f) EXCEPT
     !.node[w.gf].branch[w.gfr]  = VACANT,
     !.node[w.f].branch[1 - w.fr] = w.gf,
     !.node[w.f].colour  = "black",
     !.node[w.gf].colour = "red"]

\* "gf" is hung from "f", which takes its place.
Single(t, w) ==
  [Hang(t, w, w.f) EXCEPT
     !.node[w.gf].branch[w.gfr]  = Child(t, w.f, 1 - w.fr),
     !.node[w.f].branch[1 - w.fr] = w.gf,
     !.node[w.f].colour  = "black",
     !.node[w.gf].colour = "red"]

\* "at" takes the place of "gf", and "f" and "gf" are hung from it.
Double(t, w) ==
  [Hang(t, w, w.at) EXCEPT
     !.node[w.f].branch[w.fr]   = Child(t, w.at, w.gfr),
     !.node[w.gf].branch[w.gfr] = Child(t, w.at, w.fr),
     !.node[w.at].branch[w.gfr] = w.f,
     !.node[w.at].branch[w.fr]  = w.gf,
     !.node[w.at].colour = "black",
     !.node[w.gf].colour = "red"]

MustTurn(t, w) == w.f # VACANT /\ w.gf # VACANT /\ Red(t, w.f)

\* The rotation that keeps two red links from following each other.
Rotated(t, w) ==
  IF ~MustTurn(t, w) THEN t
  ELSE IF w.fr = w.gfr THEN Single(t, w) ELSE Double(t, w)

\* Where dictionary_add stands after it.
Reseated(t, w) ==
  IF ~MustTurn(t, w) THEN w
  ELSE IF w.fr = w.gfr
  THEN [w EXCEPT !.gf = w.ggf, !.gfr = w.ggfr]
  ELSE [w EXCEPT !.r  = 1 - w.r,
                 !.at = IF 1 - w.r = w.fr THEN w.f ELSE w.gf,
                 !.f  = w.at, !.fr = w.r,
                 !.gf = w.ggf, !.gfr = w.ggfr]

Redden(t, x) == [t EXCEPT !.node[x].colour = "red"]

\* A node with two red links below it passes the red on.
BothRed(t, x) == Red(t, Child(t, x, 0)) /\ Red(t, Child(t, x, 1))

Split(t, x) ==
  Redden([t EXCEPT !.node[Child(t, x, 0)].colour = "black",
                   !.node[Child(t, x, 1)].colour = "black"], x)

\* CreateEntry.
NewNode(t) ==
  [t EXCEPT !.node = [x \in DOMAIN t.node \cup {dict_entries} |->
     IF x = dict_entries
     THEN [branch |-> [side \in 0 .. 1 |-> VACANT], colour |-> "black"]
     ELSE t.node[x]]]

\* The accession number of a word, or VACANT: dictionary_find.
dictionary_find(t, word) ==
  LET from[x \in DOMAIN t.node \cup {VACANT}] ==
        IF x = VACANT \/ word = codes[x] THEN x
        ELSE from[Child(t, x, IF Before(word, codes[x]) THEN 0 ELSE 1)]
  IN  from[t.root]

\* The entries of the tree from left to right: recursively_sort.
Traversal(t) ==
  LET below[x \in DOMAIN t.node \cup {VACANT}] ==
        IF x = VACANT THEN << >>
        ELSE below[Child(t, x, 0)] \o <<x>> \o below[Child(t, x, 1)]
  IN  below[t.root]

\* The locals as the loop begins.
From(word, given, at) ==
  [word |-> word, flags |-> given,
   ggf |-> VACANT, gf |-> VACANT, f |-> VACANT, at |-> at,
   ggfr |-> 0, gfr |-> 0, fr |-> 0, r |-> 0]

Outside == From(<< >>, {}, VACANT)
---------------------------------------------------------------------------
DictionaryInit ==
  /\ start \in Beginnings
  /\ dtree = [root |-> VACANT, node |-> << >>]
  /\ codes = << >>
  /\ flags = << >>
  /\ walk = Outside
  /\ answer = VACANT
  /\ order = << >>
  /\ again = 0

CreateEntry(word, given) ==
  LET number == dict_entries IN
  /\ codes' = [n \in Entries \cup {number} |-> IF n = number THEN word ELSE codes[n]]
  /\ flags' = [n \in Entries \cup {number} |-> IF n = number THEN given ELSE flags[n]]
  /\ answer' = number
  /\ walk' = Outside
  /\ UNCHANGED <<start, order, again>>

\* The bounds: a source may mention this text now.
MayMention(text) ==
  IF dict_entries < Len(start) THEN text = start[dict_entries + 1]
  ELSE IF \E n \in Entries : codes[n] = Prepared(text)
  THEN again < MaxAgain
  ELSE dict_entries < Len(start) + MaxAdded

\* dictionary_add, up to its loop.
AddFirst(text, flag1) ==
  /\ walk = Outside /\ order = << >>
  /\ dtree.root = VACANT
  /\ MayMention(text)
  /\ dtree' = NewNode([dtree EXCEPT !.root = 0])
  /\ CreateEntry(Prepared(text), FlagsOf(text, flag1))

Add(text, flag1) ==
  /\ walk = Outside /\ order = << >>
  /\ dtree.root # VACANT
  /\ MayMention(text)
  /\ walk' = From(Prepared(text), FlagsOf(text, flag1), dtree.root)
  /\ UNCHANGED <<start, dtree, codes, flags, answer, order, again>>

\* Bug: The flags of a later mention replace those of the entry.
MergeBug ==
  /\ walk # Outside
  /\ walk.word = codes[walk.at]
  /\ flags' = [flags EXCEPT ![walk.at] = walk.flags]
  /\ answer' = walk.at
  /\ again' = again + 1
  /\ walk' = Outside
  /\ UNCHANGED <<start, dtree, codes, order>>

\* if (n==0): the word has an entry.
Merge ==
  /\ walk # Outside
  /\ walk.word = codes[walk.at]
  /\ flags' = [flags EXCEPT ![walk.at] = @ \cup walk.flags]
  /\ answer' = walk.at
  /\ again' = again + 1
  /\ walk' = Outside
  /\ UNCHANGED <<start, dtree, codes, order>>

\* A turn that goes on: split and rotate if need be, then one link down.
Descend ==
  /\ walk # Outside
  /\ walk.word # codes[walk.at]
  /\ LET w     == [walk EXCEPT !.r = IF Before(walk.word, codes[walk.at]) THEN 0 ELSE 1]
         split == BothRed(dtree, w.at)
         red   == Split(dtree, w.at)
         t     == IF split THEN Rotated(red, w) ELSE dtree
         v     == IF split THEN Reseated(red, w) ELSE w
     IN  /\ Child(t, v.at, v.r) # VACANT
         /\ dtree' = t
         /\ walk' = [v EXCEPT !.ggf = v.gf, !.gf = v.f, !.f = v.at,
                              !.at = Child(t, v.at, v.r),
                              !.ggfr = v.gfr, !.gfr = v.fr, !.fr = v.r]
  /\ UNCHANGED <<start, codes, flags, answer, order, again>>

\* The last turn: the new word goes below "at".  A node that is split has no
\* vacant branch, so the split of this turn does not come before it.
Attach ==
  /\ walk # Outside
  /\ walk.word # codes[walk.at]
  /\ LET w   == [walk EXCEPT !.r = IF Before(walk.word, codes[walk.at]) THEN 0 ELSE 1]
         red == Redden(dtree, w.at)
         t   == Rotated(red, w)
         v   == Reseated(red, w)
     IN  /\ Child(dtree, w.at, w.r) = VACANT
         /\ dtree' = NewNode([t EXCEPT !.node[v.at].branch[v.r] = dict_entries])
  /\ CreateEntry(walk.word, walk.flags)

sort_dictionary ==
  /\ walk = Outside /\ order = << >> /\ Entries # {}
  /\ LET sorted == Traversal(dtree)
     IN  order' = [n \in Entries |->
                     IF \E i \in DOMAIN sorted : sorted[i] = n
                     THEN (CHOOSE i \in DOMAIN sorted : sorted[i] = n) - 1
                     ELSE 0]
  /\ UNCHANGED <<start, dtree, codes, flags, walk, answer, again>>

DictionaryNext ==
  \/ \E text \in Texts, flag1 \in Arguments : AddFirst(text, flag1) \/ Add(text, flag1)
  \/ Merge \/ Descend \/ Attach
  \/ sort_dictionary

DictionarySpec == DictionaryInit /\ [][DictionaryNext]_dictionaryVars
---------------------------------------------------------------------------
\* At every turn of the loop, rotated or not, dictionary_find finds every word
\* that was added, and no other.
FindAgrees ==
  \A word \in Words :
    dictionary_find(dtree, word) =
      IF \E n \in Entries : codes[n] = word
      THEN CHOOSE n \in Entries : codes[n] = word
      ELSE VACANT

(* The entries, seen as a table of words.                                  *)
collected == [n \in Entries |-> [word |-> codes[n], flags |-> flags[n]]]

Table == INSTANCE WordTable WITH
  Words <- Words, Flags <- FlagSets, Before <- Before,
  entries <- collected, places <- order

\* The tree promises what a table of words promises: one entry for each word,
\* with a number for good and all its flags, and the places in order at the
\* end (text.c:2315).
IsWordTable == Table!Spec
=============================================================================
