----------------------------- MODULE WordTable -----------------------------
(***************************************************************************)
(* What the dictionary promises the rest of the compiler: every word has   *)
(* one entry, whose number never changes; the flags of all mentions of a   *)
(* word are collected in its entry; and at the end each entry gets its     *)
(* place in the order of the words.                                        *)
(***************************************************************************)
EXTENDS Integers, FiniteSets

CONSTANTS
  Words,              \* what is left of a text: its sort code
  Flags,              \* sets of flags that a mention may carry
  Before(_, _)        \* the order of words

VARIABLES
  entries,   \* entry number |-> [word, flags]
  answer,    \* the entry number the last mention got
  places     \* entry number |-> place, once the words are in order

None == -1

NewNumber == Cardinality(DOMAIN entries)

Init ==
  /\ entries = << >>
  /\ answer = None
  /\ places = << >>

Mention(word, flags) ==
  /\ places = << >>
  /\ \/ \E n \in DOMAIN entries :
          /\ entries[n].word = word
          /\ answer' = n
          /\ entries' = [entries EXCEPT ![n].flags = @ \cup flags]
     \/ /\ \A n \in DOMAIN entries : entries[n].word # word
        /\ answer' = NewNumber
        /\ entries' = [n \in 0 .. NewNumber |->
                         IF n = NewNumber THEN [word |-> word, flags |-> flags]
                                          ELSE entries[n]]
  /\ UNCHANGED places

PutInOrder ==
  /\ places = << >>
  /\ places' = [n \in DOMAIN entries |->
                  Cardinality({m \in DOMAIN entries :
                                 Before(entries[m].word, entries[n].word)})]
  /\ UNCHANGED <<entries, answer>>

Next == (\E word \in Words, flags \in Flags : Mention(word, flags)) \/ PutInOrder

Spec == Init /\ [][Next]_<<entries, answer, places>>
=============================================================================
