------------------------------ MODULE MCFrontEnd ------------------------------
(***************************************************************************)
(* TLC instance of the front end: the token queue, conditional compilation, *)
(* settings, the dictionary, and the veneer, which is source text too.      *)
(* Every behaviour runs one of the five, chosen at the start; the variables *)
(* of the others stay as they began.                                        *)
(***************************************************************************)
EXTENDS Conditional, Options, Dictionary, TokenQueue, Integers, TLC

CONSTANT Parts   \* the parts run

VARIABLES part,
  user, stage, needs, address, symbols, stash, pc, sweep, veneer, operands, clashes

veneerVars == <<user, stage, needs, address, symbols, stash, pc, sweep, veneer, operands, clashes>>
vars == <<part, tokenVars, conditionalVars, optionVars, dictionaryVars, veneerVars>>

------------------------------------------------------------------------------
(* Three identifiers and the separator; identifier 3 is a keyword in one    *)
(* context.  1 and 3 share a hash list.                                     *)
Lexemes == {<<1, 3, 2>>, <<3, 0, 1>>, <<1, 2, 1>>, <<3, 1, 0, 3>>}
Keywords == "plain" :> {} @@ "misc" :> {3} @@ "quote" :> {}

(* All texts of six lines; conditionals nest two deep on the stack and      *)
(* deeper in text that is skipped.                                          *)
Line(k, a) == [kind |-> k, name |-> a]
Lines == {Line("ifdef", "a"), Line("ifndef", "a"), Line("ifnot", ""), Line("endif", ""),
          Line("constant", "a")}

SixLines == [1..6 -> Lines]

(* One setting of every kind of limit, one that a source decides, and the   *)
(* pair that shares the abbreviations; values below, within and above.      *)
Setting(type, max, z, g) == [type |-> type, max |-> max, z |-> z, g |-> g]
SettingsUsed ==
  [MAX_ABBREVS |-> Setting("TOMAX", 96, 64, 64),
   MAX_DYNAMIC_STRINGS |-> Setting("TOMAXZONLY", 96, 32, 100),
   GRAMMAR_META_FLAG |-> Setting("TOMAX", 1, 0, 0),
   MAX_STACK_SIZE |-> Setting("MUL256", 0, 4096, 4096)]

ValuesUsed == {BadNumber, 1, 40, 300}

(* Thirteen words of one or two letters; one of them also with a third      *)
(* letter and flags of its own.  The beginnings lead to trees in which the  *)
(* next words make every rotation happen, at the root and below it, on the  *)
(* way down and at its end.                                                 *)
Letters(k) == <<k \div 3 + 1>> \o (IF k % 3 = 0 THEN << >> ELSE <<k % 3>>)

Word(k) == [letters |-> Letters(k), pos |-> {}, neg |-> {}]

ThirteenWords ==
  {Word(k) : k \in 0 .. 12}
  \cup {[letters |-> <<1, 2, 1>>, pos |-> {"plural"}, neg |-> {"sing"}]}

SixBeginnings ==
  {[i \in DOMAIN numbers |-> Word(numbers[i])] : numbers \in
     { << >>,
       <<0, 1, 2, 3, 4, 5, 6, 7>>,
       <<12, 7, 9, 0, 6, 11, 1, 5, 10>>,
       <<10, 2, 1, 3, 0, 6, 8, 9, 5>>,
       <<12, 2, 4, 7, 11, 5, 9, 0>>,
       <<8, 7, 0, 6, 11, 5, 2, 12>> }}

NounsOnly == {{"noun"}}

(* One veneer routine is called by the program, or none, and the program    *)
(* has at most one of these names for something of its own.                 *)
Library == INSTANCE Veneer WITH
  MaxCalls <- 1, OwnNames <- {"RT__Err", "Z__Region", "CP__Tab", "RA__Pr"},
  program <- user, compiled <- veneer, errors <- clashes

------------------------------------------------------------------------------
InitTokens ==
  /\ TokenInit
  /\ part # "tokens" => source = <<1, 3, 2>>

InitConditionals ==
  \/ part = "conditionals" /\ ConditionalInit
  \/ /\ part # "conditionals"
     /\ text = <<>> /\ at = 0 /\ ifdef_stack = <<>> /\ n = 0 /\ loop = "none"
     /\ defined = {} /\ compiled = {} /\ errors = FALSE /\ ended = FALSE

InitDictionary ==
  /\ DictionaryInit
  /\ part # "dictionary" => start = <<>>

InitVeneer ==
  \/ part = "veneer" /\ Library!Init
  \/ /\ part # "veneer"
     /\ user = <<>> /\ stage = "none" /\ needs = <<>> /\ address = <<>> /\ symbols = <<>>
     /\ stash = <<>> /\ pc = 0 /\ sweep = <<>> /\ veneer = {} /\ operands = {} /\ clashes = {}

Init ==
  /\ part \in Parts
  /\ InitTokens
  /\ InitConditionals
  /\ OptionsInit
  /\ InitDictionary
  /\ InitVeneer

Next ==
  \/ /\ part = "tokens" /\ TokenNext
     /\ UNCHANGED <<part, conditionalVars, optionVars, dictionaryVars, veneerVars>>
  \/ /\ part = "conditionals" /\ ConditionalNext
     /\ UNCHANGED <<part, tokenVars, optionVars, dictionaryVars, veneerVars>>
  \/ /\ part = "options" /\ OptionsNext
     /\ UNCHANGED <<part, tokenVars, conditionalVars, dictionaryVars, veneerVars>>
  \/ /\ part = "dictionary" /\ DictionaryNext
     /\ UNCHANGED <<part, tokenVars, conditionalVars, optionVars, veneerVars>>
  \/ /\ part = "veneer" /\ Library!Next
     /\ UNCHANGED <<part, tokenVars, conditionalVars, optionVars, dictionaryVars>>

Spec == Init /\ [][Next]_vars

------------------------------------------------------------------------------
(* The veneer routines called for are linked, no others are compiled, and   *)
(* compiling them comes to an end; see Veneer.                              *)
VeneerSettles ==
  /\ [](part = "veneer" => Library!VeneerLinked)
  /\ [][part = "veneer" => Library!LoopEnds]_vars
==============================================================================
