------------------------------- MODULE Options --------------------------------
(***************************************************************************)
(* The compiler's settings (options.c, and set_compile_variables of         *)
(* inform.c).  A session is a sequence of $ commands from the command line  *)
(* and from setup files, and of compilations; a compilation runs the $      *)
(* commands at the head of its source, then fixes the compiler's variables, *)
(* and the source itself may still decide a few settings.  A setting has a  *)
(* value for each platform and the precedence of whoever gave it; both      *)
(* last as long as the session.                                             *)
(*                                                                          *)
(* Of the settings there are those the instance names; a value no number    *)
(* can be read from is BadNumber.                                           *)
(***************************************************************************)
EXTENDS Integers, Sequences

CONSTANTS Settings,     \* setting -> [type, max, z, g]: its limit and defaults
          SourceSet,    \* the settings a source may decide itself
          Values,       \* the values given in commands
          MaxGiven      \* bound on the commands and statements of a session

ASSUME SettingsAssumption ==
  /\ \A s \in DOMAIN Settings :
       /\ Settings[s].type \in {"TOMAXZONLY", "TOMAX", "MUL256", "ANY"}
       /\ Settings[s].max \in Nat /\ Settings[s].z \in Int /\ Settings[s].g \in Int
  /\ {"MAX_ABBREVS", "MAX_DYNAMIC_STRINGS"} \subseteq DOMAIN Settings
  /\ SourceSet \subseteq DOMAIN Settings \ {"MAX_ABBREVS", "MAX_DYNAMIC_STRINGS"}
  /\ \A s \in SourceSet :
       Settings[s].type = "ANY" \/ (Settings[s].type = "TOMAX" /\ Settings[s].max >= 1)
  /\ Values \subseteq Int

VARIABLES options,          \* alloptions[]: setting -> [z, g, precedence]
          glulx_mode,
          phase,            \* "commands", "header" (in_compilation) or "source"
          variables,        \* the compiler's variables during a compilation
          given             \* what was given: [setting, value, precedence, platforms]

optionVars == <<options, glulx_mode, phase, variables, given>>

DEFAULT_OPTPREC == 0
SRCCODE_OPTPREC == 1
HEADCOM_OPTPREC == 2
CMDLINE_OPTPREC == 3

BadNumber == 0 - 1000
Z == "z"
G == "g"
Platform == IF glulx_mode THEN G ELSE Z

SELECTVAL(opts, s) == IF glulx_mode THEN opts[s].g ELSE opts[s].z

AtLeast0(v) == IF v < 0 THEN 0 ELSE v
UpTo(max, v) == IF v > max THEN max ELSE v

(* What a setting allows of a value on each platform.                       *)
Limited(s, v) ==
  CASE Settings[s].type = "TOMAXZONLY" -> [z |-> UpTo(Settings[s].max, AtLeast0(v)), g |-> AtLeast0(v)]
    [] Settings[s].type = "TOMAX" -> LET w == UpTo(Settings[s].max, AtLeast0(v)) IN [z |-> w, g |-> w]
    [] Settings[s].type = "MUL256" -> LET w == ((AtLeast0(v) + 255) \div 256) * 256 IN [z |-> w, g |-> w]
    [] Settings[s].type = "ANY" -> [z |-> v, g |-> v]

(* Bug: the first of two settings of the same precedence stays.             *)
OutrankedBug(s, prec) == prec <= options[s].precedence /\ options[s].precedence > 0

Outranked(s, prec) == prec < options[s].precedence

set_compiler_option(s, v, prec) ==
  options' = IF v = BadNumber \/ Outranked(s, prec) THEN options
             ELSE [options EXCEPT ![s] = [z |-> Limited(s, v).z, g |-> Limited(s, v).g,
                                          precedence |-> prec]]

Gives(s, v, prec, platforms) ==
  /\ Len(given) < MaxGiven
  /\ given' = IF v = BadNumber THEN given
              ELSE Append(given, [setting |-> s, value |-> v, precedence |-> prec,
                                  platforms |-> platforms])

(* A $ command, from the command line or a setup file or from the comments  *)
(* at the head of a source.                                                 *)
execute_dollar_command ==
  /\ phase \in {"commands", "header"}
  /\ \E s \in DOMAIN Settings, v \in Values :
       LET prec == IF phase = "header" THEN HEADCOM_OPTPREC ELSE CMDLINE_OPTPREC IN
       set_compiler_option(s, v, prec) /\ Gives(s, v, prec, {Z, G})
  /\ UNCHANGED <<glulx_mode, phase, variables>>

(* The switch -G.                                                           *)
SelectPlatform ==
  /\ phase \in {"commands", "header"}
  /\ glulx_mode' = ~glulx_mode
  /\ UNCHANGED <<options, phase, variables, given>>

Compile ==
  /\ phase = "commands"
  /\ phase' = "header"
  /\ UNCHANGED <<options, glulx_mode, variables, given>>

(* The 96 abbreviations of the Z-machine serve two purposes.                *)
(* Bug: only one of the two is made to match the other.                     *)
SharedAbbreviationsBug(v) ==
  IF v.MAX_DYNAMIC_STRINGS = 32 /\ v.MAX_ABBREVS # 64
  THEN [v EXCEPT !.MAX_DYNAMIC_STRINGS = 96 - v.MAX_ABBREVS] ELSE v

SharedAbbreviations(v) ==
  LET matched == IF v.MAX_DYNAMIC_STRINGS = 32 /\ v.MAX_ABBREVS # 64
                 THEN [v EXCEPT !.MAX_DYNAMIC_STRINGS = 96 - v.MAX_ABBREVS]
                 ELSE IF v.MAX_ABBREVS = 64 /\ v.MAX_DYNAMIC_STRINGS # 32
                 THEN [v EXCEPT !.MAX_ABBREVS = 96 - v.MAX_DYNAMIC_STRINGS] ELSE v
  IN IF /\ matched.MAX_ABBREVS + matched.MAX_DYNAMIC_STRINGS = 96
        /\ matched.MAX_ABBREVS >= 0 /\ matched.MAX_DYNAMIC_STRINGS >= 0
     THEN matched
     ELSE [v EXCEPT !.MAX_ABBREVS = 64, !.MAX_DYNAMIC_STRINGS = 32]

set_compile_variables ==
  /\ phase = "header"
  /\ phase' = "source"
  /\ variables' = LET v == [s \in DOMAIN Settings |-> SELECTVAL(options, s)] IN
                  IF glulx_mode THEN v ELSE SharedAbbreviations(v)
  /\ UNCHANGED <<options, glulx_mode, given>>

(* set_grammar_option_constant, where nothing yet depends on the setting: a *)
(* value is decided by the source for its own platform only.                *)
set_current_option_precedence ==
  /\ phase = "source"
  /\ \E s \in SourceSet, v \in 0..1 :
       /\ Gives(s, v, SRCCODE_OPTPREC, {Platform})
       /\ \/ options[s].precedence > SRCCODE_OPTPREC /\ UNCHANGED <<options, variables>>
          \/ /\ options[s].precedence <= SRCCODE_OPTPREC
             /\ options' = [options EXCEPT ![s] =
                              [z |-> IF glulx_mode THEN @.z ELSE v,
                               g |-> IF glulx_mode THEN v ELSE @.g, precedence |-> SRCCODE_OPTPREC]]
             /\ variables' = [variables EXCEPT ![s] = v]
  /\ UNCHANGED <<glulx_mode, phase>>

EndCompile ==
  /\ phase = "source"
  /\ phase' = "commands" /\ variables' = <<>>
  /\ UNCHANGED <<options, glulx_mode, given>>

(* prepare_compiler_options                                                 *)
OptionsInit ==
  /\ options = [s \in DOMAIN Settings |-> [z |-> Settings[s].z, g |-> Settings[s].g,
                                           precedence |-> DEFAULT_OPTPREC]]
  /\ glulx_mode = FALSE /\ phase = "commands" /\ variables = <<>> /\ given = <<>>

OptionsNext == \/ execute_dollar_command \/ SelectPlatform \/ Compile \/ set_compile_variables
        \/ set_current_option_precedence \/ EndCompile

OptionsSpec == OptionsInit /\ [][OptionsNext]_optionVars

------------------------------------------------------------------------------
(* The last of the highest precedence among what was given for a platform.  *)
Decider(s, platform) ==
  LET of == {k \in DOMAIN given : given[k].setting = s /\ platform \in given[k].platforms} IN
  {k \in of : \A j \in of : given[j].precedence <= given[k].precedence
                            /\ (given[j].precedence = given[k].precedence => j <= k)}

Decided(s, platform) ==
  IF Decider(s, platform) = {} THEN Settings[s][platform]
  ELSE Limited(s, given[CHOOSE k \in Decider(s, platform) : TRUE].value)[platform]

(* The abbreviations and dynamic strings a Z-code story gets, given those   *)
(* asked for: one that differs from its default decides both, unless the    *)
(* other differs too and does not fit; what is shared out is never less     *)
(* than nothing.                                                            *)
Shared(a, d) ==
  IF a + d = 96 /\ a \in 0..96 THEN a
  ELSE IF d = 32 /\ a \in 0..96 THEN a
  ELSE IF a = 64 /\ d \in 0..96 THEN 96 - d ELSE 64

(* In whatever order and from wherever settings came, in this and in        *)
(* earlier compilations and for either platform: what is compiled with is   *)
(* the last value of the highest precedence, within its limits, and the two *)
(* shares of the abbreviations always make 96 (options.c:758).              *)
SettingsDecided ==
  phase = "source" =>
    \A s \in DOMAIN Settings :
      variables[s] =
        IF glulx_mode \/ s \notin {"MAX_ABBREVS", "MAX_DYNAMIC_STRINGS"} THEN Decided(s, Platform)
        ELSE LET a == Shared(Decided("MAX_ABBREVS", Z), Decided("MAX_DYNAMIC_STRINGS", Z)) IN
             IF s = "MAX_ABBREVS" THEN a ELSE 96 - a
==============================================================================
