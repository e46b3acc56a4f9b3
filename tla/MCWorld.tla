------------------------------ MODULE MCWorld -------------------------------
(* What a source declares, each kind on instance data of its own: names,    *)
(* objects and classes, grammar and actions.  A behaviour compiles one of    *)
(* them, its part, and leaves the variables of the others.                   *)
EXTENDS Integers, Sequences, FiniteSets, TLC, MCGrammar

CONSTANT Parts

VARIABLES
  part,
  names, symbol_replacements, mentions, refused, ended,  \* names
  glulx_mode, symbols, commonprops, no_attributes, no_individual_properties,
  objects, class_info, properties_table, individuals_table, backpatches, duplicates,
  image, errors                                          \* objects

objectVars == <<glulx_mode, symbols, commonprops, no_attributes, no_individual_properties,
                objects, class_info, properties_table, individuals_table, backpatches,
                duplicates, image, errors>>
nameVars == <<names, symbol_replacements, mentions, refused, ended>>
grammarVars == <<g, story>>
vars == <<part, source, at, nameVars, objectVars, grammarVars>>

O == INSTANCE MCObjects WITH LongClasses <- FALSE

ASSUME G!LimitsAssumption
------------------------------------------------------------------------------
(* All programs of four items and a mention at the end.                     *)
Item(k, a, b) == [kind |-> k, name |-> a, other |-> b]
FromSystem == 100
Items ==
  {Item("replace", 1, 0), Item("replace", 1, 2), Item("replace", 2, 3), Item("replace", 1, 3),
   Item("routine", 1, 0), Item("routine", 1, FromSystem), Item("constant", 2, 0),
   Item("constant", 2, 1), Item("constant", 3, 2), Item("default", 2, 0), Item("stub", 1, 0),
   Item("undef", 2, 0), Item("mention", 1, 0), Item("mention", 2, 0), Item("mention", 3, 0)}

Order == INSTANCE Declarations WITH
  HashTabSize <- 2, CodeOffset <- 50, Sources <- {}, table <- names, errors <- refused

Programs == {s \in {Append(t, Item("mention", name, 0)) : t \in [1..4 -> Items], name \in {1, 2}} :
               Order!Ordinary(s)}
------------------------------------------------------------------------------
InitNames ==
  /\ part = "names" => source \in Programs /\ at = 0
  /\ names = Order!EmptyTable /\ symbol_replacements = <<>> /\ mentions = {}
  /\ refused = FALSE /\ ended = FALSE

InitObjects ==
  \/ part = "objects" /\ O!O!Init
  \/ /\ part # "objects"
     /\ glulx_mode = FALSE /\ symbols = <<>> /\ commonprops = <<>> /\ no_attributes = 0
     /\ no_individual_properties = 0 /\ objects = <<>> /\ class_info = <<>>
     /\ properties_table = <<>> /\ individuals_table = <<>> /\ backpatches = <<>>
     /\ duplicates = <<>> /\ image = <<>> /\ errors = <<>>

InitGrammar ==
  \/ part = "grammar" /\ G!Init
  \/ part # "grammar" /\ g = <<>> /\ story = <<>>

Init ==
  /\ part \in Parts
  /\ InitNames
  /\ InitObjects
  /\ InitGrammar

Next ==
  \/ part = "names" /\ Order!Next /\ UNCHANGED <<part, objectVars, grammarVars>>
  \/ part = "objects" /\ O!O!Next /\ UNCHANGED <<part, nameVars, grammarVars>>
  \/ part = "grammar" /\ G!Next /\ UNCHANGED <<part, nameVars, objectVars>>

Spec == Init /\ [][Next]_vars
------------------------------------------------------------------------------
(* Names get the value the whole source gives them, and replacements lead   *)
(* to one name each; see Declarations.                                      *)
NamesSettle == part = "names" => Order!NamesSettle /\ Order!ReplacementsSettle

(* The object table says what the source says of objects, and every object  *)
(* is of its classes; see Objects.                                          *)
ObjectsAsDeclared == part = "objects" => O!ObjectsAsDeclared /\ O!KindsAsDeclared

(* The object tree is the one the source describes; see Objects.            *)
TreeAsDeclared == part = "objects" => O!TreeAsDeclared
=============================================================================
