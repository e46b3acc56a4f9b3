------------------------------ MODULE MCObjects -------------------------------
EXTENDS Integers, Sequences, TLC

CONSTANT LongClasses      \* whether only the programs of Long are compiled

VARIABLES source, glulx_mode, at, symbols, commonprops, no_attributes, no_individual_properties,
          objects, class_info, properties_table, individuals_table, backpatches, duplicates,
          image, errors

Attribute(name, alias) == [kind |-> "Attribute", name |-> name, alias |-> alias]
Property(name, alias, additive, individual, default) ==
  [kind |-> "Property", name |-> name, alias |-> alias, additive |-> additive,
   individual |-> individual, default |-> default]
Class(name, n, body) == [kind |-> "Class", name |-> name, duplicates |-> n, body |-> body]
Object(name, of, parent, arrows, body) ==
  [kind |-> "Object", name |-> name, of |-> of, parent |-> parent, arrows |-> arrows, body |-> body]
Segment(kind, items) == [kind |-> kind, items |-> items]
Give(name, values) == [name |-> name, values |-> values]
Has(name) == [name |-> name, truth |-> TRUE]
HasNot(name) == [name |-> name, truth |-> FALSE]

Prelude == <<Attribute("lit", ""), Attribute("heavy", ""), Attribute("bright", "lit"),
             Property("size", "", FALSE, FALSE, 9), Property("keys", "", TRUE, FALSE, 0),
             Property("mass", "size", FALSE, FALSE, 0), Property("spell", "", FALSE, TRUE, 0)>>

(* Bodies; `v` tells the values of one definition from those of others.     *)
Common(v) == {<<>>, <<Segment("with", <<Give("size", <<v + 1>>)>>)>>,
              <<Segment("with", <<Give("keys", <<v + 2, v + 3>>), Give("mass", <<>>)>>)>>}
Individual(v) == {<<>>, <<Segment("with", <<Give("spell", <<v + 4>>)>>)>>,
                  <<Segment("private", <<Give("secret", <<v + 5>>)>>),
                    Segment("with", <<Give("spell", <<v + 6, v + 7>>), Give("keys", <<v + 8>>)>>)>>}
Atts == {<<>>, <<Segment("has", <<Has("lit")>>)>>, <<Segment("has", <<HasNot("bright"), Has("heavy")>>)>>}
Of(classes) == <<Segment("class", classes)>>

BodiesA == {c \o i : c \in Common(10), i \in Individual(10)}
BodiesB == {c \o i \o k : c \in Common(20), i \in Individual(20), k \in {<<>>, Of(<<"A">>)}}
BodiesX == {k \o c \o i : k \in {<<>>, Of(<<"B">>), Of(<<"B", "A">>)}, c \in Common(30), i \in Individual(30)}

(* Two classes and an object that inherits from neither, one or both.       *)
Inheritance ==
  {Prelude \o <<Class("A", 0, a \o <<Segment("has", <<Has("lit")>>)>>), Class("B", 1, b),
                Object("x", "", "", 0, x)>> : a \in BodiesA, b \in BodiesB, x \in BodiesX}

(* An object made by a class, with attributes before and after it.          *)
Attributed ==
  {Prelude \o <<Class("A", 0, a), Object("x", of, "", 0, b \o k \o c)>> :
     a \in Atts, of \in {"", "A"}, b \in Atts, k \in {<<>>, Of(<<"A">>)}, c \in Atts}

(* Four objects below one another, below a class or on their own.           *)
Header(name, h) == Object(name, "", h[1], h[2], <<>>)
Headers == {<<"", 0>>, <<"", 1>>, <<"", 2>>, <<"", 3>>, <<"A", 0>>, <<"w", 0>>}
Trees ==
  {<<Class("A", n, <<>>), Header("w", h[1]), Header("x", h[2]), Header("y", h[3]), Header("z", h[4])>> :
     n \in 0..1, h \in [1..4 -> Headers]}

(* What is refused, one way or another.                                     *)
Refused ==
  {Prelude \o d : d \in
     {<<Attribute("lit", "")>>, <<Attribute("dim", "keys")>>,
      <<Attribute("a3", ""), Attribute("a4", "")>>,
      <<Property("keys", "", FALSE, FALSE, 0)>>, <<Property("p", "lit", FALSE, FALSE, 0)>>,
      <<Property("p", "size", TRUE, FALSE, 0)>>,
      <<Property("p", "", FALSE, FALSE, 0), Property("q", "", FALSE, FALSE, 0),
        Property("r", "", FALSE, FALSE, 0)>>,
      <<Class("lit", 0, <<>>)>>, <<Class("A", 0, Of(<<"A">>))>>, <<Object("x", "", "", 0, Of(<<"keys">>))>>,
      <<Object("keys", "", "", 0, <<>>)>>, <<Object("x", "", "lit", 0, <<>>)>>,
      <<Object("x", "", "", 0, <<>>), Object("y", "", "x", 1, <<>>)>>,
      <<Object("x", "", "", 0, <<Segment("has", <<Has("keys")>>)>>)>>,
      <<Object("x", "", "", 0, <<Segment("with", <<Give("lit", <<>>)>>)>>)>>,
      <<Object("x", "", "", 0, <<Segment("with", <<Give("size", <<1>>), Give("mass", <<2>>)>>)>>)>>,
      <<Object("x", "", "", 0, <<Segment("private", <<Give("size", <<1>>)>>)>>)>>,
      <<Object("x", "", "", 0, <<Segment("with", <<Give("keys", <<1, 2, 3, 4, 5, 6, 7>>)>>)>>)>>}}

(* A class property with as many values as there may be.                    *)
Long ==
  {Prelude \o <<Class("A", 0, <<Segment("with", <<Give(p, <<1, 2, 3, 4, 5, 6>>)>>)>>),
                Object("x", "", "", 0, Of(<<"A">>))>> : p \in {"size", "spell"}}



O == INSTANCE Objects WITH
  Programs <- IF LongClasses THEN Long ELSE Inheritance \cup Attributed \cup Trees \cup Refused, MaxAttributes <- 3, MaxCommon <- 8, MaxEntries <- 6, PrivateBit <- 100,
  ObjectTree <- 50

Spec == O!Init /\ [][O!Next]_O!vars
ObjectsAsDeclared == O!ObjectsAsDeclared
KindsAsDeclared == O!KindsAsDeclared
TreeAsDeclared == O!TreeAsDeclared
===============================================================================
