----------------------------- MODULE ObjectWorld ------------------------------
(***************************************************************************)
(* What a program of object directives means, without tables: the values an *)
(* object has for a property, its attributes, its classes and its place in  *)
(* the tree, read off the definitions alone.  The counterpart of Objects;   *)
(* its directives are described there.  A property name is used either in   *)
(* "private" segments or in "with" segments throughout a program.           *)
(***************************************************************************)
EXTENDS Integers, Sequences, SequencesExt, FiniteSetsExt

CONSTANT program

Definition(kind, name, of, parent, arrows, body) ==
  [kind |-> kind, name |-> name, of |-> of, parent |-> parent, arrows |-> arrows, body |-> body]

(* The definitions in the order of their object numbers, the metaclasses    *)
(* and one more duplicate than a class asks for included.                   *)
Definitions ==
  [m \in 1..4 |-> Definition("Metaclass", "", "", "", 0, <<>>)] \o
  FlattenSeq([i \in DOMAIN program |->
    LET d == program[i]
        copies == IF d.kind = "Class" /\ d.duplicates > 0 THEN d.duplicates + 1 ELSE 0
    IN CASE d.kind = "Class" ->
              <<Definition("Class", d.name, "", "", 0, d.body)>> \o
              [k \in 1..copies |-> Definition("Object", "", d.name, d.name, 0, <<>>)]
         [] d.kind = "Object" -> <<Definition("Object", d.name, d.of, d.parent, d.arrows, d.body)>>
         [] OTHER -> <<>>])

Declaration(kind, name) == SelectSeq(program, LAMBDA d : d.kind = kind /\ d.name = name)

RECURSIVE Canonical(_, _)
Canonical(kind, name) ==
  LET d == Declaration(kind, name)
  IN IF d = <<>> \/ d[1].alias = "" THEN name ELSE Canonical(kind, d[1].alias)

Additive(p) == LET d == Declaration("Property", p) IN d # <<>> /\ d[1].additive
Default(p) == LET d == Declaration("Property", p) IN IF d = <<>> THEN 0 ELSE d[1].default
IsCommon(p) == LET d == Declaration("Property", p) IN d # <<>> /\ ~d[1].individual

(* All that a definition lists, in source order: [kind, item].              *)
Listed(d) ==
  LET maker == IF d.of = "" THEN <<>> ELSE <<[kind |-> "class", item |-> d.of]>>
  IN maker \o FlattenSeq([s \in DOMAIN d.body |->
                 [k \in DOMAIN d.body[s].items |->
                    [kind |-> d.body[s].kind, item |-> d.body[s].items[k]]]])

Gives(x) == x.kind \in {"with", "private"}

(* Of an object, given its definition and the meaning of those before.      *)

Numbered(known, name) == CHOOSE i \in DOMAIN known : known[i].name = name

ClassesOf(known, d) ==
  LET l == SelectSeq(Listed(d), LAMBDA x : x.kind = "class")
  IN [k \in DOMAIN l |-> Numbered(known, l[k].item)]

(* An object's own values, or else those of the first of its classes that   *)
(* has some; of an additive property its own, then those of every class.    *)
Values(known, d, p) ==
  LET own == SelectSeq(Listed(d), LAMBDA x : Gives(x) /\ Canonical("Property", x.item.name) = p)
      mine == IF own = <<>> THEN <<>>
              ELSE IF own[1].item.values = <<>> THEN <<0>> ELSE own[1].item.values
      classes == ClassesOf(known, d)
      given == SelectSeq(<<mine>> \o [c \in DOMAIN classes |-> known[classes[c]].values[p]],
                         LAMBDA v : v # <<>>)
  IN IF given = <<>> THEN <<>> ELSE IF Additive(p) THEN FlattenSeq(given) ELSE given[1]

(* What is listed later decides: a class sets, "has" sets or clears.        *)
Attributes(known, d) ==
  FoldLeft(LAMBDA set, x :
             CASE x.kind = "class" -> set \cup known[Numbered(known, x.item)].attributes
               [] x.kind = "has" /\ x.item.truth -> set \cup {Canonical("Attribute", x.item.name)}
               [] x.kind = "has" /\ ~x.item.truth -> set \ {Canonical("Attribute", x.item.name)}
               [] OTHER -> set,
           {}, Listed(d))

Ancestors(known, d) == UNION {{c} \cup known[c].ancestors : c \in ToSet(ClassesOf(known, d))}

(* Classes are children of Class; an object is where its header puts it, or *)
(* under the last object but classes one level above its arrows.            *)
ParentOf(known, d) ==
  LET above == {j \in DOMAIN known : known[j].kind = "Object" /\ known[j].level = d.arrows - 1}
  IN CASE d.kind = "Class" -> 1
       [] d.kind = "Object" /\ d.parent # "" -> Numbered(known, d.parent)
       [] d.kind = "Object" /\ d.parent = "" /\ d.arrows > 0 -> Max(above)
       [] OTHER -> 0

(* Of every property named in the program, by its canonical name.           *)
Properties ==
  {Canonical("Property", x.item.name) : x \in {y \in UNION {ToSet(Listed(Definitions[i])) : i \in DOMAIN Definitions} : Gives(y)}}
  \cup {Canonical("Property", d.name) : d \in {e \in ToSet(program) : e.kind = "Property"}}

PrivateNames ==
  {Canonical("Property", x.item.name) :
     x \in {y \in UNION {ToSet(Listed(Definitions[i])) : i \in DOMAIN Definitions} : y.kind = "private"}}

MeaningOf(known, d, properties) ==
  LET parent == ParentOf(known, d)
  IN [name |-> d.name, kind |-> d.kind,
      values |-> [p \in properties |-> Values(known, d, p)],
      attributes |-> Attributes(known, d), ancestors |-> Ancestors(known, d),
      parent |-> parent, level |-> IF parent = 0 THEN 0 ELSE 1 + known[parent].level]

(* The meaning of every object of the program, by its number.               *)
Meaning ==
  LET properties == Properties
  IN FoldLeft(LAMBDA known, d : Append(known, MeaningOf(known, d, properties)), <<>>, Definitions)
===============================================================================
