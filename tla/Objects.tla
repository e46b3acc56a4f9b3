-------------------------------- MODULE Objects --------------------------------
(***************************************************************************)
(* The directives that make the objects of a story (objects.c): Attribute,  *)
(* Property, Class and Object.  A step handles one directive, or makes one  *)
(* of the four metaclasses the compiler starts with, or one of the          *)
(* duplicates a class asks for; the last step lays the tables out and       *)
(* patches them.  A step that reports an error is the last: no story file   *)
(* is written then.                                                         *)
(*                                                                          *)
(* A directive is a record.  Those of Attribute and Property name what they *)
(* make and what it is an alias of ("" for none); those of Class and Object *)
(* have a body, a sequence of segments in source order.                     *)
(***************************************************************************)
EXTENDS Integers, Sequences, SequencesExt, FiniteSets

CONSTANTS Programs,         \* the sequences of directives compiled
          MaxAttributes,    \* 48, or 8 * NUM_ATTR_BYTES
          MaxCommon,        \* 64, or INDIV_PROP_START: numbers of common properties
          MaxEntries, PrivateBit, ObjectTree

VARIABLES source, glulx_mode, at,
          symbols,                   \* name -> [type, value]
          commonprops,               \* from 1: [additive, default]
          no_attributes, no_individual_properties,
          objects,                   \* [parent, next, child, atts, address]
          class_info,                \* [object_number, begins_at]
          properties_table, individuals_table, backpatches,
          duplicates,                \* of the last class: [class, left]
          image,                     \* the patched tables, <<>> until laid out
          errors

vars == <<source, glulx_mode, at, symbols, commonprops, no_attributes, no_individual_properties,
          objects, class_info, properties_table, individuals_table, backpatches, duplicates,
          image, errors>>

Z == INSTANCE ObjectsZ
G == INSTANCE ObjectsG

Metaclasses == <<"Class", "Object", "Routine", "String">>

Init ==
  /\ source \in Programs /\ glulx_mode \in BOOLEAN /\ at = 1
  /\ symbols = <<>>
  /\ commonprops = [n \in 1..3 |-> [additive |-> n # 3, default |-> 0]]
  /\ no_attributes = 0 /\ no_individual_properties = MaxCommon + 8
  /\ objects = <<>> /\ class_info = <<>>
  /\ properties_table = <<>> /\ individuals_table = <<>> /\ backpatches = <<>>
  /\ duplicates = [class |-> 0, left |-> 0]
  /\ image = <<>> /\ errors = {}

Started == Len(objects) >= Len(Metaclasses)
Reading == Started /\ duplicates.left = 0 /\ errors = {} /\ at <= Len(source)
Directive(kind) == Reading /\ source[at].kind = kind

Symbol(type, value) == [type |-> type, value |-> value]
Define(table, name, s) == [x \in DOMAIN table \cup {name} |-> IF x = name THEN s ELSE table[x]]
IsA(name, type) == name \in DOMAIN symbols /\ symbols[name].type = type

Report(e) == /\ errors' = errors \cup {e}
             /\ UNCHANGED <<source, glulx_mode, at, symbols, commonprops, no_attributes,
                            no_individual_properties, objects, class_info, properties_table,
                            individuals_table, backpatches, duplicates, image>>

objectVars == <<objects, class_info, properties_table, individuals_table, backpatches,
                duplicates, image, errors>>

------------------------------------------------------------------------------
(* Attribute [name] [alias old]                                             *)
make_attribute ==
  /\ Directive("Attribute")
  /\ LET d == source[at] IN
       CASE no_attributes = MaxAttributes -> Report("All attributes already declared")
         [] no_attributes < MaxAttributes /\ d.name \in DOMAIN symbols -> Report("new attribute name")
         [] no_attributes < MaxAttributes /\ d.alias # "" /\ ~IsA(d.alias, "ATTRIBUTE_T") ->
              Report("an existing attribute name")
         [] OTHER ->
              /\ symbols' = Define(symbols, d.name,
                                   IF d.alias = "" THEN Symbol("ATTRIBUTE_T", no_attributes)
                                   ELSE symbols[d.alias])
              /\ no_attributes' = no_attributes + IF d.alias = "" THEN 1 ELSE 0
              /\ at' = at + 1
              /\ UNCHANGED <<source, glulx_mode, commonprops, no_individual_properties, objectVars>>

(* no_properties is one more than the number of common properties.          *)
PropertySymbol(d) ==
  IF d.individual THEN Symbol("INDIVIDUAL_PROPERTY_T", no_individual_properties)
  ELSE IF d.alias # "" THEN symbols[d.alias]
  ELSE Symbol("PROPERTY_T", Len(commonprops) + 1)

(* Property [additive] [individual] name [alias old | default]              *)
make_property ==
  /\ Directive("Property")
  /\ LET d == source[at]
         plain == ~d.individual /\ d.alias = ""
     IN CASE d.name \in DOMAIN symbols -> Report("new property name")
          [] d.name \notin DOMAIN symbols /\ d.additive /\ ~plain -> Report("incompatible with 'additive'")
          [] d.name \notin DOMAIN symbols /\ ~d.individual /\ d.alias # "" /\ ~IsA(d.alias, "PROPERTY_T") ->
               Report("an existing property name")
          [] d.name \notin DOMAIN symbols /\ plain /\ Len(commonprops) + 1 = MaxCommon ->
               Report("All properties already declared")
          [] OTHER ->
               /\ symbols' = Define(symbols, d.name, PropertySymbol(d))
               /\ no_individual_properties' = no_individual_properties + IF d.individual THEN 1 ELSE 0
               /\ commonprops' = IF plain
                                 THEN Append(commonprops, [additive |-> d.additive, default |-> d.default])
                                 ELSE commonprops
               /\ at' = at + 1
               /\ UNCHANGED <<source, glulx_mode, no_attributes, objectVars>>

------------------------------------------------------------------------------
(* An object under construction, and the segments of its body.              *)

initialise_full_object ==
  [entries |-> <<>>, atts |-> {}, classes |-> <<>>, defined |-> <<>>,
   individual_prop_table_size |-> 0, properties |-> properties_table,
   individuals |-> individuals_table, patches |-> backpatches, address |-> 0, begins_at |-> 0,
   symbols |-> symbols, no_individual_properties |-> no_individual_properties, errors |-> {}]

(* A name in a "with" or "private" segment; a new one becomes an individual *)
(* property.                                                                *)
NameProperty(m, name) ==
  LET new == Symbol("INDIVIDUAL_PROPERTY_T", m.no_individual_properties)
      known == name \in DOMAIN m.symbols
      s == IF known THEN m.symbols[name] ELSE new
      problem == IF s.type \notin {"PROPERTY_T", "INDIVIDUAL_PROPERTY_T"} THEN {"property name"}
                 ELSE IF s.value \in ToSet(m.defined) THEN {"given twice"} ELSE {}
  IN [m EXCEPT !.symbols = Define(@, name, s),
               !.no_individual_properties = @ + IF known THEN 0 ELSE 1,
               !.defined = Append(@, s.value),
               !.errors = @ \cup problem]

(* A property given without a value is a variable, zero at the start.       *)
GiveProperty(m, item, private) ==
  LET named == NameProperty(m, item.name)
      s == named.symbols[item.name]
      values == IF item.values = <<>> THEN <<0>> ELSE item.values
      given == CASE glulx_mode -> G!Give(named, s.value, private, values)
                 [] ~glulx_mode /\ s.type = "PROPERTY_T" -> Z!GiveCommon(named, s.value, values)
                 [] OTHER -> Z!GiveIndividual(named, s.value, private, values)
      problem == IF private /\ s.type = "PROPERTY_T" THEN {"should be declared in 'with'"}
                 ELSE IF ~glulx_mode /\ Z!TooMany(values) THEN {"Limit exceeded"} ELSE {}
  IN IF named.errors # {} THEN named ELSE [given EXCEPT !.errors = @ \cup problem]

properties_segment(m, segment) ==
  FoldLeft(LAMBDA a, item : GiveProperty(a, item, segment.kind = "private"), m, segment.items)

(* [~]attribute ...                                                         *)
attributes_segment(m, segment) ==
  FoldLeft(LAMBDA a, item :
             IF ~IsA(item.name, "ATTRIBUTE_T") THEN [a EXCEPT !.errors = @ \cup {"attribute name"}]
             ELSE [a EXCEPT !.atts = IF item.truth THEN @ \cup {symbols[item.name].value}
                                     ELSE @ \ {symbols[item.name].value}],
           m, segment.items)

(* Bug: only the properties of the class come down.                         *)
add_class_to_inheritance_listBug(m, class_number) ==
  LET class == CHOOSE c \in DOMAIN class_info : class_info[c].object_number = class_number
  IN [m EXCEPT !.classes = Append(@, class)]

(* The attributes of a class, just before its block, come down at once; its *)
(* properties when the definition is complete.                              *)
add_class_to_inheritance_list(m, class_number) ==
  LET class == CHOOSE c \in DOMAIN class_info : class_info[c].object_number = class_number
  IN [m EXCEPT !.classes = Append(@, class),
               !.atts = @ \cup m.properties[class_info[class].begins_at - 1].atts]

classes_segment(m, segment, name) ==
  FoldLeft(LAMBDA a, class :
             CASE class = name -> [a EXCEPT !.errors = @ \cup {"cannot inherit from itself"}]
               [] class # name /\ ~IsA(class, "CLASS_T") -> [a EXCEPT !.errors = @ \cup {"class name"}]
               [] OTHER -> add_class_to_inheritance_list(a, symbols[class].value),
           m, segment.items)

parse_body_of_definition(m, body, name) ==
  FoldLeft(LAMBDA a, segment :
             CASE segment.kind = "has" -> attributes_segment(a, segment)
               [] segment.kind = "class" -> classes_segment(a, segment, name)
               [] OTHER -> properties_segment(a, segment),
           m, body)

------------------------------------------------------------------------------
(* The end of a definition.                                                 *)

RECURSIVE LastSibling(_)
LastSibling(i) == IF objects[i].next = 0 THEN i ELSE LastSibling(objects[i].next)

(* Bug: the new object is hung behind the first child, whoever follows it.  *)
HangBug(new) ==
  LET p == new.parent
  IN IF p = 0 THEN Append(objects, new)
     ELSE IF objects[p].child = 0
     THEN Append([objects EXCEPT ![p].child = Len(objects) + 1], new)
     ELSE Append([objects EXCEPT ![objects[p].child].next = Len(objects) + 1], new)

(* The new object is the last child of its parent.                          *)
Hang(new) ==
  LET p == new.parent
  IN IF p = 0 THEN Append(objects, new)
     ELSE IF objects[p].child = 0
     THEN Append([objects EXCEPT ![p].child = Len(objects) + 1], new)
     ELSE Append([objects EXCEPT ![LastSibling(objects[p].child)].next = Len(objects) + 1], new)

manufacture_object(m, is_class, parent) ==
  LET blocks == [c \in DOMAIN m.classes |-> class_info[m.classes[c]].begins_at]
      additive == [n \in DOMAIN commonprops |-> commonprops[n].additive]
      built == IF glulx_mode
               THEN G!write_property_block(G!property_inheritance(m, blocks, additive), is_class)
               ELSE Z!write_property_block(Z!property_inheritance(m, blocks, additive), is_class,
                                           MaxCommon - 1)
  IN IF m.errors # {} THEN Report("in the body")
     ELSE IF built.errors # {} THEN Report("inherited too many values")
     ELSE /\ objects' = Hang([parent |-> parent, next |-> 0, child |-> 0,
                              atts |-> IF is_class THEN {} ELSE built.atts,
                              address |-> built.address])
          /\ class_info' = IF is_class
                           THEN Append(class_info, [object_number |-> Len(objects) + 1,
                                                    begins_at |-> built.begins_at])
                           ELSE class_info
          /\ properties_table' = built.properties /\ individuals_table' = built.individuals
          /\ backpatches' = built.patches
          /\ no_individual_properties' = built.no_individual_properties
          /\ symbols' = built.symbols
          /\ UNCHANGED <<source, glulx_mode, commonprops, no_attributes, image, errors>>

(* A class begins with its own number as the value of property 2, to which  *)
(* the classes it inherits from add theirs.                                 *)
initialise_class(name, class_number) ==
  LET m == initialise_full_object
      itself == <<Z!Operand(class_number, "OBJECT_MV")>>
      entry == IF glulx_mode THEN G!Entry(2, 0, 0, itself) ELSE [num |-> 2, ao |-> itself]
  IN [m EXCEPT !.entries = <<entry>>, !.symbols = Define(@, name, Symbol("CLASS_T", class_number))]

make_metaclass ==
  /\ ~Started
  /\ manufacture_object(initialise_class(Metaclasses[Len(objects) + 1], Len(objects) + 1), TRUE, 0)
  /\ UNCHANGED <<at, duplicates>>

(* Class name [(n)] body.  One more duplicate than asked for is made.       *)
make_class ==
  /\ Directive("Class")
  /\ LET d == source[at]
         class_number == Len(objects) + 1
     IN IF d.name \in DOMAIN symbols THEN Report("new class name")
        ELSE /\ manufacture_object(parse_body_of_definition(initialise_class(d.name, class_number),
                                                            d.body, d.name), TRUE, 1)
             /\ at' = IF errors' = {} THEN at + 1 ELSE at
             /\ duplicates' = IF errors' # {} THEN duplicates
                              ELSE [class |-> class_number,
                                    left |-> IF d.duplicates = 0 THEN 0 ELSE d.duplicates + 1]

make_duplicate ==
  /\ duplicates.left > 0 /\ errors = {}
  /\ manufacture_object(add_class_to_inheritance_list(initialise_full_object, duplicates.class),
                        FALSE, duplicates.class)
  /\ duplicates' = IF errors' # {} THEN duplicates ELSE [duplicates EXCEPT !.left = @ - 1]
  /\ UNCHANGED at

RECURSIVE Depth(_)
Depth(i) == IF objects[i].parent = 0 THEN 0 ELSE 1 + Depth(objects[i].parent)

ArrowParents(tree_depth) ==
  {i \in (Len(Metaclasses) + 1)..Len(objects) :
     objects[i].parent # 1 /\ Depth(i) = tree_depth - 1}

(* The last object at the level above.                                      *)
Parent(d) ==
  CASE d.parent # "" -> symbols[d.parent].value
    [] d.parent = "" /\ d.arrows > 0 ->
         LET above == ArrowParents(d.arrows)
         IN IF above = {} THEN 0 ELSE CHOOSE i \in above : \A j \in above : j <= i
    [] OTHER -> 0

(* Object [-> ...] name [parent] body, or Class name body for an object     *)
(* that a class makes (d.of); `Nearby` is one arrow.                        *)
make_object ==
  /\ Directive("Object")
  /\ LET d == source[at]
         m == initialise_full_object
         named == [m EXCEPT !.symbols = Define(@, d.name, Symbol("OBJECT_T", Len(objects) + 1))]
         started == IF d.of = "" THEN named ELSE add_class_to_inheritance_list(named, symbols[d.of].value)
     IN CASE d.name \in DOMAIN symbols -> Report("new object")
          [] d.name \notin DOMAIN symbols /\ d.parent # ""
             /\ ~(IsA(d.parent, "OBJECT_T") \/ IsA(d.parent, "CLASS_T")) -> Report("name of (the parent) object")
          [] d.name \notin DOMAIN symbols /\ d.parent # "" /\ d.arrows > 0 -> Report("clashes with giving a parent")
          [] d.name \notin DOMAIN symbols /\ d.parent = "" /\ d.arrows > 0 /\ ArrowParents(d.arrows) = {} ->
               Report("no previous object is deep enough")
          [] OTHER -> /\ manufacture_object(parse_body_of_definition(started, d.body, ""), FALSE, Parent(d))
                      /\ at' = IF errors' = {} THEN at + 1 ELSE at
                      /\ UNCHANGED duplicates

(* All directives read: the tables go into the story file.                  *)
construct_storyfile ==
  /\ Started /\ at = Len(source) + 1 /\ duplicates.left = 0 /\ errors = {} /\ image = <<>>
  /\ LET m == [properties |-> properties_table, individuals |-> individuals_table,
               patches |-> backpatches]
     IN image' = IF glulx_mode THEN G!backpatch_image(m) ELSE Z!backpatch_image(m)
  /\ UNCHANGED <<source, glulx_mode, at, symbols, commonprops, no_attributes,
                 no_individual_properties, objects, class_info, properties_table,
                 individuals_table, backpatches, duplicates, errors>>

Next == make_attribute \/ make_property \/ make_metaclass \/ make_class \/ make_duplicate
        \/ make_object \/ construct_storyfile

Spec == Init /\ [][Next]_vars

------------------------------------------------------------------------------
(* What is read of the finished story file, against what was written.       *)
World == INSTANCE ObjectWorld WITH program <- source

Made == image # <<>>

(* Where an object's properties are read: of a class, what `::` reads.      *)
Block(i) ==
  LET class == {c \in DOMAIN class_info : class_info[c].object_number = i}
      address == IF class = {} THEN objects[i].address ELSE 0
  IN IF class # {} THEN class_info[CHOOSE c \in class : TRUE].begins_at
     ELSE IF glulx_mode THEN address ELSE address + 1

Reads(i, name, self) ==
  LET n == symbols[name].value
  IN CASE glulx_mode -> G!Find(image, Block(i), n, self)
       [] ~glulx_mode /\ n < MaxCommon -> Z!Find(image, Block(i), n)
       [] OTHER -> Z!FindIndividual(image, Block(i), n, self)

PropertyNames == {x \in DOMAIN symbols : symbols[x].type \in {"PROPERTY_T", "INDIVIDUAL_PROPERTY_T"}}

(* Every object of the story reads, for every property and by each of its   *)
(* names, the values its definition and its classes' definitions give it:   *)
(* the object's routines all of them, others those that are not private;    *)
(* for what it does not provide a common property has its default.  Through *)
(* two formats of tables, decompiled by whoever inherits (objects.c         *)
(* 516-1010).                                                               *)
ObjectsAsDeclared ==
  Made => LET meaning == World!Meaning
              private == World!PrivateNames
          IN \A x \in PropertyNames :
               LET p == World!Canonical("Property", x) IN
               /\ World!IsCommon(p) => commonprops[symbols[x].value].default = World!Default(p)
               /\ \A i \in 5..Len(objects) :
                    /\ Reads(i, x, TRUE) = meaning[i].values[p]
                    /\ Reads(i, x, FALSE) = IF p \in private THEN <<>> ELSE meaning[i].values[p]

ObjectValue(i) == IF glulx_mode THEN G!ObjectAddress(i) ELSE i

(* An object's classes, as `ofclass` reads them from property 2, are those  *)
(* of its definition and theirs in turn, of a class also itself; and it     *)
(* starts with the attributes its definition leaves it with, whether they   *)
(* come from a class or were cleared after (objects.c 1755-1850).           *)
KindsAsDeclared ==
  Made => LET meaning == World!Meaning IN \A i \in 5..Len(objects) :
    LET is_class == meaning[i].kind = "Class"
        kinds == meaning[i].ancestors \cup IF is_class THEN {i} ELSE {}
        numbers == IF glulx_mode THEN G!Find(image, Block(i), 2, TRUE) ELSE Z!Find(image, Block(i), 2)
    IN /\ ToSet(numbers) = {ObjectValue(k) : k \in kinds}
       /\ objects[i].atts = IF is_class THEN {} ELSE {symbols[a].value : a \in meaning[i].attributes}

RECURSIVE SiblingsFrom(_)
SiblingsFrom(i) == IF i = 0 THEN <<>> ELSE <<i>> \o SiblingsFrom(objects[i].next)

(* The links of the tree show every object under the parent its definition  *)
(* gives it, by name or by arrows, and children in the order they were      *)
(* defined, duplicates after their class (objects.c 1030-1050, 2240-2280).  *)
TreeAsDeclared ==
  Made => LET meaning == World!Meaning
              numbers == [i \in DOMAIN meaning |-> i]
          IN /\ Len(objects) = Len(meaning)
             /\ \A i \in DOMAIN objects :
                  /\ objects[i].parent = meaning[i].parent
                  /\ SiblingsFrom(objects[i].child) = SelectSeq(numbers, LAMBDA j : meaning[j].parent = i)
===============================================================================
