------------------------------- MODULE ObjectsZ -------------------------------
(***************************************************************************)
(* Property tables of a Z-code story file (objects.c).  The properties of   *)
(* every object stand one block after another in properties_table, numbers  *)
(* falling; individual properties stand in individuals_table, to which      *)
(* property 3 of the object points.  A class has no templates beside these: *)
(* whoever inherits decompiles the block of the class.                      *)
(*                                                                          *)
(* One cell stands for a header, for a word of data or for the zero that    *)
(* ends a block; addresses count cells from 1.  The object under            *)
(* construction is the record `m`: `entries` is full_object.pp, `atts`      *)
(* full_object.atts, and the tables and patches grow with it.               *)
(***************************************************************************)
EXTENDS Integers, Sequences, SequencesExt

CONSTANTS MaxEntries,     \* 32: the values of one property
          PrivateBit      \* 0x8000, beside the identifier of a private property

Word(v) == [num |-> 0 - 1, val |-> v]
Header(n, l) == [num |-> n, val |-> l]
Terminator == [num |-> 0, val |-> 0]
Words(s) == [i \in DOMAIN s |-> Word(s[i])]

Operand(v, mv) == [value |-> v, marker |-> mv]
Constants(s) == [i \in DOMAIN s |-> Operand(s[i], "none")]

(* Six bits hold a length in bytes.                                         *)
StoredLength(l) == l % MaxEntries

(* The records of a block from address `at` on.  A word of data at the place *)
(* of a header ends it: its first byte is zero.                             *)
RECURSIVE Records(_, _)
Records(table, at) ==
  IF table[at].num <= 0 THEN <<>>
  ELSE <<[num |-> table[at].num, length |-> table[at].val, at |-> at + 1]>>
       \o Records(table, at + 1 + table[at].val)

EntryOf(m, n) == SelectInSeq(m.entries, LAMBDA e : e.num = n)

------------------------------------------------------------------------------
(* The "with" and "private" segments.                                       *)

GiveIndividual(m, id, private, values) ==
  LET record == <<Header(id + IF private THEN PrivateBit ELSE 0, Len(values))>> \o Words(values)
      pointer == [num |-> 3, ao |-> <<Operand(Len(m.individuals) + 1, "INDIVPT_MV")>>]
  IN [m EXCEPT !.entries = IF m.individual_prop_table_size = 0 THEN Append(@, pointer) ELSE @,
               !.individual_prop_table_size = @ + 1,
               !.individuals = @ \o record]

GiveCommon(m, n, values) ==
  [m EXCEPT !.entries = Append(@, [num |-> n, ao |-> Constants(values)])]

TooMany(values) == Len(values) > MaxEntries

------------------------------------------------------------------------------
(* Inheritance.                                                             *)

AlreadyPresent(m, from, id) == \E r \in ToSet(Records(m.individuals, from)) : r.num = id

InheritRecord(m, r) ==
  LET start == Len(m.individuals)
      source == [i \in 1..r.length |-> r.at + i - 1]
  IN [m EXCEPT !.individuals = @ \o <<Header(r.num, r.length)>> \o Words(source),
               !.patches = @ \o [i \in 1..r.length |->
                                   [marker |-> "INHERIT_INDIV_MV", area |-> "INDIVIDUAL_PROP_ZA",
                                    at |-> start + 1 + i]]]

(* The records of the class's table that the object's, which begins at      *)
(* `from` and ends where individuals_table does, has not yet.               *)
InheritIndividuals(m, from, class_block_offset) ==
  FoldLeft(LAMBDA a, r :
             IF AlreadyPresent([a EXCEPT !.individuals = Append(@, Terminator)], from, r.num)
             THEN a ELSE InheritRecord(a, r),
           m, Records(m.individuals, class_block_offset))

Inherited(r) == [i \in 1..r.length |-> Operand(r.at + i - 1, "INHERIT_MV")]

Accumulate(m, k, r) ==
  LET ao == m.entries[k].ao \o Inherited(r)
  IN [m EXCEPT !.entries[k].ao = ao,
               !.errors = @ \cup IF Len(ao) > MaxEntries THEN {"overflowed"} ELSE {}]

InheritProperty(m, r, additive) ==
  LET k == EntryOf(m, r.num)
      offset == m.properties[r.at].val
      start == Len(m.individuals) + 1
      pointed == [num |-> 3, ao |-> <<Operand(start, "INDIVPT_MV")>>]
  IN CASE k # 0 /\ r.num = 3 -> InheritIndividuals(m, m.entries[k].ao[1].value, offset)
       [] k # 0 /\ r.num # 3 -> IF additive[r.num] THEN Accumulate(m, k, r) ELSE m
       [] k = 0 /\ r.num = 3 ->
            InheritIndividuals([m EXCEPT !.entries = Append(@, pointed),
                                         !.individual_prop_table_size = @ + 1], start, offset)
       [] OTHER -> [m EXCEPT !.entries = Append(@, [num |-> r.num, ao |-> Inherited(r)])]

(* blocks: where the block of each class of the object begins.              *)
property_inheritance(m, blocks, additive) ==
  LET all == FoldLeft(LAMBDA a, mark : FoldLeft(LAMBDA b, r : InheritProperty(b, r, additive), a,
                                                Records(m.properties, mark)), m, blocks)
  IN IF all.individual_prop_table_size = 0 THEN all
     ELSE [all EXCEPT !.individuals = Append(@, Terminator)]

------------------------------------------------------------------------------
(* The block.                                                               *)

WriteEntry(m, e) ==
  LET start == Len(m.properties)
      marked == SelectSeq([i \in DOMAIN e.ao |-> i], LAMBDA i : e.ao[i].marker \notin {"none", "OBJECT_MV"})
  IN [m EXCEPT !.properties = @ \o <<Header(e.num, StoredLength(Len(e.ao)))>>
                                \o [i \in DOMAIN e.ao |-> Word(e.ao[i].value)],
               !.patches = @ \o [i \in DOMAIN marked |->
                                   [marker |-> e.ao[marked[i]].marker, area |-> "PROP_ZA",
                                    at |-> start + 1 + marked[i]]]]

write_properties_between(m, from, to) ==
  LET numbered(n) == SelectSeq(m.entries, LAMBDA e : e.num = n)
      falling == FlattenSeq([i \in 1..(to - from + 1) |-> numbered(to + 1 - i)])
      all == FoldLeft(LAMBDA a, e : WriteEntry(a, e), m, falling)
  IN [all EXCEPT !.properties = Append(@, Terminator)]

AttributeCell(atts) == [num |-> 0 - 1, val |-> 0, atts |-> atts]

(* A class shows its individual properties to those that read it as an      *)
(* object; its attributes and its block proper, where begins_at points, are *)
(* for those that inherit.                                                  *)
write_property_block(m, is_class, highest) ==
  LET named == [m EXCEPT !.properties = Append(@, Word(0)), !.address = Len(m.properties) + 1]
      shown == write_properties_between(named, 3, 3)
      ready == [shown EXCEPT !.properties = Append(@, AttributeCell(m.atts)),
                             !.begins_at = Len(shown.properties) + 2]
  IN write_properties_between(IF is_class THEN ready ELSE named, 1, highest)

------------------------------------------------------------------------------
(* The story file: individuals_table some way behind properties_table, both *)
(* patched in the order the patches were made.                              *)

AddressIn(m, patch) ==
  IF patch.area = "PROP_ZA" THEN patch.at ELSE patch.at + Len(m.properties)

Patched(image, m, patch) ==
  LET value == image[AddressIn(m, patch)].val
  IN CASE patch.marker = "INHERIT_MV" -> image[value].val
       [] patch.marker = "INHERIT_INDIV_MV" -> image[value + Len(m.properties)].val
       [] patch.marker = "INDIVPT_MV" -> value + Len(m.properties)

(* Bug: the patches are applied from the last made to the first.            *)
backpatch_imageBug(m) ==
  FoldRight(LAMBDA p, image : [image EXCEPT ![AddressIn(m, p)].val = Patched(image, m, p)],
            m.patches, m.properties \o m.individuals)

backpatch_image(m) ==
  FoldLeft(LAMBDA image, p : [image EXCEPT ![AddressIn(m, p)].val = Patched(image, m, p)],
           m.properties \o m.individuals, m.patches)

------------------------------------------------------------------------------
(* What the Z-machine and the veneer read of it.  A length byte of zero     *)
(* means all MaxEntries values; a smaller number ends the search.           *)
Read(image, address) == IF address \in DOMAIN image THEN image[address] ELSE Terminator

ValuesAt(image, at, length) == [i \in 1..length |-> Read(image, at + i - 1).val]

RECURSIVE Find(_, _, _)
Find(image, at, n) ==
  LET h == Read(image, at)
      length == IF h.val = 0 THEN MaxEntries ELSE h.val
  IN IF h.num < n THEN <<>>
     ELSE IF h.num = n THEN ValuesAt(image, at + 1, length)
     ELSE Find(image, at + 1 + length, n)

(* self: whether the object's own routine reads, to which private values    *)
(* show.                                                                    *)
FindIndividual(image, at, id, self) ==
  LET pointer == Find(image, at, 3)
      right == IF pointer = <<>> THEN <<>>
               ELSE SelectSeq(Records(image, pointer[1]),
                              LAMBDA r : r.num = id \/ (self /\ r.num = id + PrivateBit))
  IN IF right = <<>> THEN <<>> ELSE ValuesAt(image, right[1].at, right[1].length)
===============================================================================
