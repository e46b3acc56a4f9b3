------------------------------- MODULE ObjectsG -------------------------------
(***************************************************************************)
(* Property tables of a Glulx game file (objects.c).  A block is a count,   *)
(* one record for every property, numbers rising, and the data they point   *)
(* to; common and individual properties stand together.  Values that an     *)
(* object adds to a property it already has are an entry of their own until *)
(* the block is written; the `continuation` of an entry gives their order.  *)
(*                                                                          *)
(* One cell stands for the count, for a record or for a word of data;       *)
(* addresses count cells from 1.  `entries` of the record `m` is            *)
(* full_object_g.props, each with its part of propdata as `ao`.             *)
(***************************************************************************)
EXTENDS Integers, Sequences, SequencesExt, FiniteSets

CONSTANT ObjectTree       \* object_tree_offset

Word(v) == [num |-> 0 - 1, val |-> v]
Operand(v, mv) == [value |-> v, marker |-> mv]

Entry(n, flags, continuation, ao) ==
  [num |-> n, flags |-> flags, continuation |-> continuation, ao |-> ao]

Private == 1

Give(m, n, private, values) ==
  LET ao == [i \in DOMAIN values |-> Operand(values[i], "none")]
  IN [m EXCEPT !.entries = Append(@, Entry(n, IF private THEN Private ELSE 0, 0, ao))]

------------------------------------------------------------------------------
(* Inheritance.                                                             *)

Records(table, at) == SubSeq(table, at + 1, at + table[at].val)

Inherited(r) == [i \in 1..r.length |-> Operand(r.at + i - 1, "INHERIT_MV")]

EntriesOf(m, n) == SelectSeq([k \in DOMAIN m.entries |-> k], LAMBDA k : m.entries[k].num = n)

(* The first entry of the property becomes number 1.                        *)
Accumulate(m, ks, r) ==
  LET continuation == m.entries[ks[Len(ks)]].continuation
      last == IF continuation = 0 THEN 1 ELSE continuation
      begun == IF m.entries[ks[1]].continuation = 0
               THEN [m EXCEPT !.entries[ks[1]].continuation = 1] ELSE m
  IN [begun EXCEPT !.entries = Append(@, Entry(r.num, 0, last + 1, Inherited(r)))]

InheritProperty(m, r, additive) ==
  LET ks == EntriesOf(m, r.num)
  IN CASE ks = <<>> -> [m EXCEPT !.entries = Append(@, Entry(r.num, r.flags, 0, Inherited(r)))]
       [] ks # <<>> /\ r.num \in DOMAIN additive /\ additive[r.num] -> Accumulate(m, ks, r)
       [] OTHER -> m

property_inheritance(m, blocks, additive) ==
  FoldLeft(LAMBDA a, mark : FoldLeft(LAMBDA b, r : InheritProperty(b, r, additive), a,
                                     Records(m.properties, mark)), m, blocks)

------------------------------------------------------------------------------
(* The block.                                                               *)

gpropsort(p, q) == \/ p.num < q.num
                   \/ p.num = q.num /\ p.continuation <= q.continuation

Data(group) == FlattenSeq([k \in DOMAIN group |-> group[k].ao])

(* Bug: only the first entry of a property is written.                      *)
GroupsBug(sorted) ==
  LET starts == SelectSeq([k \in DOMAIN sorted |-> k],
                          LAMBDA k : k = 1 \/ sorted[k - 1].num # sorted[k].num)
  IN [j \in DOMAIN starts |-> <<sorted[starts[j]]>>]

Groups(sorted) ==
  LET starts == SelectSeq([k \in DOMAIN sorted |-> k],
                          LAMBDA k : k = 1 \/ sorted[k - 1].num # sorted[k].num)
  IN [j \in DOMAIN starts |->
        SubSeq(sorted, starts[j], IF j = Len(starts) THEN Len(sorted) ELSE starts[j + 1] - 1)]

AttributeCell(atts) == [num |-> 0 - 1, val |-> 0, atts |-> atts]

write_property_block(m, is_class) ==
  LET table == IF is_class THEN Append(m.properties, AttributeCell(m.atts)) ELSE m.properties
      groups == Groups(SortSeq(m.entries, gpropsort))
      mark == Len(table) + 1
      datamark == mark + Len(groups) + 1
      before(j) == FoldLeft(LAMBDA n, g : n + Len(Data(g)), 0, SubSeq(groups, 1, j - 1))
      record(j) == [num |-> groups[j][1].num, length |-> Len(Data(groups[j])),
                    at |-> datamark + before(j), flags |-> groups[j][1].flags]
      data == FlattenSeq([j \in DOMAIN groups |-> Data(groups[j])])
      marked == SelectSeq([i \in DOMAIN data |-> i], LAMBDA i : data[i].marker # "none")
  IN [m EXCEPT !.properties = table \o <<Word(Len(groups))>> \o [j \in DOMAIN groups |-> record(j)]
                                    \o [i \in DOMAIN data |-> Word(data[i].value)],
               !.patches = @ \o [i \in DOMAIN marked |->
                                   [marker |-> data[marked[i]].marker, area |-> "PROP_ZA",
                                    at |-> datamark + marked[i] - 1]],
               !.address = mark,
               !.begins_at = mark]

------------------------------------------------------------------------------
(* The game file and what the veneer reads of it: a binary search, which    *)
(* needs the records sorted and no number twice.                            *)
ObjectAddress(n) == ObjectTree + n - 1

backpatch_image(m) ==
  FoldLeft(LAMBDA image, p :
             [image EXCEPT ![p.at].val = IF p.marker = "OBJECT_MV" THEN ObjectAddress(@)
                                         ELSE image[@].val],
           m.properties, m.patches)

RECURSIVE Search(_, _, _, _)
Search(records, low, high, n) ==
  IF low >= high THEN <<>>
  ELSE LET middle == (low + high) \div 2
           r == records[middle]
       IN IF r.num = n THEN <<r>>
          ELSE IF r.num > n THEN Search(records, low, middle, n)
          ELSE Search(records, middle + 1, high, n)

Find(image, at, n, self) ==
  LET found == Search(Records(image, at), 1, image[at].val + 1, n)
  IN IF found = <<>> \/ (found[1].flags = Private /\ ~self) THEN <<>>
     ELSE [i \in 1..found[1].length |-> image[found[1].at + i - 1].val]
===============================================================================
