---------------------------- MODULE ExpressionTree ----------------------------
(* The operators of Inform and the trees expressions are parsed into:        *)
(* operators[] (expressc.c) and expression_tree_node (header.h).  A node's   *)
(* kids replace the links down, right and up.  The twenty operators that     *)
(* exist for the lvalues a->b, a-->b, a..b and a.b, and x.y(...), are their   *)
(* plain operator with what is assigned or called in the field of.           *)
EXTENDS Naturals, Integers, Sequences, SequencesExt

CONSTANT Word      \* 2^16 or 2^32: how many values a word has

ASSUME WordAssumption == Word \in Nat /\ Word % 2 = 0 /\ Word > 2

\* name, precedence, usage, associativity, requires_lvalue, side_effect,
\* negation
OperatorRows == {
  <<"COMMA",        0, "in",   "L", FALSE, FALSE, "none">>,
  <<"SETEQUALS",    1, "in",   "R", TRUE,  TRUE,  "none">>,
  <<"LOGAND",       2, "in",   "L", FALSE, FALSE, "LOGOR">>,
  <<"LOGOR",        2, "in",   "L", FALSE, FALSE, "LOGAND">>,
  <<"LOGNOT",       2, "pre",  "R", FALSE, FALSE, "LOGNOT">>,
  <<"ZERO",         3, "none", "0", FALSE, FALSE, "NONZERO">>,
  <<"NONZERO",      3, "none", "0", FALSE, FALSE, "ZERO">>,
  <<"CONDEQUALS",   3, "in",   "0", FALSE, FALSE, "NOTEQUAL">>,
  <<"NOTEQUAL",     3, "in",   "0", FALSE, FALSE, "CONDEQUALS">>,
  <<"GE",           3, "in",   "0", FALSE, FALSE, "LESS">>,
  <<"GREATER",      3, "in",   "0", FALSE, FALSE, "LE">>,
  <<"LE",           3, "in",   "0", FALSE, FALSE, "GREATER">>,
  <<"LESS",         3, "in",   "0", FALSE, FALSE, "GE">>,
  <<"HAS",          3, "in",   "0", FALSE, FALSE, "HASNT">>,
  <<"HASNT",        3, "in",   "0", FALSE, FALSE, "HAS">>,
  <<"IN",           3, "in",   "0", FALSE, FALSE, "NOTIN">>,
  <<"NOTIN",        3, "in",   "0", FALSE, FALSE, "IN">>,
  <<"OFCLASS",      3, "in",   "0", FALSE, FALSE, "NOTOFCLASS">>,
  <<"PROVIDES",     3, "in",   "0", FALSE, FALSE, "NOTPROVIDES">>,
  <<"NOTOFCLASS",   3, "none", "0", FALSE, FALSE, "OFCLASS">>,
  <<"NOTPROVIDES",  3, "none", "0", FALSE, FALSE, "PROVIDES">>,
  <<"OR",           4, "in",   "L", FALSE, FALSE, "none">>,
  <<"PLUS",         5, "in",   "L", FALSE, FALSE, "none">>,
  <<"MINUS",        5, "in",   "L", FALSE, FALSE, "none">>,
  <<"TIMES",        6, "in",   "L", FALSE, FALSE, "none">>,
  <<"DIVIDE",       6, "in",   "L", FALSE, FALSE, "none">>,
  <<"REMAINDER",    6, "in",   "L", FALSE, FALSE, "none">>,
  <<"ARTAND",       6, "in",   "L", FALSE, FALSE, "none">>,
  <<"ARTOR",        6, "in",   "L", FALSE, FALSE, "none">>,
  <<"ARTNOT",       6, "pre",  "R", FALSE, FALSE, "none">>,
  <<"ARROW",        7, "in",   "L", FALSE, FALSE, "none">>,
  <<"DARROW",       7, "in",   "L", FALSE, FALSE, "none">>,
  <<"UNARY_MINUS",  8, "pre",  "R", FALSE, FALSE, "none">>,
  <<"INC",          9, "pre",  "R", TRUE,  TRUE,  "none">>,
  <<"POST_INC",     9, "post", "R", TRUE,  TRUE,  "none">>,
  <<"DEC",          9, "pre",  "R", TRUE,  TRUE,  "none">>,
  <<"POST_DEC",     9, "post", "R", TRUE,  TRUE,  "none">>,
  <<"PROP_ADD",    10, "in",   "L", FALSE, FALSE, "none">>,
  <<"PROP_NUM",    10, "in",   "L", FALSE, FALSE, "none">>,
  <<"MPROP_ADD",   10, "in",   "L", FALSE, FALSE, "none">>,
  <<"MPROP_NUM",   10, "in",   "L", FALSE, FALSE, "none">>,
  <<"FCALL",       11, "in",   "L", FALSE, TRUE,  "none">>,
  <<"MESSAGE",     12, "in",   "L", FALSE, FALSE, "none">>,
  <<"PROPERTY",    12, "in",   "L", FALSE, FALSE, "none">>,
  <<"SUPERCLASS",  13, "in",   "L", FALSE, FALSE, "none">>,
  <<"PUSH",        14, "none", "0", FALSE, TRUE,  "none">> }

operators == [o \in {row[1] : row \in OperatorRows} |->
                CHOOSE row \in OperatorRows : row[1] = o]

Precedence(o)    == operators[o][2]
Usage(o)         == operators[o][3]
Associativity(o) == operators[o][4]
RequiresLvalue(o) == operators[o][5]
SideEffect(o)    == operators[o][6]
Negation(o)      == operators[o][7]

Conditions == {o \in DOMAIN operators : Precedence(o) = 3}

\* The test a condition compiles to, with the sense it is taken in.
Test(o) ==
  CASE o \in {"ZERO", "NONZERO"}        -> <<"jz", o = "ZERO">>
    [] o \in {"CONDEQUALS", "NOTEQUAL"} -> <<"je", o = "CONDEQUALS">>
    [] o \in {"LESS", "GE"}             -> <<"jl", o = "LESS">>
    [] o \in {"GREATER", "LE"}          -> <<"jg", o = "GREATER">>
    [] o \in {"HAS", "HASNT"}           -> <<"test_attr", o = "HAS">>
    [] o \in {"IN", "NOTIN"}            -> <<"jin", o = "IN">>
    [] o \in {"OFCLASS", "NOTOFCLASS"}  -> <<"OC__Cl", o = "OFCLASS">>
    [] OTHER                            -> <<"OP__Pr", o = "PROVIDES">>

\* What can be assigned to besides a variable.
LvalueForms == {"ARROW", "DARROW", "MESSAGE", "PROPERTY"}

\* An operand: a constant, whose marker says whether its value is known or
\* what it waits to be backpatched for, a variable, or the name of a system
\* function.
Operand(type, value, marker) == [type |-> type, value |-> value, marker |-> marker]
ZeroOperand == Operand("const", 0, "none")

Node(o, of, kids) == [op |-> o, of |-> of, kids |-> kids, val |-> ZeroOperand]
Leaf(val)         == [op |-> "leaf", of |-> "var", kids |-> <<>>, val |-> val]
IsLeaf(t)         == t.op = "leaf"
ZeroLeaf          == Leaf(ZeroOperand)
IsConstant(t)     == IsLeaf(t) /\ t.val.type = "const"
KnownOperand(v)   == v.type = "const" /\ v.marker = "none"
IsKnown(t)        == IsLeaf(t) /\ KnownOperand(t.val)

--------------------------------------------------------------------------------
(* Arithmetic on words *)

Signed(v) == IF v >= Word \div 2 THEN v - Word ELSE v
Truth(b) == IF b THEN 1 ELSE 0
AbsValue(n) == IF n < 0 THEN -n ELSE n

\* C's division as emit_token spells it out, on the magnitudes.
Quotient(a, b) ==
  LET q == AbsValue(a) \div AbsValue(b) IN IF (a < 0) # (b < 0) THEN -q ELSE q
Remainder(a, b) ==
  LET r == AbsValue(a) % AbsValue(b) IN IF a < 0 THEN -r ELSE r

RECURSIVE BitOp(_, _, _)
BitOp(a, b, both) ==
  IF a = 0 /\ b = 0 THEN 0
  ELSE 2 * BitOp(a \div 2, b \div 2, both)
       + Truth(IF both THEN a % 2 = 1 /\ b % 2 = 1 ELSE a % 2 = 1 \/ b % 2 = 1)

--------------------------------------------------------------------------------
\* The subtrees of a tree, itself included.
RECURSIVE Subtrees(_)
Subtrees(t) == {t} \cup UNION {Subtrees(t.kids[i]) : i \in DOMAIN t.kids}
==============================================================================
