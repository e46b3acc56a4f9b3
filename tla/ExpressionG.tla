------------------------------ MODULE ExpressionG ------------------------------
(* The Glulx code that generate_code_from (expressc.c) assembles for one     *)
(* node of an expression tree; what is the same for both machines is taken   *)
(* from ExpressionZ.                                                         *)
EXTENDS ExpressionZ

--------------------------------------------------------------------------------
(* access_memory_g *)

FirstEntryG(array, oc) ==
  IF oc \in Loads \/ array.type \notin {"string", "table"} THEN 0
  ELSE IF array.type = "table" /\ Size(oc) = 1 THEN 4 ELSE 1

LastEntryG(array, oc) ==
  IF Size(oc) = 1 /\ array.type \in {"word", "table"} THEN array.size * 4 + 3
  ELSE IF Size(oc) = 4 /\ array.type \in {"byte", "string", "buffer"}
    THEN Quotient(array.size - 3, 4)
  ELSE array.size

PushAll(args) == FlattenSeq([j \in DOMAIN args |-> Store(Sp, args[j])])

\* A known index is checked there and then, by EntryErrors.
AccessMemoryG(oc, a1, a2, a3, at, strict) ==
  IF ~strict \/ (IsArray(a1) /\ KnownOperand(a2)) THEN PlainAccess(oc, a1, a2, a3)
  ELSE IF IsArray(a1) THEN
    LET array == Arrays[a1.value]
        index == IF IsSp(a2) THEN Temp2 ELSE a2
    IN  CheckedEntry(oc, a1, a2, a3, FirstEntryG(array, oc), LastEntryG(array, oc),
          PushAll(<<Const(array.size), index, Const(AboundsRTE(oc))>>)
          \o Do("callstack", <<Veneer("RT__Err"), Const(3)>>, Nowhere), at)
  ELSE IF oc \in Loads THEN Call(<<VeneerAccess(oc), a1, a2>>, a3)
  ELSE Call(<<VeneerAccess(oc), a1, a2, a3>>, Nowhere)

\* The error reported when the code is compiled, with the code left as it is.
EntryError(oc, a1, a2, strict) ==
  /\ strict /\ IsArray(a1) /\ KnownOperand(a2)
  /\ a2.value \notin FirstEntryG(Arrays[a1.value], oc) .. LastEntryG(Arrays[a1.value], oc)

--------------------------------------------------------------------------------
(* check_nonzero_at_runtime_g *)

TypeByte  == Const(7)       \* 0x70, of an object
ObjectObj == Operand("const", 2, "object")
ClassObj  == Operand("const", 1, "object")

CheckNonzeroG(a, error, rte, at) ==
  LET passed == L(at, "object")
      failed == L(at, "no object")
      o      == IF IsSp(a) THEN Temp2 ELSE a
      tests  == Branch("jz", <<o>>, failed, TRUE) \o Do("type_byte", <<o>>, Sp) \o
                (IF AllowsClasses(rte) THEN Branch("je", <<Sp, TypeByte>>, passed, TRUE)
                 ELSE Branch("je", <<Sp, TypeByte>>, failed, FALSE) \o
                      Do("get_parent", <<o>>, Sp) \o
                      Branch("je", <<Sp, ClassObj>>, passed, FALSE))
      report == (IF IsSp(a) THEN Keep(Temp2) ELSE <<>>) \o tests \o Mark(failed)
                \o Call(<<Veneer("RT__Err"), Const(rte), a>>, Nowhere)
  IN  IF a.type = "const" /\ a.marker = "object" /\ a.value \in 1..KnownObjects THEN Checked(<<>>, a)
      ELSE IF error # NoLabel THEN Checked(report \o Jump(error) \o Mark(passed), a)
      ELSE IF IsSp(a) THEN Checked(report \o Store(Sp, ObjectObj) \o Mark(passed), a)
      ELSE Checked(report \o Store(Temp2, ObjectObj) \o Jump(L(at, "last"))
                   \o Mark(passed) \o Store(Temp2, a) \o Mark(L(at, "last")), Temp2)

CheckedG(a, rte, at, strict) ==
  IF strict THEN CheckNonzeroG(a, NoLabel, rte, at) ELSE Checked(<<>>, a)

--------------------------------------------------------------------------------
(* compile_conditional_g *)

Peek(k, temp) == Do("stkpeek", <<Const(k)>>, temp)
Swap == Do("stkswap", <<>>, Nowhere)

AttributeCheckG(a1, a2, at) ==
  (IF IsSp(a1) THEN Peek(0, Temp1) \o (IF IsSp(a2) THEN Peek(1, Temp2) ELSE Store(Temp2, a2))
   ELSE Store(Temp1, a1) \o (IF IsSp(a2) THEN Peek(0, Temp2) ELSE Store(Temp2, a2))) \o
  Branch("jl", <<Temp2, Zero>>, L(at, "no attribute"), TRUE) \o
  Branch("jl", <<Temp2, Const(NumAttributes)>>, L(at, "attribute"), TRUE) \o
  Mark(L(at, "no attribute")) \o
  PushAll(<<Temp2, Temp1, Const(19)>>) \o
  Do("callstack", <<Veneer("RT__Err"), Const(3)>>, Nowhere) \o
  Jump(L(at, "not tested")) \o Mark(L(at, "attribute"))

\* The attribute's number plus 8 is the bit to test; the object is to be read
\* before it, on the stack or not.
AttributeBit(a1, a2) ==
  IF KnownOperand(a2) THEN Do("aloadbit", <<a1, Const(a2.value + 8)>>, Sp)
  ELSE (IF IsSp(a1)
        THEN (IF IsSp(a2) THEN Swap ELSE <<>>) \o Do("PLUS", <<a2, Const(8)>>, Sp) \o Swap
        ELSE Do("PLUS", <<a2, Const(8)>>, Sp))
       \o Do("aloadbit", <<a1, Sp>>, Sp)

CompileConditionalG(oc, a1, a2, label, flag, at, strict) ==
  LET checks  == strict /\ oc \in {"jin", "test_attr"}
      error   == IF flag THEN L(at, "error") ELSE label
      object  == IF checks THEN CheckNonzeroG(a1, error, IF oc = "jin" THEN IN_RTE ELSE HAS_RTE, at)
                 ELSE Checked(<<>>, a1)
      unknown == checks /\ oc = "test_attr" /\ ~KnownOperand(a2)
      test    == CASE oc = "test_attr" -> AttributeBit(object.val, a2) \o
                                          Branch("jz", <<Sp>>, label, ~flag)
                   [] oc = "jin" -> Do("get_parent", <<object.val>>, Sp) \o
                                    Branch("je", <<Sp, a2>>, label, flag)
                   [] oc \in {"OC__Cl", "OP__Pr"} ->
                        Call(<<Veneer(oc), a1, a2>>, Sp) \o Branch("jz", <<Sp>>, label, ~flag)
                   [] OTHER -> Branch(oc, <<a1, a2>>, label, flag)
  IN  object.code
      \o (IF unknown THEN AttributeCheckG(object.val, a2, at) ELSE <<>>)
      \o test
      \o (IF checks /\ flag THEN Mark(error) ELSE <<>>)
      \o (IF unknown THEN Mark(L(at, "not tested")) ELSE <<>>)

RECURSIVE AlternativesG(_, _, _, _, _, _, _, _)
AlternativesG(oc, left, rights, away, other, flag, at, strict) ==
  LET n    == Len(rights)
      last == n = 1 \/ flag
  IN  IF n = 0 THEN <<>>
      ELSE CompileConditionalG(oc, left, rights[1], IF last THEN away ELSE other,
                               IF last THEN flag ELSE ~flag, Append(at, -n), strict)
           \o AlternativesG(oc, left, Tail(rights), away, other, flag, at, strict)

ConditionG(o, vals, yes, no, at, strict) ==
  LET oc    == IF Test(o)[1] = "je" /\ Len(vals) = 2 /\ vals[2] = Zero THEN "jz" ELSE Test(o)[1]
      away  == IF yes = NoLabel THEN no ELSE yes
      flag  == IF yes = NoLabel THEN ~Test(o)[2] ELSE Test(o)[2]
      both  == yes # NoLabel /\ no # NoLabel
      lands == ~both /\ Len(vals) > 2 /\ ~flag
      other == IF both THEN no ELSE IF lands THEN L(at, "other") ELSE NoLabel
      left  == IF IsSp(vals[1]) THEN Temp1 ELSE vals[1]
  IN  (IF oc = "jz" THEN Branch("jz", <<vals[1]>>, away, flag)
       ELSE IF Len(vals) = 2 THEN CompileConditionalG(oc, vals[1], vals[2], away, flag, at, strict)
       ELSE WriteResult(left, vals[1]) \o
            AlternativesG(oc, left, Tail(vals), away, other, flag, at, strict))
      \o (IF lands THEN Mark(other) ELSE <<>>)
      \o (IF both THEN Jump(no) ELSE <<>>)

--------------------------------------------------------------------------------
(* Operators that make a value *)

\* try_optimize_expr_g
InfixG(o, a, b, result) ==
  IF Unchanged(o, a, b) # {} THEN WriteResult(result, CHOOSE v \in Unchanged(o, a, b) : TRUE)
  ELSE Do(o, <<a, b>>, result)

DivideG(o, a, b, result, at) ==
  Store(Temp1, a) \o Store(Temp2, b)
  \o Branch("jz", <<Temp2>>, L(at, "divides"), FALSE)
  \o Call(<<Veneer("RT__Err"), Const(DBYZERO_RTE)>>, Nowhere)
  \o Store(Temp2, One)
  \o Mark(L(at, "divides")) \o Do(o, <<Temp1, Temp2>>, result)

\* A call with more than three arguments finds them on the stack: those that
\* are not there yet are pushed, which a PUSH node has done for all but one.
CallG(f, args, void, result) ==
  LET to == IF void THEN Nowhere ELSE result
  IN  IF Len(args) <= 3 THEN Call(<<f>> \o args, to)
      ELSE PushAll(SelectSeq(args, LAMBDA a : ~IsSp(a)))
           \o Do("callstack", <<f, Const(Len(args))>>, to)

MixedArguments(args) ==
  LET off == Cardinality({j \in DOMAIN args : ~IsSp(args[j])})
  IN  Len(args) > 3 /\ (off > 1 \/ off \in 1 .. Len(args) - 1)

\* Bug: an object on the stack is rolled below the property and the value.
ThreeOnStackBug(a, b, c) ==
  IF IsSp(a) /\ ~IsSp(b) /\ ~IsSp(c)
  THEN Store(Sp, c) \o Store(Sp, b) \o Do("stkroll", <<Const(3), Const(1)>>, Nowhere)
  ELSE IF IsSp(c) THEN (IF IsSp(b) THEN <<>> ELSE Store(Sp, b))
                       \o (IF IsSp(a) THEN <<>> ELSE Store(Sp, a))
  ELSE Store(Sp, c) \o Store(Sp, b) \o Store(Sp, a)

\* The three arguments of a property's assignment, from wherever they are,
\* in their order onto the stack.
ThreeOnStack(a, b, c) ==
  CASE IsSp(c) /\ IsSp(b) /\ IsSp(a) -> <<>>
    [] IsSp(c) /\ IsSp(a) /\ ~IsSp(b) -> Store(Sp, b) \o Swap
    [] IsSp(c) /\ IsSp(b) /\ ~IsSp(a) -> Store(Sp, a)
    [] IsSp(c) /\ ~IsSp(b) /\ ~IsSp(a) -> Store(Sp, b) \o Store(Sp, a)
    [] ~IsSp(c) /\ IsSp(b) /\ IsSp(a) ->
         Store(Sp, c) \o Do("stkroll", <<Const(3), Const(1)>>, Nowhere)
    [] ~IsSp(c) /\ IsSp(b) /\ ~IsSp(a) -> Store(Sp, c) \o Swap \o Store(Sp, a)
    [] ~IsSp(c) /\ ~IsSp(b) /\ IsSp(a) ->
         Store(Sp, c) \o Store(Sp, b) \o Do("stkroll", <<Const(3), Const(2)>>, Nowhere)
    [] OTHER -> Store(Sp, c) \o Store(Sp, b) \o Store(Sp, a)

IncDecG(t, vals, at, void, result, strict) ==
  LET give(x) == IF void THEN <<>> ELSE WriteResult(result, x)
  IN  CASE t.of = "var" -> Modify(t.op, vals[1], <<>>, give(vals[1]))
        [] t.of \in {"MESSAGE", "PROPERTY"} -> CallG(ModifyVeneer[t.op], vals, void, result)
        [] OTHER ->
             Store(Temp1, vals[1]) \o Store(Temp2, vals[2])
             \o AccessMemoryG(IF t.of = "ARROW" THEN "loadb" ELSE "aload",
                              Temp1, Temp2, Temp3, Append(at, -1), strict)
             \o Modify(t.op, Temp3,
                       AccessMemoryG(IF t.of = "ARROW" THEN "storeb" ELSE "astore",
                                     Temp1, Temp2, Temp3, Append(at, -2), strict), give(Temp3))

SetEqualsG(t, vals, at, void, result, strict) ==
  LET oc == IF t.of = "ARROW" THEN "storeb" ELSE "astore"
  IN  CASE t.of = "var" -> Store(vals[1], vals[2]) \o
                           (IF void THEN <<>> ELSE WriteResult(result, vals[1]))
        [] t.of \in {"MESSAGE", "PROPERTY"} ->
             ThreeOnStack(vals[1], vals[2], vals[3])
             \o Do("callstack", <<Veneer(IF strict THEN "RT__ChPS" ELSE "WV__Pr"), Const(3)>>,
                   IF void THEN Nowhere ELSE result)
        [] OTHER ->
             IF void THEN AccessMemoryG(oc, vals[1], vals[2], vals[3], at, strict)
             ELSE Store(Temp1, vals[3])
                  \o AccessMemoryG(oc, vals[1], vals[2], Temp1, at, strict)
                  \o WriteResult(result, Temp1)

\* random: of constants, of a number known to be positive or not, or of one
\* found out at run time.
RandomG(vals, result, at) ==
  LET n == Signed(vals[1].value)
  IN  IF Len(vals) > 1 THEN Do("random", <<Const(Len(vals))>>, Sp)
                            \o Do("entry", <<Sp>> \o vals, result)
      ELSE IF KnownOperand(vals[1])
        THEN IF n > 0 THEN Do("random", vals, Sp) \o Do("PLUS", <<Sp, One>>, result)
             ELSE Do("setrandom", <<Const(-n)>>, Nowhere) \o Store(result, Zero)
      ELSE Store(Temp1, vals[1])
           \o Branch("jg", <<Temp1, Zero>>, L(at, "seeds"), FALSE)
           \o Do("random", <<Temp1>>, Sp) \o Do("PLUS", <<Sp, One>>, result)
           \o Jump(L(at, "seeded"))
           \o Mark(L(at, "seeds")) \o Do("UNARY_MINUS", <<Temp1>>, Sp)
           \o Do("setrandom", <<Sp>>, Nowhere) \o Store(result, Zero)
           \o Mark(L(at, "seeded"))

SystemFunctionG(f, vals, at, void, result, strict) ==
  LET o == CheckedG(vals[1], SystemRTE[IF f = "elder" THEN "youngest" ELSE f], at, strict)
      again == L(at, "again")
      done  == L(at, "done with")
      first == L(at, "first")
      give(x) == IF void THEN <<>> ELSE WriteResult(result, x)
  IN  CASE f = "random" -> RandomG(vals, result, at)
        [] f = "metaclass" -> Call(<<Veneer("Metaclass"), vals[1]>>, result)
        [] f = "indirect" -> CallG(vals[1], Tail(vals), void, result)
        [] f = "glk" -> CallG(Veneer("Glk__Wrap"), vals, void, result)
        [] f \in DOMAIN GetLink -> o.code \o Do(GetLink[f], <<o.val>>, result)
        [] f = "children" ->
             o.code \o Store(Temp1, Zero) \o Do("get_child", <<o.val>>, Temp2)
             \o Mark(again) \o Branch("jz", <<Temp2>>, done, TRUE)
             \o Do("PLUS", <<Temp1, One>>, Temp1) \o Do("get_sibling", <<Temp2>>, Temp2)
             \o Jump(again) \o Mark(done) \o give(Temp1)
        [] f = "youngest" ->
             o.code \o Do("get_child", <<o.val>>, Temp1) \o Branch("jz", <<Temp1>>, done, TRUE)
             \o Mark(again) \o Do("get_sibling", <<Temp1>>, Temp2)
             \o Branch("jz", <<Temp2>>, done, TRUE) \o Store(Temp1, Temp2)
             \o Jump(again) \o Mark(done) \o give(Temp1)
        [] f = "elder" ->
             o.code \o Store(Temp3, o.val) \o Do("get_parent", <<Temp3>>, Temp1)
             \o Branch("jz", <<Temp1>>, done, TRUE) \o Do("get_child", <<Temp1>>, Temp1)
             \o Branch("jz", <<Temp1>>, done, TRUE) \o Branch("je", <<Temp3, Temp1>>, first, TRUE)
             \o Mark(again) \o Do("get_sibling", <<Temp1>>, Temp2)
             \o Branch("je", <<Temp3, Temp2>>, done, TRUE) \o Store(Temp1, Temp2)
             \o Jump(again) \o Mark(first) \o Store(Temp1, Zero)
             \o Mark(done) \o give(Temp1)

ValueG(t, vals, at, void, result, strict) ==
  LET call(r) == CallG(Veneer(r), vals, void, result)
  IN  CASE t.op \in Divisions /\ strict ->
             IF KnownOperand(vals[2]) /\ vals[2] # Zero THEN Do(t.op, vals, result)
             ELSE DivideG(t.op, vals[1], vals[2], result, at)
        [] t.op \in DirectOps /\ ~(strict /\ t.op \in Divisions) -> InfixG(t.op, vals[1], vals[2], result)
        [] t.op \in {"UNARY_MINUS", "ARTNOT"} -> Do(t.op, vals, result)
        [] t.op = "PUSH" -> WriteResult(result, vals[1])
        [] t.op \in {"ARROW", "DARROW"} ->
             AccessMemoryG(IF t.op = "ARROW" THEN "loadb" ELSE "aload", vals[1], vals[2], result,
                           at, strict)
        [] t.op \in {"PROPERTY", "MESSAGE"}   -> call("RV__Pr")
        [] t.op \in {"PROP_ADD", "MPROP_ADD"} -> call("RA__Pr")
        [] t.op \in {"PROP_NUM", "MPROP_NUM"} -> call("RL__Pr")
        [] t.op = "SUPERCLASS" -> call("RA__Sc")
        [] t.op = "FCALL" ->
             IF t.of # "var" THEN call("CA__Pr")
             ELSE IF vals[1].type = "sysfun"
               THEN SystemFunctionG(vals[1].value, Tail(vals), at, void, result, strict)
             ELSE CallG(vals[1], Tail(vals), void, result)
        [] t.op = "SETEQUALS" -> SetEqualsG(t, vals, at, void, result, strict)
        [] t.op \in {"INC", "DEC", "POST_INC", "POST_DEC"} ->
             IncDecG(t, vals, at, void, result, strict)
==============================================================================
