------------------------------ MODULE ExpressionZ ------------------------------
(* The Z-code that generate_code_from (expressc.c) assembles for one node of *)
(* an expression tree, from the operands its kids' values were left in.      *)
(* Each operator is given where in the tree the node is, which names its     *)
(* labels, and whether run-time errors are checked for (strict).  Version 5  *)
(* and later.                                                                *)
EXTENDS ExpressionMachine

CONSTANTS KnownObjects,   \* no_objects when the code is compiled
          NumAttributes   \* 48, or those of NUM_ATTR_BYTES

IsArray(v) == v.type = "const" /\ v.marker = "array"

\* write_result_z, and in Glulx write_result_g
WriteResult(to, from) == IF to = from THEN <<>> ELSE Store(to, from)

--------------------------------------------------------------------------------
(* Reading and writing memory *)

\* The entries of a declared array that may be accessed, by access: those of
\* the other size than its own too, and on writing not its length.
FirstEntryZ(array, oc) ==
  IF oc \in Loads \/ array.type \notin {"string", "table"} THEN 0
  ELSE IF array.type = "table" /\ Size(oc) = 1 THEN 2 ELSE 1

LastEntryZ(array, oc) ==
  IF Size(oc) = 1 /\ array.type \in {"word", "table"} THEN array.size * 2 + 1
  ELSE IF Size(oc) = 2 /\ array.type \in {"byte", "string", "buffer"}
    THEN IF array.size % 2 = 0 THEN (array.size \div 2) - 1 ELSE (array.size - 1) \div 2
  ELSE array.size

AboundsRTE(oc) == 28 + (IF Size(oc) = 1 THEN 0 ELSE 1) + (IF oc \in Loads THEN 0 ELSE 2)

VeneerAccess(oc) ==
  Veneer(IF oc \in Loads THEN IF Size(oc) = 1 THEN "RT__ChLDB" ELSE "RT__ChLDW"
         ELSE IF Size(oc) = 1 THEN "RT__ChSTB" ELSE "RT__ChSTW")

\* The access itself: a3 is where to load to, or what is stored.
PlainAccess(oc, a1, a2, a3) ==
  IF oc \in Loads THEN Do(oc, <<a1, a2>>, a3) ELSE Do(oc, <<a1, a2, a3>>, Nowhere)

\* Bug: the value to be stored is left on the stack when it is not stored.
PopUnusedBug(oc, a1, a2, a3) ==
  (IF IsSp(a1) THEN Store(Nowhere, Sp) ELSE <<>>) \o
  (IF IsSp(a2) THEN Store(Nowhere, Sp) ELSE <<>>) \o
  (IF IsSp(a3) /\ oc \in Loads THEN Store(Sp, Zero) ELSE <<>>)

\* What the access would have done to the stack, when it is not made.
PopUnused(oc, a1, a2, a3) ==
  (IF IsSp(a1) THEN Store(Nowhere, Sp) ELSE <<>>) \o
  (IF IsSp(a2) THEN Store(Nowhere, Sp) ELSE <<>>) \o
  (IF ~IsSp(a3) THEN <<>> ELSE IF oc \in Loads THEN Store(Sp, Zero) ELSE Store(Nowhere, Sp))

\* The index on the stack, to be looked at more than once, is kept there.
Keep(temp) == Store(temp, Sp) \o Store(Sp, temp)

CheckedEntry(oc, a1, a2, a3, first, last, report, at) ==
  LET index == IF IsSp(a2) THEN Temp2 ELSE a2
  IN  (IF IsSp(a2) THEN Keep(Temp2) ELSE <<>>)
      \o Branch("jl", <<index, Const(first)>>, L(at, "failed"), TRUE)
      \o Branch("jl", <<index, Const(last + 1)>>, L(at, "passed"), TRUE)
      \o Mark(L(at, "failed")) \o report
      \o PopUnused(oc, a1, a2, a3) \o Jump(L(at, "final"))
      \o Mark(L(at, "passed")) \o PlainAccess(oc, a1, a2, a3)
      \o Mark(L(at, "final"))

AccessMemoryZ(oc, a1, a2, a3, at, strict) ==
  IF ~strict THEN PlainAccess(oc, a1, a2, a3)
  ELSE IF IsArray(a1) THEN
    LET array == Arrays[a1.value]
        index == IF IsSp(a2) THEN Temp2 ELSE a2
    IN  CheckedEntry(oc, a1, a2, a3, FirstEntryZ(array, oc), LastEntryZ(array, oc),
          Call(<<Veneer("RT__Err"), Const(AboundsRTE(oc)), index, Const(array.size)>>, Nowhere), at)
  ELSE IF oc \in Loads THEN Call(<<VeneerAccess(oc), a1, a2>>, a3)
  ELSE Call(<<VeneerAccess(oc), a1, a2, a3>>, Nowhere)

--------------------------------------------------------------------------------
(* check_nonzero_at_runtime_z *)

IN_RTE == 2
HAS_RTE == 3
DBYZERO_RTE == 20
PROP_ADD_RTE == 21
PROP_NUM_RTE == 22
SystemRTE == "parent" :> 4 @@ "eldest" :> 5 @@ "child" :> 6 @@ "younger" :> 7 @@
             "sibling" :> 8 @@ "children" :> 9 @@ "youngest" :> 10 @@ "elder" :> 11
AllowsClasses(rte) == rte \in {IN_RTE, HAS_RTE, PROP_ADD_RTE, PROP_NUM_RTE}

Checked(code, val) == [code |-> code, val |-> val]

\* Code that finds whether an operand is an object: if not, that is reported
\* and either error jumped to, the operand taken off the stack, or object 2
\* takes its place.  With the operand to use from then on.
CheckNonzeroZ(a, error, rte, at) ==
  LET passed == L(at, "object")
      failed == L(at, "no object")
      o      == IF IsSp(a) THEN Temp2 ELSE a
      lowest == Const(IF AllowsClasses(rte) THEN 1 ELSE 5)
      tests  == Branch("jg", <<lowest, o>>, failed, TRUE) \o
                (IF AllowsClasses(rte) THEN Branch("jg", <<o, Const(NoObjects)>>, passed, FALSE)
                 ELSE Branch("jg", <<o, Const(NoObjects)>>, failed, TRUE) \o
                      Branch("jin", <<o, One>>, passed, FALSE))
      report == (IF IsSp(a) THEN Keep(Temp2) ELSE <<>>) \o tests \o Mark(failed)
                \o Call(<<Veneer("RT__Err"), Const(rte), a>>, Nowhere)
  IN  IF KnownOperand(a) /\ a.value \in 1 .. KnownObjects - 1 THEN Checked(<<>>, a)
      ELSE IF error # NoLabel THEN Checked(report \o Jump(error) \o Mark(passed), a)
      ELSE IF IsSp(a) THEN Checked(report \o Store(Sp, Const(2)) \o Mark(passed), a)
      ELSE Checked(report \o Store(Temp2, Const(2)) \o Jump(L(at, "last"))
                   \o Mark(passed) \o Store(Temp2, a) \o Mark(L(at, "last")), Temp2)

CheckedZ(a, rte, at, strict) ==
  IF strict THEN CheckNonzeroZ(a, NoLabel, rte, at) ELSE Checked(<<>>, a)

--------------------------------------------------------------------------------
(* compile_conditional_z: branch if the test comes out as flag *)

\* An attribute that is not known is compared with what attributes there are.
AttributeCheckZ(a1, a2, at) ==
  Store(Temp1, a1) \o (IF IsSp(a1) THEN Store(Sp, Temp1) ELSE <<>>) \o
  Store(Temp2, a2) \o (IF IsSp(a2) THEN Store(Sp, Temp2) ELSE <<>>) \o
  Branch("jl", <<Temp2, Zero>>, L(at, "no attribute"), TRUE) \o
  Branch("jl", <<Temp2, Const(NumAttributes)>>, L(at, "attribute"), TRUE) \o
  Mark(L(at, "no attribute")) \o
  Call(<<Veneer("RT__Err"), Const(19), Temp1, Temp2>>, Nowhere) \o
  Jump(L(at, "not tested")) \o Mark(L(at, "attribute"))

CompileConditionalZ(oc, a1, a2, label, flag, at, strict) ==
  LET checks  == strict /\ oc \in {"jin", "test_attr"}
      error   == IF flag THEN L(at, "error") ELSE label
      object  == IF checks THEN CheckNonzeroZ(a1, error, IF oc = "jin" THEN IN_RTE ELSE HAS_RTE, at)
                 ELSE Checked(<<>>, a1)
      unknown == checks /\ oc = "test_attr" /\ ~KnownOperand(a2)
  IN  IF oc \in {"OC__Cl", "OP__Pr"}
      THEN Call(<<Veneer(oc), a1, a2>>, Sp) \o Branch("jz", <<Sp>>, label, ~flag)
      ELSE object.code
           \o (IF unknown THEN AttributeCheckZ(object.val, a2, at) ELSE <<>>)
           \o Branch(oc, <<object.val, a2>>, label, flag)
           \o (IF checks /\ flag THEN Mark(error) ELSE <<>>)
           \o (IF unknown THEN Mark(L(at, "not tested")) ELSE <<>>)

--------------------------------------------------------------------------------
(* Conditions, with or without alternatives *)

\* The tests of a left operand against alternatives, branching away if flag
\* is how one of them comes out, or else if all of them come out that way:
\* then any but the last goes to other when it comes out differently.  A je
\* takes up to three alternatives.
RECURSIVE AlternativesZ(_, _, _, _, _, _, _, _)
AlternativesZ(oc, left, rights, away, other, flag, at, strict) ==
  LET n    == Len(rights)
      here == Append(at, -n)
      many == IF oc = "je" /\ n > 1 THEN (IF n > 3 THEN 3 ELSE n) ELSE 1
      last == many = n \/ flag
      to   == IF last THEN away ELSE other
      sense == IF last THEN flag ELSE ~flag
  IN  IF n = 0 THEN <<>>
      ELSE (IF many > 1 THEN Branch("je", <<left>> \o SubSeq(rights, 1, many), to, sense)
            ELSE CompileConditionalZ(oc, left, rights[1], to, sense, here, strict))
           \o AlternativesZ(oc, left, SubSeq(rights, many + 1, n), away, other, flag, at, strict)

\* Bug: with the left operand only once on the stack.
LeftOnStackBug(oc, left, arity) == FALSE

\* A left operand on the stack that more than one instruction tests.
LeftOnStack(oc, left, arity) == IsSp(left) /\ (oc # "je" \/ arity > 4)

\* Branch to yes if the condition holds and to no if not; one of them may be
\* NoLabel, to go on from here.
ConditionZ(o, vals, yes, no, at, strict) ==
  LET oc    == IF Test(o)[1] = "je" /\ Len(vals) = 2 /\ vals[2] = Zero THEN "jz" ELSE Test(o)[1]
      arity == Len(vals)
      away  == IF yes = NoLabel THEN no ELSE yes
      flag  == IF yes = NoLabel THEN ~Test(o)[2] ELSE Test(o)[2]
      both  == yes # NoLabel /\ no # NoLabel
      lands == ~both /\ ((oc # "je" /\ arity > 2) \/ arity > 4) /\ ~flag
      other == IF both THEN no ELSE IF lands THEN L(at, "other") ELSE NoLabel
      left  == IF LeftOnStack(oc, vals[1], arity) THEN Temp1 ELSE vals[1]
  IN  IF oc = "jz" THEN Branch("jz", <<vals[1]>>, away, flag) \o
                        (IF both THEN Jump(no) ELSE <<>>)
      ELSE (IF arity = 2 THEN CompileConditionalZ(oc, vals[1], vals[2], away, flag, at, strict)
            ELSE WriteResult(left, vals[1]) \o
                 AlternativesZ(oc, left, Tail(vals), away, other, flag, at, strict))
           \o (IF lands THEN Mark(other) ELSE <<>>)
           \o (IF both THEN Jump(no) ELSE <<>>)

--------------------------------------------------------------------------------
(* Operators that make a value *)

Divisions == {"DIVIDE", "REMAINDER"}
DirectOps == Divisions \cup {"PLUS", "MINUS", "TIMES", "ARTAND", "ARTOR"}

\* The operand that adding 0, subtracting 0, or multiplying or dividing by 1
\* leaves as it is.
Unchanged(o, a, b) ==
  {v \in {a} : (o \in {"PLUS", "MINUS"} /\ b = Zero) \/ (o \in {"TIMES", "DIVIDE"} /\ b = One)}
    \cup {v \in {b} : (o = "PLUS" /\ a = Zero) \/ (o = "TIMES" /\ a = One)}

\* try_optimize_expr_z
InfixZ(o, a, b, result) ==
  IF o = "PLUS" /\ <<result, One>> \in {<<a, b>>, <<b, a>>} THEN Do("inc", <<>>, result)
  ELSE IF o = "MINUS" /\ a = result /\ b = One THEN Do("dec", <<>>, result)
  ELSE IF Unchanged(o, a, b) # {}
    THEN WriteResult(result, CHOOSE v \in Unchanged(o, a, b) : TRUE)
  ELSE Do(o, <<a, b>>, result)

\* A division by what is not a known number other than 0: by 1 after the
\* error is reported.
DivideZ(o, a, b, result, at) ==
  Store(Temp1, a) \o Store(Temp2, b)
  \o Branch("jz", <<Temp2>>, L(at, "divides"), FALSE)
  \o Call(<<Veneer("RT__Err"), Const(DBYZERO_RTE)>>, Nowhere)
  \o Do("inc", <<>>, Temp2)
  \o Mark(L(at, "divides")) \o Do(o, <<Temp1, Temp2>>, result)

\* ++ and --: change x, store it back, and give the value before or after.
Modify(o, x, store, give) ==
  LET change == Do(IF o \in {"INC", "POST_INC"} THEN "inc" ELSE "dec", <<>>, x)
  IN  IF o \in {"INC", "DEC"} THEN change \o store \o give ELSE give \o change \o store

ModifyVeneer == "INC" :> Veneer("IB__Pr") @@ "DEC" :> Veneer("DB__Pr") @@
                "POST_INC" :> Veneer("IA__Pr") @@ "POST_DEC" :> Veneer("DA__Pr")

CallZ(args, void, result) == Call(args, IF void THEN Nowhere ELSE result)

IncDecZ(t, vals, at, void, result, strict) ==
  LET give(x) == IF void THEN <<>> ELSE WriteResult(result, x)
      took == Store(Temp1, vals[1]) \o Store(Temp2, vals[2])
  IN  CASE t.of = "var" -> Modify(t.op, vals[1], <<>>, give(vals[1]))
        [] t.of = "MESSAGE" -> CallZ(<<ModifyVeneer[t.op]>> \o vals, void, result)
        [] t.of = "PROPERTY" ->
             took \o Do("get_prop", <<Temp1, Temp2>>, Temp3)
             \o Modify(t.op, Temp3,
                       IF strict THEN Call(<<Veneer("RT__ChPS"), Temp1, Temp2, Temp3>>, Nowhere)
                       ELSE Do("put_prop", <<Temp1, Temp2, Temp3>>, Nowhere), give(Temp3))
        [] OTHER ->
             took \o AccessMemoryZ(IF t.of = "ARROW" THEN "loadb" ELSE "loadw",
                                   Temp1, Temp2, Temp3, Append(at, -1), strict)
             \o Modify(t.op, Temp3,
                       AccessMemoryZ(IF t.of = "ARROW" THEN "storeb" ELSE "storew",
                                     Temp1, Temp2, Temp3, Append(at, -2), strict), give(Temp3))

SetEqualsZ(t, vals, at, void, result, strict) ==
  LET oc == IF t.of = "ARROW" THEN "storeb" ELSE "storew"
  IN  CASE t.of = "var" -> Store(vals[1], vals[2]) \o
                           (IF void THEN <<>> ELSE WriteResult(result, vals[1]))
        [] t.of = "MESSAGE" -> CallZ(<<Veneer("WV__Pr")>> \o vals, void, result)
        [] t.of = "PROPERTY" ->
             IF strict THEN CallZ(<<Veneer("RT__ChPS")>> \o vals, void, result)
             ELSE IF void THEN Do("put_prop", vals, Nowhere)
             ELSE Store(Temp1, vals[3]) \o Do("put_prop", <<vals[1], vals[2], Temp1>>, Nowhere)
                  \o WriteResult(result, Temp1)
        [] OTHER ->
             IF void THEN AccessMemoryZ(oc, vals[1], vals[2], vals[3], at, strict)
             ELSE Store(Temp1, vals[3])
                  \o AccessMemoryZ(oc, vals[1], vals[2], Temp1, at, strict)
                  \o WriteResult(result, Temp1)

--------------------------------------------------------------------------------
(* System functions *)

GetLink == "parent" :> "get_parent" @@ "child" :> "get_child" @@ "eldest" :> "get_child" @@
           "sibling" :> "get_sibling" @@ "younger" :> "get_sibling"

LinkBranch(i, a, to, label, on) == <<Instruction(i, <<a>>, to, label, on)>>

SystemFunctionZ(f, vals, at, void, result, strict) ==
  LET o == CheckedZ(vals[1], SystemRTE[f], at, strict)
      again == L(at, "again")
      done  == L(at, "done with")
      give(x) == IF void THEN <<>> ELSE WriteResult(result, x)
  IN  CASE f = "random" ->
             IF Len(vals) = 1 THEN Do("random_z", vals, result)
             ELSE Do("random_z", <<Const(Len(vals))>>, Temp1) \o Do("dec", <<>>, Temp1)
                  \o Do("entry", <<Temp1>> \o vals, result)
        [] f = "metaclass" -> Call(<<Veneer("Metaclass"), vals[1]>>, result)
        [] f = "indirect" -> CallZ(vals, void, result)
        [] f \in DOMAIN GetLink -> o.code \o Do(GetLink[f], <<o.val>>, result)
        [] f = "children" ->
             o.code \o Store(Temp1, Zero)
             \o LinkBranch("get_child", o.val, Sp, done, FALSE)
             \o Mark(again) \o Do("inc", <<>>, Temp1)
             \o LinkBranch("get_sibling", Sp, Sp, again, TRUE)
             \o Mark(done) \o Store(Temp2, Sp) \o give(Temp1)
        [] f = "youngest" ->
             o.code \o LinkBranch("get_child", o.val, Temp1, done, FALSE)
             \o Store(Sp, Temp1) \o Mark(again) \o Store(Temp1, Sp)
             \o LinkBranch("get_sibling", Temp1, Sp, again, TRUE)
             \o Mark(done) \o give(Temp1)
        [] f = "elder" ->
             Store(Temp1, vals[1]) \o CheckedZ(Temp1, SystemRTE[f], at, strict).code
             \o Do("get_parent", <<Temp1>>, Temp3) \o Branch("jz", <<Temp3>>, done, TRUE)
             \o Store(Temp2, Temp3) \o Store(Temp3, Zero)
             \o LinkBranch("get_child", Temp2, Temp2, again, TRUE)
             \o Mark(again) \o Branch("je", <<Temp1, Temp2>>, done, TRUE)
             \o Store(Temp3, Temp2) \o LinkBranch("get_sibling", Temp2, Temp2, again, TRUE)
             \o Mark(done) \o give(Temp3)

\* The code that applies an operator, other than a condition, to its operands.
ValueZ(t, vals, at, void, result, strict) ==
  LET call(r)  == CallZ(<<Veneer(r)>> \o vals, void, result)
      o == CheckedZ(vals[1], IF t.op = "PROP_ADD" THEN PROP_ADD_RTE ELSE PROP_NUM_RTE, at, strict)
      into(i, args) == IF void THEN Do(i, args, Temp1) ELSE Do(i, args, result)
      give(x) == IF void THEN <<>> ELSE WriteResult(result, x)
  IN  CASE t.op \in Divisions /\ strict ->
             IF KnownOperand(vals[2]) /\ vals[2] # Zero THEN Do(t.op, vals, result)
             ELSE DivideZ(t.op, vals[1], vals[2], result, at)
        [] t.op \in DirectOps /\ ~(strict /\ t.op \in Divisions) -> InfixZ(t.op, vals[1], vals[2], result)
        [] t.op = "UNARY_MINUS" -> Do("MINUS", <<Zero, vals[1]>>, result)
        [] t.op = "ARTNOT" -> Do("ARTNOT", vals, result)
        [] t.op \in {"ARROW", "DARROW"} ->
             AccessMemoryZ(IF t.op = "ARROW" THEN "loadb" ELSE "loadw", vals[1], vals[2], result,
                           at, strict)
        [] t.op = "PROP_ADD" -> o.code \o into("get_prop_addr", <<o.val, vals[2]>>)
        [] t.op = "PROP_NUM" ->
             o.code \o Do("get_prop_addr", <<o.val, vals[2]>>, Temp1)
             \o Branch("jz", <<Temp1>>, L(at, "none such"), TRUE)
             \o Do("get_prop_len", <<Temp1>>, Temp1)
             \o Mark(L(at, "none such")) \o give(Temp1)
        [] t.op = "PROPERTY" ->
             IF strict THEN Call(<<Veneer("RT__ChPR")>> \o vals, Temp1) \o give(Temp1)
             ELSE into("get_prop", vals)
        [] t.op = "MESSAGE"    -> call("RV__Pr")
        [] t.op = "MPROP_ADD"  -> call("RA__Pr")
        [] t.op = "MPROP_NUM"  -> call("RL__Pr")
        [] t.op = "SUPERCLASS" -> call("RA__Sc")
        [] t.op = "FCALL" ->
             IF t.of # "var" THEN call("CA__Pr")
             ELSE IF vals[1].type = "sysfun"
               THEN SystemFunctionZ(vals[1].value, Tail(vals), at, void, result, strict)
             ELSE CallZ(vals, void, result)
        [] t.op = "SETEQUALS" -> SetEqualsZ(t, vals, at, void, result, strict)
        [] t.op \in {"INC", "DEC", "POST_INC", "POST_DEC"} ->
             IncDecZ(t, vals, at, void, result, strict)
==============================================================================
