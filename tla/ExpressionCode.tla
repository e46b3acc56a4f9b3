----------------------------- MODULE ExpressionCode -----------------------------
(* generate_code_from and code_generate (expressc.c): a finished tree becomes *)
(* code, node by node from right to left, each node's value left in an        *)
(* operand: a constant, a variable, or the stack.  Conditions are annotated   *)
(* with the labels to branch to; an operator right below an assignment to a   *)
(* variable puts its result there and the assignment is done.                 *)
(*                                                                            *)
(* Means says what an expression does, of the tree as it was written.  Code   *)
(* that is known to do something else (Leaks, TakesWrong, ReadLate) and trees *)
(* that do not compile (CompileErrors) are told apart.                        *)
EXTENDS ExpressionParser, ExpressionG

CONSTANT Machines     \* what the code may be run on

--------------------------------------------------------------------------------
(* Labels *)

Logical == {"LOGAND", "LOGOR"}
MakesValue(t) == ~IsLeaf(t) /\ t.op \notin Logical \cup Conditions \cup {"COMMA"}
AssignsVariable(t) == t.op = "SETEQUALS" /\ t.of = "var"

\* An assignment whose value's node has stored it already.
RECURSIVE Absorbed(_)
Absorbed(t) == /\ AssignsVariable(t)
               /\ MakesValue(t.kids[2]) /\ ~Absorbed(t.kids[2])

\* A condition that no label was given for is to make a value.
ToExpression(t, yes, no) ==
  t.op \in Logical \cup Conditions /\ yes = NoLabel /\ no = NoLabel

\* Bug: the second operand of && too goes on after it if it is true.
SecondLabelsBug(o, yes, no, after) == IF o = "LOGAND" THEN <<NoLabel, no>> ELSE <<yes, NoLabel>>

\* The labels of the second operand of && or ||, which needs none for what
\* is just after it.
SecondLabels(o, yes, no, after) ==
  IF o = "LOGAND" THEN <<yes, IF after THEN NoLabel ELSE no>>
  ELSE <<IF after THEN NoLabel ELSE yes, no>>

\* The value a condition ends in: pushed here if it comes to its end, or at
\* the label it branches to.
MakeValue(t, at) ==
  LET and == t.op = "LOGAND"
  IN  Store(Sp, IF and THEN One ELSE Zero) \o Jump(L(at, "done"))
      \o Mark(L(at, IF and THEN "false" ELSE "true"))
      \o Store(Sp, IF and THEN Zero ELSE One) \o Mark(L(at, "done"))

--------------------------------------------------------------------------------
(* generate_code_from *)

Generates(code, val) == [code |-> code, val |-> val]

\* The code of a node, and the operand its value is left in.  dest is where
\* an operator's result goes; yes and no are the labels of annotate_for_conditions.
RECURSIVE GenerateCode(_, _, _, _, _, _, _)
GenerateCode(t, at, yes, no, void, dest, strict) ==
  LET kid(i, y, n, v, d) == GenerateCode(t.kids[i], Append(at, i), y, n, v, d, strict)
      value == ToExpression(t, yes, no)
      y     == IF value /\ t.op # "LOGAND" THEN L(at, "true") ELSE yes
      n     == IF value /\ t.op = "LOGAND" THEN L(at, "false") ELSE no
      after == t.op \in Logical /\ (IF t.op = "LOGAND" THEN n ELSE y) = NoLabel
      tests ==
        LET and == t.op = "LOGAND"
            to  == IF after THEN L(at, "after") ELSE IF and THEN n ELSE y
            s   == SecondLabels(t.op, IF and THEN y ELSE to, IF and THEN to ELSE n, after)
        IN  IF and THEN kid(1, NoLabel, to, FALSE, Sp).code \o kid(2, s[1], s[2], FALSE, Sp).code
            ELSE kid(1, to, NoLabel, FALSE, Sp).code \o kid(2, s[1], s[2], FALSE, Sp).code
      ending == IF ~value THEN IF after THEN Mark(L(at, "after")) ELSE <<>>
                ELSE IF void THEN Mark(L(at, IF t.op = "LOGAND" THEN "false" ELSE "true"))
                ELSE MakeValue(t, at)
      finished(code) == Generates(code \o ending, IF value THEN Sp ELSE Nowhere)
      kids  == [i \in DOMAIN t.kids |->
                  kid(i, NoLabel, NoLabel, FALSE, IF Absorbed(t) /\ i = 2 THEN t.kids[1].val ELSE Sp)]
      vals  == [i \in DOMAIN kids |-> kids[i].val]
      operands == FlattenSeq(Reverse([i \in DOMAIN kids |-> kids[i].code]))
      to    == IF void THEN Temp1 ELSE dest
  IN  CASE IsLeaf(t) -> Generates(<<>>, t.val)
        [] t.op = "COMMA" ->
             LET last == kid(2, NoLabel, NoLabel, void, Sp)
             IN  Generates(kid(1, NoLabel, NoLabel, TRUE, Sp).code \o last.code, last.val)
        [] t.op \in Logical -> finished(tests)
        [] Absorbed(t) -> Generates(operands, vals[1])
        [] t.op \in Conditions ->
             finished(operands \o IF source.glulx THEN ConditionG(t.op, vals, y, n, at, strict)
                                  ELSE ConditionZ(t.op, vals, y, n, at, strict))
        [] OTHER ->
             Generates(operands \o IF source.glulx THEN ValueG(t, vals, at, void, to, strict)
                                   ELSE ValueZ(t, vals, at, void, to, strict), to)

\* code_generate.  A condition branches to this label: if it is false, or for
\* the labels of rtrue and rfalse if it is true.
CodeGenerate(t, label, strict) ==
  LET away == label = Away
  IN  IF source.context # "CONDITION"
      THEN GenerateCode(t, <<>>, NoLabel, NoLabel, source.context = "VOID", Sp, strict)
      ELSE IF IsLeaf(t) THEN Generates(Branch("jz", <<t.val>>, label, away), Nowhere)
      ELSE GenerateCode(t, <<>>, IF away THEN NoLabel ELSE label,
                        IF away THEN label ELSE NoLabel, FALSE, Sp, strict)

--------------------------------------------------------------------------------
(* What does not compile, or compiles to something else than it says *)

\* The nodes of a tree, each with whether its value is not wanted.
RECURSIVE Nodes(_, _)
Nodes(t, void) ==
  {[t |-> t, void |-> void]} \cup
  UNION {Nodes(t.kids[i], t.op = "COMMA" /\ (i = 1 \/ void)) : i \in DOMAIN t.kids}

IsSystemCall(t) == t.op = "FCALL" /\ t.of = "var" /\ t.kids[1].val.type = "sysfun"

\* Where a subtree's value is left.
RECURSIVE LeftIn(_)
LeftIn(t) == CASE IsLeaf(t) -> t.val
               [] t.op = "COMMA" -> LeftIn(t.kids[2])
               [] Absorbed(t) -> t.kids[1].val
               [] OTHER -> Sp
OnStack(t) == IsSp(LeftIn(t))

CompileErrors(t, void, strict) ==
  \E n \in Nodes(t, void) :
    LET kids == n.t.kids
        args == IF n.t.of = "var" THEN Tail(kids) ELSE kids
        oc   == IF n.t.op = "ARROW" \/ n.t.of = "ARROW" THEN "b" ELSE "a"
    IN  \/ n.void /\ IsLeaf(n.t)
        \/ n.void /\ MakesValue(n.t) /\ ~SideEffect(n.t.op)
        \/ /\ strict /\ n.t.op \in {"HAS", "HASNT"}
           /\ \E i \in DOMAIN Tail(kids) :
                IsKnown(Tail(kids)[i]) /\ Signed(Tail(kids)[i].val.value) \notin 0 .. NumAttributes - 1
        \/ /\ IsSystemCall(n.t)
           /\ LET f == kids[1].val.value
              IN  \/ args = <<>>
                  \/ Len(args) > 1 /\ f \notin {"random", "indirect", "glk"}
                  \/ Len(args) > 1 /\ f = "random" /\ \E i \in DOMAIN args : ~IsConstant(args[i])
                  \/ f = "glk" /\ ~source.glulx
        \/ /\ source.glulx /\ n.t.op = "FCALL"
           /\ MixedArguments([i \in DOMAIN args |-> LeftIn(args[i])])
        \/ /\ source.glulx /\ {n.t.op, n.t.of} \cap {"ARROW", "DARROW"} # {}
           /\ \/ n.t.op # "SETEQUALS" /\ EntryError(IF oc = "b" THEN "loadb" ELSE "aload",
                                           LeftIn(kids[1]), LeftIn(kids[2]), strict)
              \/ n.t.op = "SETEQUALS" /\ EntryError(IF oc = "b" THEN "storeb" ELSE "astore",
                                           LeftIn(kids[1]), LeftIn(kids[2]), strict)

\* Values that are not used stay on the stack: the alternatives after the
\* one that settles a condition; the second operand, or an object, when a
\* check fails; the 0 after the last sibling.
FirstTested(t) == IF ~source.glulx /\ Test(t.op)[1] = "je" THEN 3 ELSE 1
Leaks(t, strict) ==
  \E n \in Subtrees(t) :
    \/ /\ n.op \in Conditions
       /\ \E i \in 2 + FirstTested(n) .. Len(n.kids) : OnStack(n.kids[i])
    \/ /\ strict /\ Test(n.op)[1] \in {"jin", "test_attr"} /\ n.op \in Conditions
       /\ \/ \E i \in 2 .. Len(n.kids) : OnStack(n.kids[i])
          \/ n.op \in {"HAS", "HASNT"} /\ OnStack(n.kids[1]) /\ ~IsKnown(n.kids[2])
    \/ ~source.glulx /\ IsSystemCall(n) /\ n.kids[1].val.value = "youngest"

\* The value to be assigned is pulled first, when what is on top is the
\* address; or a variable's old value is stored before it is changed.
TakesWrong(t, void, strict) ==
  \E n \in Nodes(t, void) :
    \/ /\ n.t.op = "SETEQUALS" /\ ~n.void
       /\ n.t.of \in {"ARROW", "DARROW"}
          \/ (n.t.of = "PROPERTY" /\ ~source.glulx /\ ~strict)
       /\ OnStack(n.t.kids[3])
       /\ OnStack(n.t.kids[1]) \/ OnStack(n.t.kids[2])
    \/ /\ Absorbed(n.t) /\ n.t.kids[2].of = "var"
       /\ n.t.kids[2].op \in {"POST_INC", "POST_DEC"}
       /\ n.t.kids[2].kids[1] = n.t.kids[1]

\* The variables that evaluating a subtree may change.
Changes(t) ==
  UNION {IF n.of # "var" \/ n.op = "FCALL" THEN {16}
         ELSE IF RequiresLvalue(n.op) THEN {n.kids[1].val.value} ELSE {} :
         n \in {s \in Subtrees(t) : ~IsLeaf(s)}}

\* The value of an assignment, which is the variable itself, is read when it
\* has been changed again; or a variable pushed for a call before it is.
ReadLate(t) ==
  \E n \in Subtrees(t) : \E i \in DOMAIN n.kids :
    LET kid == n.kids[i]
        val == IF kid.op = "PUSH" THEN kid.kids[1].val ELSE LeftIn(kid)
    IN  /\ ~IsLeaf(kid) /\ val.type \in {"local", "global"}
        /\ \E j \in 1 .. i - 1 : val.value \in Changes(n.kids[j])

--------------------------------------------------------------------------------
(* What an expression means *)

\* An object that is one, or object 2 after the error is reported.
ObjectFor(m, o, rte) ==
  IF IsClassed(o) \/ (AllowsClasses(rte) /\ IsObject(o)) THEN Gives(m, o)
  ELSE Gives(Did(m, "RT__Err", <<rte, o>>), 2)
StrictObject(m, o, rte, strict) == IF strict THEN ObjectFor(m, o, rte) ELSE Gives(m, o)

\* Whether an access to a declared array stays inside it, and off its length.
Inside(array, oc, i) ==
  LET unit  == IF source.glulx THEN 4 ELSE 2
      wide  == array.type \in {"word", "table"}
      bytes == (array.size + 1) * (IF wide THEN unit ELSE 1)
      low   == IF oc \in Loads \/ array.type \notin {"table", "string"} THEN 0
               ELSE IF array.type = "table" THEN unit ELSE 1
  IN  Signed(i) * Size(oc) >= low /\ (Signed(i) + 1) * Size(oc) <= bytes

\* Reading or writing an entry; what to is a constant array is known of base.
EntryOf(m, oc, base, args, strict) ==
  IF strict /\ IsConstant(base) /\ IsArray(base.val) THEN
    IF Inside(Arrays[base.val.value], oc, args[2]) THEN Access(m, oc, args)
    ELSE Gives(Did(m, "RT__Err", <<AboundsRTE(oc), args[2], Arrays[base.val.value].size>>), 0)
  ELSE World(m, IF strict THEN VeneerAccess(oc).value ELSE oc, args)

EntryCode(o, writes) ==
  IF o = "ARROW" THEN IF writes THEN "storeb" ELSE "loadb"
  ELSE IF source.glulx THEN IF writes THEN "astore" ELSE "aload"
  ELSE IF writes THEN "storew" ELSE "loadw"

\* Z-code's own instructions serve for common properties.
Common(p) == ~source.glulx /\ IsCommonProperty(p)

Getter(p, strict) ==
  IF ~Common(p) THEN "RV__Pr" ELSE IF strict THEN "RT__ChPR" ELSE "get_prop"
Setter(p, strict) ==
  IF Common(p) \/ source.glulx
  THEN IF strict THEN "RT__ChPS" ELSE IF Common(p) THEN "put_prop" ELSE "WV__Pr"
  ELSE "WV__Pr"

\* Assigning v to one of the four forms, and the value that gives.
Assign(m, place, args, v, strict) ==
  IF place.op = "PROPERTY"
  THEN LET s == World(m, Setter(place.kids[2], strict), args \o <<v>>)
       IN  IF Setter(place.kids[2], strict) = "put_prop" THEN Gives(s.m, v) ELSE s
  ELSE Gives(EntryOf(m, EntryCode(place.op, TRUE), place.kids[1], args \o <<v>>, strict).m, v)

\* ++ and -- of one of the four forms: what is there is read, and written back
\* changed.
Step(o, v) == (IF o \in {"INC", "POST_INC"} THEN v + 1 ELSE Word + v - 1) % Word
Stepped(o, old) == IF o \in {"INC", "DEC"} THEN Step(o, old) ELSE old
StepIn(m, o, place, args, strict) ==
  IF place.op = "PROPERTY" /\ ~Common(place.kids[2])
  THEN World(m, ModifyVeneer[o].value, args)
  ELSE LET old == IF place.op = "PROPERTY" THEN World(m, "get_prop", args)
                  ELSE EntryOf(m, EntryCode(place.op, FALSE), place.kids[1], args, strict)
       IN  Gives(Assign(old.m, place, args, Step(o, old.v), strict).m, Stepped(o, old.v))

\* The sibling before an object, the last child, the number of children.
Youngest(o) ==
  LET kids == {k \in 1..NoObjects : Parent[k] = o}
  IN  IF ~IsObject(o) \/ kids = {} THEN 0 ELSE CHOOSE k \in kids : Sibling[k] = 0
Elder(o) ==
  LET before == {k \in 1..NoObjects : IsObject(o) /\ Parent[k] = Parent[o] /\ Sibling[k] = o}
  IN  IF before = {} \/ Linked(Parent, o) = 0 THEN 0 ELSE CHOOSE k \in before : TRUE
Children(o) == IF IsObject(o) THEN Cardinality({k \in 1..NoObjects : Parent[k] = o}) ELSE 0

\* random gives 1 to n, or a seed if n is not positive; or one of constants.
RandomOf(m, vals) ==
  LET n == IF Len(vals) > 1 THEN Len(vals) ELSE Signed(vals[1])
      r == (m.seed % n) + 1
      drawn == Did([m EXCEPT !.seed = (@ + 1) % Word], "random", <<n>>)
  IN  IF n <= 0 THEN Gives(Did([m EXCEPT !.seed = -n], "seed", <<-n>>), 0)
      ELSE Gives(drawn, IF Len(vals) > 1 THEN vals[r] ELSE r)

\* elder reports as youngest in Glulx, and in Z-code goes on with what it got.
SystemFunction(m, f, vals, strict) ==
  LET o == StrictObject(m, vals[1], SystemRTE[IF f = "elder" /\ source.glulx THEN "youngest" ELSE f],
                        strict)
  IN  CASE f = "random"    -> RandomOf(m, vals)
        [] f = "metaclass" -> World(m, "Metaclass", vals)
        [] f = "indirect"  -> World(m, "function", vals)
        [] f = "glk"       -> World(m, "Glk__Wrap", vals)
        [] f \in DOMAIN GetLink -> World(o.m, GetLink[f], <<o.v>>)
        [] f = "children"  -> Gives(o.m, Children(o.v))
        [] f = "youngest"  -> Gives(o.m, Youngest(o.v))
        [] f = "elder"     -> Gives(o.m, Elder(IF source.glulx THEN o.v ELSE vals[1]))

\* A division by zero is by 1 after it is reported.
Divide(m, o, a, b, strict) ==
  IF strict /\ b = 0 THEN World(Did(m, "RT__Err", <<DBYZERO_RTE>>), o, <<a, 1>>)
  ELSE World(m, o, <<a, b>>)

PropertyAt(m, o, args, p, strict) ==
  IF ~Common(p) THEN World(m, IF o = "PROP_ADD" THEN "RA__Pr" ELSE "RL__Pr", args)
  ELSE LET ob == StrictObject(m, args[1], IF o = "PROP_ADD" THEN PROP_ADD_RTE ELSE PROP_NUM_RTE,
                              strict)
           a  == World(ob.m, "get_prop_addr", <<ob.v, args[2]>>)
       IN  IF o = "PROP_ADD" \/ a.v = 0 THEN a ELSE World(a.m, "get_prop_len", <<a.v>>)

\* One alternative of a condition: a failing check is reported, and counts
\* as false.
Holds(m, test, a, b, strict) ==
  LET checks == strict /\ test \in {"jin", "test_attr"}
      rte == IF test = "jin" THEN IN_RTE ELSE HAS_RTE
  IN  IF checks /\ ~IsObject(a) THEN Gives(Did(m, "RT__Err", <<rte, a>>), 0)
      ELSE IF test \in {"OC__Cl", "OP__Pr"} THEN World(m, test, <<a, b>>)
      ELSE IF checks /\ test = "test_attr" /\ Signed(b) \notin 0 .. NumAttributes - 1
        THEN Gives(Did(m, "RT__Err", <<19, a, b>>), 0)
      ELSE IF test = "jin" /\ source.glulx THEN Gives(m, Truth(Linked(Parent, a) = b))
      ELSE Gives(m, Truth(Tests(test, <<a, b>>)))

RECURSIVE Some(_, _, _, _, _)
Some(m, test, a, rights, strict) ==
  LET h == Holds(m, test, a, rights[1], strict)
  IN  IF rights = <<>> THEN Gives(m, 0)
      ELSE IF h.v # 0 THEN Gives(h.m, 1) ELSE Some(h.m, test, a, Tail(rights), strict)

ReadLeaf(m, t) == IF t.val.type = "sysfun" THEN 0 ELSE ValueOf(m, t.val)

RECURSIVE Means(_, _, _), Operands(_, _, _), Apply(_, _, _, _)

\* Operands are evaluated from right to left, and those that are variables
\* read when all are.
Operands(ts, m, strict) ==
  LET step(r, t) == IF IsLeaf(t) THEN [r EXCEPT !.vals = <<0>> \o @]
                    ELSE LET s == Means(t, r.m, strict)
                         IN  [m |-> s.m, vals |-> <<s.v>> \o r.vals]
      r == FoldLeft(step, [m |-> m, vals |-> <<>>], Reverse(ts))
  IN  [r EXCEPT !.vals = [i \in DOMAIN @ |-> IF IsLeaf(ts[i]) THEN ReadLeaf(r.m, ts[i]) ELSE @[i]]]

\* What an operator does with the values of its operands.
Apply(t, m, vals, strict) ==
  LET first == t.kids[1]
      var == first.val.value
      new(v) == [m EXCEPT !.vars[var] = v]
  IN  CASE t.op \in Conditions ->
             LET s == Some(m, Test(t.op)[1], vals[1], Tail(vals), strict)
             IN  Gives(s.m, Truth((s.v # 0) = Test(t.op)[2]))
        [] t.op \in Divisions -> Divide(m, t.op, vals[1], vals[2], strict)
        [] t.op \in (DirectOps \ Divisions) \cup {"UNARY_MINUS", "ARTNOT"} -> World(m, t.op, vals)
        [] t.op \in {"ARROW", "DARROW"} -> EntryOf(m, EntryCode(t.op, FALSE), first, vals, strict)
        [] t.op = "PROPERTY" -> World(m, Getter(t.kids[2], strict), vals)
        [] t.op \in {"PROP_ADD", "PROP_NUM"} -> PropertyAt(m, t.op, vals, t.kids[2], strict)
        [] t.op = "SUPERCLASS" -> World(m, "RA__Sc", vals)
        [] t.op = "FCALL" ->
             IF first.op = "PROPERTY" THEN World(m, "CA__Pr", vals)
             ELSE IF IsLeaf(first) /\ first.val.type = "sysfun"
               THEN SystemFunction(m, first.val.value, Tail(vals), strict)
             ELSE World(m, "function", vals)
        [] t.op = "SETEQUALS" ->
             IF IsLeaf(first) THEN Gives(new(Last(vals)), Last(vals))
             ELSE Assign(m, first, Front(vals), Last(vals), strict)
        [] OTHER ->
             IF IsLeaf(first) THEN Gives(new(Step(t.op, vals[1])), Stepped(t.op, vals[1]))
             ELSE StepIn(m, t.op, first, vals, strict)

\* The operands of an operator that assigns, or calls a property, are those
\* of what it is applied to and its own.
OperandsOf(t) ==
  LET first == t.kids[1]
      through == ~IsLeaf(first) /\ (RequiresLvalue(t.op) \/ (t.op = "FCALL" /\ first.op = "PROPERTY"))
  IN  IF through THEN first.kids \o Tail(t.kids) ELSE t.kids

Means(t, m, strict) ==
  LET kid(i, mm) == Means(t.kids[i], mm, strict)
      a == kid(1, m)
  IN  CASE IsLeaf(t) -> Gives(m, ReadLeaf(m, t))
        [] t.op = "COMMA" -> kid(2, a.m)
        [] t.op = "LOGNOT" -> Gives(a.m, Truth(a.v = 0))
        [] t.op \in Logical ->
             IF (a.v # 0) = (t.op = "LOGOR") THEN Gives(a.m, Truth(a.v # 0))
             ELSE LET b == kid(2, a.m) IN Gives(b.m, Truth(b.v # 0))
        [] OTHER -> LET r == Operands(OperandsOf(t), m, strict)
                    IN  Apply(t, r.m, r.vals, strict)

--------------------------------------------------------------------------------
(* Correctness *)

Below == 13       \* on the stack before
Ready(m) == [m EXCEPT !.stack = <<Below>>]
Fuel == 60

Compiles(strict) ==
  /\ Parsed /\ source.context \in {"VOID", "QUANTITY", "CONDITION"}
  /\ ~CompileErrors(result.tree, source.context = "VOID", strict)

AsSaid(strict) ==
  LET void == source.context = "VOID"
  IN  /\ ~Leaks(result.tree, strict) /\ ~TakesWrong(result.tree, void, strict)
      /\ ~ReadLate(result.tree)

\* After these an instruction or a check does what it likes.
Fatal(e) == e[1] = "halt" \/ (e[1] = "RT__Err" /\ e[2][1] \in {19} \cup 28..31)
Undone(trace) == {k \in DOMAIN trace : Fatal(trace[k])}
Agreed(trace) ==
  IF Undone(trace) = {} THEN trace
  ELSE SubSeq(trace, 1, CHOOSE k \in Undone(trace) : \A j \in Undone(trace) : k <= j)

\* The variables but for the temporary ones, and the rest but for the stack.
World0(m) == <<[v \in {w \in DOMAIN m.vars : w > 0} |-> m.vars[v]], m.cells, m.props, m.seed>>

SameWorld(m, meant) ==
  /\ Agreed(m.trace) = Agreed(meant.trace)
  /\ Undone(meant.trace) = {} => World0(m) = World0(meant)

\* What the code for an expression does, in any state and with the label it
\* branches to, beside what the expression means.
Outcomes(label, strict) ==
  {[at |-> ran.at, m |-> ran.m, val |-> g.val, meant |-> meant.m, value |-> meant.v] :
     <<ran, g, meant>> \in
       UNION {{<<Run(g.code, 1, Ready(m), Fuel), g, Means(result.src, m, strict)>> :
                 g \in {CodeGenerate(result.tree, label, strict)}} : m \in Machines}}

\* What the code for an expression does, in any state, is what the expression
\* says, and its value is in the operand returned; the stack is then as it
\* was.
ValuesComeOut ==
  \A strict \in BOOLEAN :
    Compiles(strict) /\ AsSaid(strict) /\ source.context # "CONDITION" =>
      \A o \in Outcomes(NoLabel, strict) :
        LET val == Fetch(o.m, IF source.context = "VOID" THEN <<>> ELSE <<o.val>>)
        IN  /\ SameWorld(o.m, o.meant)
            /\ val.stack = <<Below>>
            /\ Undone(o.meant.trace) = {} /\ source.context = "QUANTITY" =>
                 val.vals[1] = o.value

\* The code for a condition branches away where it is to, and only there.
TestsBranchRight ==
  \A strict \in BOOLEAN :
    Compiles(strict) /\ AsSaid(strict) /\ source.context = "CONDITION" =>
      \A label \in {Away, ReturnTrue} : \A o \in Outcomes(label, strict) :
        /\ SameWorld(o.m, o.meant)
        /\ o.m.stack = <<Below>>
        /\ Undone(o.meant.trace) = {} => (o.at = label) = ((o.value = 0) = (label = Away))

\* What the comment at generate_code_from says: "When void, this must not
\* leave anything on the stack."
VoidLeavesNothing ==
  Compiles(FALSE) /\ source.context = "VOID" =>
    \A m \in Machines :
      Run(CodeGenerate(result.tree, NoLabel, FALSE).code, 1, Ready(m), Fuel).m.stack = <<Below>>
==============================================================================
