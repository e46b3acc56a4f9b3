--------------------------- MODULE ExpressionMachine ---------------------------
(* What the code generated for expressions runs on: the instructions of the  *)
(* two virtual machines that it uses, and the veneer routines and functions  *)
(* it calls.  The code in src/ only relies on this.                          *)
(*                                                                           *)
(* An instruction reads its operands in order, each stack pointer among them *)
(* pulling a value, and then stores or branches.  Cells of memory hold bytes *)
(* or words as they are written; entries do not overlap.  Any function that  *)
(* the program calls may use the three temporary variables, and changes the  *)
(* first global; the veneer's checks leave them alone, but for RT__ChPR and  *)
(* RT__ChPS, whose .# goes through the first.                                *)
EXTENDS ExpressionTree, TLC, FiniteSets

CONSTANTS Parent, Child, Sibling,  \* the objects 1..NoObjects, 2-4 in Class 1
          Arrays                   \* address -> [type, size] of declared ones

--------------------------------------------------------------------------------
(* Instructions *)

Const(v)  == Operand("const", v, "none")
Sp        == Operand("local", 0, "none")
Temp1     == Operand("global", -1, "none")
Temp2     == Operand("global", -2, "none")
Temp3     == Operand("global", -3, "none")
Nowhere   == Operand("omitted", 0, "none")
Veneer(r) == Operand("veneer", r, "veneer")
Zero      == Const(0)
One       == Const(1)

L(at, name) == [at |-> at, name |-> name]
NoLabel     == L(<<>>, "none")
ReturnTrue  == L(<<>>, "rtrue")     \* the labels -4 and -3
ReturnFalse == L(<<>>, "rfalse")
Away        == L(<<>>, "away")      \* any other that the caller names

Instruction(i, args, to, label, on) ==
  [i |-> i, args |-> args, to |-> to, label |-> label, on |-> on]
Do(i, args, to)            == <<Instruction(i, args, to, NoLabel, TRUE)>>
Branch(i, args, label, on) == <<Instruction(i, args, Nowhere, label, on)>>
Jump(label)                == <<Instruction("jump", <<>>, Nowhere, label, TRUE)>>
Mark(label)                == <<Instruction("label", <<>>, Nowhere, label, TRUE)>>
Store(to, from)            == Do("store", <<from>>, to)
Call(args, to)             == Do("call", args, to)

--------------------------------------------------------------------------------
(* A machine: its variables, stack, memory, random generator, and what it    *)
(* has called and reported so far.                                           *)

Machine(vars, cells, props, seed) ==
  [vars |-> vars, stack |-> <<>>, cells |-> cells, props |-> props, seed |-> seed,
   trace |-> <<>>]

NoObjects == Len(Parent)
IsObject(o)  == o \in 1..NoObjects
IsClassed(o) == IsObject(o) /\ o > 4 /\ Parent[o] # 1
Linked(links, o) == IF IsObject(o) THEN links[o] ELSE 0

Did(m, what, args) == [m EXCEPT !.trace = Append(@, <<what, args>>)]
Gives(m, v)        == [m |-> m, v |-> v % Word]

Size(oc) == CASE oc \in {"loadb", "storeb"} -> 1
              [] oc \in {"loadw", "storew"} -> 2
              [] OTHER -> 4
Reach(oc, a, i) == a + Signed(i) * Size(oc)
Loads    == {"loadb", "loadw", "aload"}
Writes   == {"storeb", "storew", "astore"}
CheckedAccess == "RT__ChLDB" :> "loadb" @@ "RT__ChLDW" :> "loadw" @@
                 "RT__ChSTB" :> "storeb" @@ "RT__ChSTW" :> "storew"

Access(m, oc, args) ==
  LET cell == Reach(oc, args[1], args[2]) % Word
  IN  IF oc \in Loads THEN Gives(m, m.cells[cell])
      ELSE Gives([m EXCEPT !.cells[cell] = IF oc = "storeb" THEN args[3] % (Word \div 2)
                                           ELSE args[3]], 0)

\* A property of an object, of a class, or of something that has none.
Has(m, o, p)  == <<o, p>> \in DOMAIN m.props
Read(m, o, p) == IF Has(m, o, p) THEN m.props[<<o, p>>] ELSE 0
Write(m, o, p, v) == IF Has(m, o, p) THEN [m EXCEPT !.props[<<o, p>>] = v] ELSE m
Sums(args) == FoldLeft(LAMBDA s, v : 3 * s + v, 0, args)

\* A routine that the program's own code may run in: it can use the
\* temporary variables.
Clobbered(m) == [m EXCEPT !.vars = (-1 :> Word - 1 @@ -2 :> Word - 2 @@ -3 :> Word - 3) @@ @]
Function(m, what, args) ==
  LET m1 == Did(Clobbered(m), what, args)
  IN  Gives([m1 EXCEPT !.vars[16] = (@ + 1) % Word, !.seed = (@ + 1) % Word],
            Sums(args) + m.seed)

\* The attribute a of an object, on what the world's numbers make of it.
HasAttribute(o, a) == IsObject(o) /\ (o + a) % 3 = 0

\* What an instruction or routine other than those of the stack and of flow
\* does, and gives.
World(m, i, args) ==
  LET o == args[1]
      p == args[2]
      n == Signed(o)
      complains == Did(m, i, SubSeq(args, 1, 2))
  IN  CASE i = "function" -> Function(m, i, args)
        [] i \in {"CA__Pr", "RA__Sc", "Glk__Wrap", "Metaclass"} -> Function(m, i, args)
        [] i = "RT__Err" -> Gives(Did(m, i, args), 0)
        [] i \in {"OC__Cl", "OP__Pr"} -> Gives(m, IF IsObject(o) THEN (o + p) % 2 ELSE 0)
        [] i \in Loads \cup Writes -> Access(m, i, args)
        [] i \in {"RT__ChLDB", "RT__ChLDW", "RT__ChSTB", "RT__ChSTW"} ->
             IF Reach(CheckedAccess[i], o, p) \in 0 .. Word - 3
             THEN Access(m, CheckedAccess[i], args) ELSE Gives(complains, 0)
        [] i = "get_prop" -> Gives(m, Read(m, o, p))
        [] i = "put_prop" -> Gives(Write(m, o, p, args[3]), 0)
        [] i = "get_prop_addr" -> Gives(m, IF Has(m, o, p) THEN o ELSE 0)
        [] i = "get_prop_len" -> Gives(m, 2)
        [] i = "RT__ChPR" -> Gives([(IF IsClassed(o) THEN m ELSE complains)
                                     EXCEPT !.vars[-1] = 2], Read(m, o, p))
        [] i = "RT__ChPS" -> LET ok == IsClassed(o) /\ Has(m, o, p)
                             IN  Gives([(IF ok THEN Write(m, o, p, args[3]) ELSE complains)
                                         EXCEPT !.vars[-1] = 2], IF ok THEN args[3] ELSE 0)
        [] i = "RV__Pr" -> Gives(IF Has(m, o, p) THEN Clobbered(m) ELSE complains, Read(m, o, p))
        [] i = "WV__Pr" -> Gives(IF Has(m, o, p) THEN Clobbered(Write(m, o, p, args[3]))
                                 ELSE complains, args[3])
        [] i = "RA__Pr" -> Gives(Clobbered(m), IF Has(m, o, p) THEN o ELSE 0)
        [] i = "RL__Pr" -> Gives(Clobbered(m), IF Has(m, o, p) THEN 2 ELSE 0)
        [] i \in {"IB__Pr", "DB__Pr", "IA__Pr", "DA__Pr"} ->
             LET old == Read(m, o, p)
                 new == (IF i \in {"IB__Pr", "IA__Pr"} THEN old + 1 ELSE Word + old - 1) % Word
             IN  IF ~Has(m, o, p) THEN Gives(complains, 0)
                 ELSE Gives(Clobbered(Write(m, o, p, new)),
                            IF i \in {"IB__Pr", "DB__Pr"} THEN new ELSE old)
        [] i = "get_parent"  -> Gives(m, Linked(Parent, o))
        [] i = "get_child"   -> Gives(m, Linked(Child, o))
        [] i = "get_sibling" -> Gives(m, Linked(Sibling, o))
        [] i = "aloadbit"    -> Gives(m, Truth(HasAttribute(o, (p + Word - 8) % Word)))
        [] i = "type_byte"   -> Gives(m, IF IsObject(o) THEN 7 ELSE 6)
        \* Z-code: 1 to n, or a seed if n is not positive; Glulx: 0 to n - 1.
        [] i = "random_z" -> IF n > 0 THEN Gives(Did([m EXCEPT !.seed = (@ + 1) % Word], "random", <<n>>),
                                                 (m.seed % n) + 1)
                             ELSE Gives(Did([m EXCEPT !.seed = -n], "seed", <<-n>>), 0)
        [] i = "random"    -> Gives(Did([m EXCEPT !.seed = (@ + 1) % Word], "random", <<n>>),
                                    IF n > 0 THEN m.seed % n ELSE 0)
        [] i = "setrandom" -> Gives(Did([m EXCEPT !.seed = o], "seed", <<o>>), 0)
        [] i = "entry"     -> Gives(m, args[o + 2])
        [] i \in {"UNARY_MINUS"} -> Gives(m, Word - o)
        [] i \in {"ARTNOT"} -> Gives(m, Word - 1 - o)
        [] i = "PLUS"      -> Gives(m, o + p)
        [] i = "MINUS"     -> Gives(m, Word + o - p)
        [] i = "TIMES"     -> Gives(m, o * p)
        [] i = "ARTAND"    -> Gives(m, BitOp(o, p, TRUE))
        [] i = "ARTOR"     -> Gives(m, BitOp(o, p, FALSE))
        [] i \in {"DIVIDE", "REMAINDER"} ->
             IF p = 0 THEN Gives(Did(m, "halt", <<o>>), 0)
             ELSE Gives(m, IF i = "DIVIDE" THEN Quotient(n, Signed(p)) ELSE Remainder(n, Signed(p)))

Tests(i, args) ==
  CASE i = "jz" -> args[1] = 0
    [] i = "je" -> \E k \in 2 .. Len(args) : args[k] = args[1]
    [] i = "jl" -> Signed(args[1]) < Signed(args[2])
    [] i = "jg" -> Signed(args[1]) > Signed(args[2])
    [] i = "jin" -> IsObject(args[1]) /\ Parent[args[1]] = args[2]
    [] i = "test_attr" -> HasAttribute(args[1], args[2])

--------------------------------------------------------------------------------
(* Running code *)

IsSp(v) == v = Sp

\* The values of operands, read in order, and the stack then.  What is not
\* there is read as Word - 4.
Pull(stack) == IF stack = <<>> THEN Word - 4 ELSE Last(stack)
Popped(stack) == IF stack = <<>> THEN <<>> ELSE Front(stack)

ValueOf(m, v) ==
  IF v.type = "const" THEN v.value ELSE IF v.type = "veneer" THEN 0 ELSE m.vars[v.value]

Fetch(m, args) ==
  FoldLeft(LAMBDA r, v : IF IsSp(v)
                         THEN [vals |-> Append(r.vals, Pull(r.stack)), stack |-> Popped(r.stack)]
                         ELSE [r EXCEPT !.vals = Append(@, ValueOf(m, v))],
           [vals |-> <<>>, stack |-> m.stack], args)

Put(m, to, v) ==
  IF to.type = "omitted" THEN m
  ELSE IF IsSp(to) THEN [m EXCEPT !.stack = Append(@, v)]
  ELSE [m EXCEPT !.vars[to.value] = v]

Where(code, label) == CHOOSE k \in DOMAIN code : code[k].i = "label" /\ code[k].label = label
Outside(label) == label \in {ReturnTrue, ReturnFalse, Away}

\* Add to a variable, or to the value on top of the stack, in place.
Bump(m, to, d) ==
  IF IsSp(to) THEN [m EXCEPT !.stack = Append(Popped(@), (Pull(@) + d) % Word)]
  ELSE [m EXCEPT !.vars[to.value] = (@ + d) % Word]

\* stkroll: the top n values turned k places up, the top one to the bottom of them.
Roll(stack, n, k) ==
  LET base == Len(stack) - n
  IN  [j \in DOMAIN stack |-> IF j <= base THEN stack[j]
                              ELSE stack[base + 1 + ((j - base - 1 - k + n) % n)]]

RECURSIVE Run(_, _, _, _)
Run(code, k, m, fuel) ==
  IF k > Len(code) THEN [m |-> m, at |-> NoLabel]
  ELSE IF fuel = 0 THEN [m |-> Did(m, "runs on", <<>>), at |-> NoLabel]
  ELSE
    LET ins == code[k]
        f   == Fetch(m, ins.args)
        m1  == [m EXCEPT !.stack = f.stack]
        go(mm, taken) ==
          IF ~taken THEN Run(code, k + 1, mm, fuel - 1)
          ELSE IF Outside(ins.label) THEN [m |-> mm, at |-> ins.label]
          ELSE Run(code, Where(code, ins.label), mm, fuel - 1)
        next(mm) == Run(code, k + 1, mm, fuel - 1)
        links == ins.i \in {"get_child", "get_sibling"} /\ ins.label # NoLabel
    IN  CASE ins.i = "label" -> next(m)
          [] ins.i = "jump" -> go(m, TRUE)
          [] ins.i = "store" -> next(Put(m1, ins.to, f.vals[1]))
          [] ins.i = "inc" -> next(Bump(m, ins.to, 1))
          [] ins.i = "dec" -> next(Bump(m, ins.to, Word - 1))
          [] ins.i = "stkswap" -> next([m EXCEPT !.stack = Roll(@, 2, 1)])
          [] ins.i = "stkroll" -> next([m1 EXCEPT !.stack = Roll(@, f.vals[1], f.vals[2])])
          [] ins.i = "stkpeek" -> next(Put(m1, ins.to, m1.stack[Len(m1.stack) - f.vals[1]]))
          [] ins.i \in {"jz", "je", "jl", "jg", "jin", "test_attr"} ->
               go(m1, Tests(ins.i, f.vals) = ins.on)
          \* Glulx: the arguments are pulled off the stack, the first on top.
          [] ins.i = "callstack" ->
               LET n == f.vals[2]
                   args == [j \in 1..n |-> m1.stack[Len(m1.stack) + 1 - j]]
                   r == World([m1 EXCEPT !.stack = SubSeq(@, 1, Len(@) - n)],
                              IF ins.args[1].type = "veneer" THEN ins.args[1].value ELSE "function",
                              IF ins.args[1].type = "veneer" THEN args ELSE <<f.vals[1]>> \o args)
               IN  next(Put(r.m, ins.to, r.v))
          [] OTHER ->
               LET called == ins.i = "call"
                   veneer == called /\ ins.args[1].type = "veneer"
                   r == World(m1, IF veneer THEN ins.args[1].value
                                  ELSE IF called THEN "function" ELSE ins.i,
                              IF veneer THEN Tail(f.vals) ELSE f.vals)
               IN  go(Put(r.m, ins.to, r.v), links /\ (r.v # 0) = ins.on)
==============================================================================
