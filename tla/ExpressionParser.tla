--------------------------- MODULE ExpressionParser ---------------------------
(* parse_expression (expressp.c): get_next_etoken decides with one token of  *)
(* memory where the expression ends and which tokens are operators, a        *)
(* shift-reduce parser compares the token on top of sr_stack with the next   *)
(* one, and emit_token folds or builds the tree on emitter_stack, where      *)
(* markers and bracket counts fence off the operands of what is still open.  *)
(*                                                                           *)
(* A text is a sequence of lexemes; "; " follows it for ever.  Terms gives   *)
(* the operand of each name or number.  What is read past the bottom of      *)
(* emitter_stack is undefined.                                               *)
EXTENDS ExpressionTree, FiniteSets, TLC

CONSTANTS Terms,   \* lexeme -> operand, of the names and numbers
          Texts,   \* the [context, glulx, text] to parse
          Stale    \* what a reused node may be found to hold: subset of BOOLEAN

ASSUME ExpressionParserAssumption ==
  /\ Stale \subseteq BOOLEAN /\ Stale # {}
  /\ \A s \in Texts : s.glulx \in BOOLEAN /\ s.text \in Seq(STRING)

VARIABLES
  source,      \* the element of Texts being parsed
  lexer,       \* current_token, previous_token and what get_next_etoken keeps
  sr_stack,    \* the operators and brackets still open, and a last term
  emitter,     \* emitter_stack
  errors,      \* error and compiler_error calls, in order
  status,      \* "start", "parse", "reduce", "done", "undefined"
  result       \* the tree returned, and (ghost) the one with nothing folded

vars == <<source, lexer, sr_stack, emitter, errors, status, result>>

\* make_lexical_interface_tables
SeparatorsToOperators ==
  "," :> "COMMA" @@ "=" :> "SETEQUALS" @@ "&&" :> "LOGAND" @@ "||" :> "LOGOR" @@
  "~~" :> "LOGNOT" @@ "==" :> "CONDEQUALS" @@ "~=" :> "NOTEQUAL" @@ ">=" :> "GE" @@
  ">" :> "GREATER" @@ "<=" :> "LE" @@ "<" :> "LESS" @@ "has" :> "HAS" @@
  "hasnt" :> "HASNT" @@ "in" :> "IN" @@ "notin" :> "NOTIN" @@
  "ofclass" :> "OFCLASS" @@ "provides" :> "PROVIDES" @@ "or" :> "OR" @@
  "+" :> "PLUS" @@ "-" :> "MINUS" @@ "*" :> "TIMES" @@ "/" :> "DIVIDE" @@
  "%" :> "REMAINDER" @@ "&" :> "ARTAND" @@ "|" :> "ARTOR" @@ "~" :> "ARTNOT" @@
  "->" :> "ARROW" @@ "-->" :> "DARROW" @@ "++" :> "INC" @@ "--" :> "DEC" @@
  ".&" :> "PROP_ADD" @@ ".#" :> "PROP_NUM" @@ "." :> "PROPERTY" @@ "::" :> "SUPERCLASS"

--------------------------------------------------------------------------------
(* get_next_etoken *)

Lexeme(i) == IF i <= Len(source.text) THEN source.text[i] ELSE ";"

Token(type, value, at) == [type |-> type, value |-> value, at |-> at]
EndToken == Token("end", "$", 0)
OpToken(o, at) == Token("op", o, at)

\* The flags parse_expression sets from its context.
CommaAllowed      == source.context \in {"VOID", "FORINIT"}
ArrowAllowed      == source.context # "ASSEMBLY"
SuperclassAllowed == source.context # "FORINIT"
ArrayAmbiguity    == source.context \in {"ARRAY", "ASSEMBLY"}
ActionAmbiguity   == source.context = "ACTION_Q"

\* A bracket opens a subexpression, or a call that is inserted before it.
OpensSubexpression(lx) ==
  \/ lx.previous.type \in {"op", "open", "end"}
  \/ ArrayAmbiguity
  \/ lx.level = 0 /\ ActionAmbiguity

\* The token at this position, with the level of brackets and whether the
\* bracket is held back behind the call inserted for it.
TypedToken(lx, i) ==
  LET s == Lexeme(i)
      as(tok) == [tok |-> tok, level |-> lx.level, held |-> FALSE]
      ends == \/ s = ";"
              \/ s = "->" /\ ~ArrowAllowed
              \/ s = "," /\ lx.level = 0 /\ ~CommaAllowed
              \/ s = "::" /\ lx.level = 0 /\ ~SuperclassAllowed
              \/ s = ">" /\ Lexeme(i + 1) \in {";", ">"}
      afterOperand == lx.previous.type \in {"var", "close", "num"}
  IN  IF ends THEN as(EndToken)
      ELSE IF s = "(" THEN
        IF OpensSubexpression(lx)
        THEN [as(Token("open", "(", i)) EXCEPT !.level = @ + 1]
        ELSE [as(OpToken("FCALL", i)) EXCEPT !.held = TRUE]
      ELSE IF s = ")" THEN
        [as(IF lx.level = 0 THEN EndToken ELSE Token("close", ")", i))
           EXCEPT !.level = @ - 1]
      ELSE IF s = "-" /\ lx.previous.type \in {"op", "open", "end"}
        THEN as(OpToken("UNARY_MINUS", i))
      ELSE IF s = "++" /\ afterOperand THEN as(OpToken("POST_INC", i))
      ELSE IF s = "--" /\ afterOperand THEN as(OpToken("POST_DEC", i))
      ELSE IF s \in DOMAIN SeparatorsToOperators
        THEN as(OpToken(SeparatorsToOperators[s], i))
      ELSE as(Token(CASE Terms[s].type = "sysfun" -> "sysfun"
                      [] Terms[s].type \in {"local", "global"} -> "var"
                      [] OTHER -> "num", s, i))

\* An operand, or a prefix operator, where an operand has just ended, is no
\* longer part of the expression: unless inside brackets.
NoLongerPart(lx, tok) ==
  /\ ~ \/ lx.level > 0
       \/ lx.previous.type \in {"end", "sysfun"}
       \/ lx.previous.type = "op" /\ Usage(lx.previous.value) # "post"
  /\ tok.type = "op" => Usage(tok.value) = "pre"

NextEtoken(lx) ==
  LET i     == IF lx.held THEN lx.at ELSE lx.at + 1
      typed == TypedToken(lx, i)
      tok   == IF NoLongerPart(lx, typed.tok) THEN EndToken ELSE typed.tok
  IN  [at |-> i, level |-> typed.level, held |-> typed.held, current |-> tok,
       previous |-> IF lx.previous.type = "end" /\ tok.type = "end"
                    THEN lx.previous ELSE tok]

--------------------------------------------------------------------------------
(* find_prec *)

\* The column or row of a token in prec_table.
PrecClass(t) ==
  CASE t.type = "open"  -> 1
    [] t.type = "close" -> 2
    [] t.type = "end"   -> 3
    [] t.type = "op" -> CASE Usage(t.value) = "pre"  -> 4
                          [] Usage(t.value) = "post" -> 6
                          [] OTHER -> 5
    [] OTHER -> 7

prec_table == <<
  <<"LOWER", "NOOP",    "LOWER",  "LOWER",   "LOWER",   "NOOP",    "NOOP">>,
  <<"EQUAL", "GREATER", "CLOSEB", "GREATER", "GREATER", "GREATER", "GREATER">>,
  <<"OPENB", "GREATER", "NOVAL",  "GREATER", "GREATER", "GREATER", "GREATER">>,
  <<"LOWER", "NOOP",    "LOWER",  "BYPREC",  "BYPREC",  "NOOP",    "NOOP">>,
  <<"LOWER", "GREATER", "LOWER",  "BYPREC",  "BYPREC",  "BYPREC",  "GREATER">>,
  <<"LOWER", "GREATER", "LOWER",  "BYPREC",  "BYPREC",  "BYPREC",  "GREATER">>,
  <<"LOWER", "NOOP",    "LOWER",  "LOWER",   "LOWER",   "NOOP",    "NOOP">> >>

Associates(a) ==
  CASE Associativity(a) = "L" -> "GREATER"
    [] Associativity(a) = "R" -> "LOWER"
    [] OTHER -> "ASSOC"

\* Bug: a call is compared like any other operator.
ByPrecedenceBug(a, b) ==
  LET l1 == Precedence(a)
      l2 == Precedence(b)
  IN  IF Usage(b) = "pre" THEN "LOWER"
      ELSE IF Usage(a) = "post" THEN "GREATER"
      ELSE IF l1 # l2 THEN IF l1 < l2 THEN "LOWER" ELSE "GREATER"
      ELSE Associates(a)

\* BYPREC: by the operators' precedences, and for equal ones by associativity.
\* A call binds tighter than what follows it and looser than what precedes.
ByPrecedence(a, b) ==
  LET l1 == Precedence(a)
      l2 == Precedence(b)
  IN  IF Usage(b) = "pre" THEN "LOWER"
      ELSE IF Usage(a) = "post" \/ (l1 = 11 /\ l2 > 11) THEN "GREATER"
      ELSE IF l1 # l2 THEN IF l1 < l2 THEN "LOWER" ELSE "GREATER"
      ELSE Associates(a)

FindPrec(a, b) ==
  LET j == prec_table[PrecClass(b)][PrecClass(a)]
  IN  IF j = "BYPREC" THEN ByPrecedence(a.value, b.value) ELSE j

--------------------------------------------------------------------------------
(* The emitter *)

Entry(op, src) == [op |-> op, src |-> src, marker |-> "none", brackets |-> 0]
Source(t, at)  == t @@ [at |-> at]
ZeroEntry      == Entry(ZeroLeaf, Source(ZeroLeaf, 0))
Unfenced(e)    == e.marker = "none" /\ e.brackets = 0

\* An emitter state: the stack, the errors, and whether it is still defined.
Emitted(em, errs) == [em |-> em, errs |-> errs, defined |-> TRUE]
Undefined(errs)   == [em |-> <<>>, errs |-> errs, defined |-> FALSE]

MarkTop(em, marker, errs) ==
  IF em = <<>> THEN Emitted(em, Append(errs, "internal: marker"))
  ELSE IF Last(em).marker = "none"
    THEN Emitted([em EXCEPT ![Len(em)].marker = marker], errs)
  ELSE IF marker = "argument" THEN Emitted(em, errs)
  ELSE Emitted(Append(em, [ZeroEntry EXCEPT !.marker = marker]),
               Append(errs, "Missing operand"))

\* Bug: the layer always goes on the top entry.
AddBracketLayerBug(em, depth) ==
  IF em = <<>> THEN em ELSE [em EXCEPT ![Len(em)].brackets = @ + 1]

AddBracketLayer(em, depth) ==
  IF Len(em) < depth + 1 THEN em
  ELSE [em EXCEPT ![Len(em) - depth].brackets = @ + 1]

RemoveBracketLayer(em, errs) ==
  LET n == Len(em) - 1
  IN  IF n < 1 THEN Emitted(em, errs)
      ELSE IF em[n].brackets = 0
        THEN Emitted(em, Append(errs, "internal: bracket layer"))
      ELSE Emitted([em EXCEPT ![n].brackets = @ - 1], errs)

\* How many of the entries from i down are in this set, one after the other.
RunDown(i, good) ==
  i - CHOOSE j \in 0..i : j \notin good /\ \A k \in j+1 .. i : k \in good

Clean(em)    == {i \in DOMAIN em : Unfenced(em[i])}
OrValues(em) == {i \in DOMAIN em : em[i].marker = "or" /\ em[i].brackets = 0}
StackSize(em) == RunDown(Len(em), Clean(em))

\* The value emit_token folds an operator on constants into, or -1.
FoldedUnary(o, v) ==
  CASE o = "UNARY_MINUS" -> (Word - v) % Word
    [] o = "ARTNOT"      -> Word - 1 - v
    [] o = "LOGNOT"      -> IF v # 0 THEN 0 ELSE 1
    [] OTHER -> -1

\* Bug: the quotient is rounded down, as \div does.
FoldedBinaryBug(o, v1, v2) ==
  IF o = "DIVIDE" /\ v2 # 0
  THEN (IF Signed(v2) < 0 THEN (-Signed(v1)) \div (-Signed(v2))
        ELSE Signed(v1) \div Signed(v2)) % Word
  ELSE LET s1 == Signed(v1)
           s2 == Signed(v2)
       IN  CASE o = "PLUS"  -> (s1 + s2) % Word
             [] o = "MINUS" -> (s1 - s2) % Word
             [] OTHER -> -1

\* Comparisons are of the values as they are kept: unsigned in Z-code.
FoldedBinary(o, v1, v2) ==
  LET s1 == Signed(v1)
      s2 == Signed(v2)
      c1 == IF source.glulx THEN s1 ELSE v1
      c2 == IF source.glulx THEN s2 ELSE v2
  IN  CASE o = "PLUS"       -> (s1 + s2) % Word
        [] o = "MINUS"      -> (s1 - s2) % Word
        [] o = "TIMES"      -> (s1 * s2) % Word
        [] o = "DIVIDE"     -> IF s2 = 0 THEN 0 ELSE Quotient(s1, s2) % Word
        [] o = "REMAINDER"  -> IF s2 = 0 THEN 0 ELSE Remainder(s1, s2) % Word
        [] o = "ARTAND"     -> BitOp(v1, v2, TRUE)
        [] o = "ARTOR"      -> BitOp(v1, v2, FALSE)
        [] o = "CONDEQUALS" -> Truth(v1 = v2)
        [] o = "NOTEQUAL"   -> Truth(v1 # v2)
        [] o = "GE"         -> Truth(c1 >= c2)
        [] o = "GREATER"    -> Truth(c1 > c2)
        [] o = "LE"         -> Truth(c1 <= c2)
        [] o = "LESS"       -> Truth(c1 < c2)
        [] o = "LOGAND"     -> Truth(v1 # 0 /\ v2 # 0)
        [] o = "LOGOR"      -> Truth(v1 # 0 \/ v2 # 0)
        [] OTHER -> -1

\* Folding two operands; a logical operator that the first one settles folds
\* whatever the second one is.
Folded(o, ops) ==
  IF Len(ops) = 1 THEN
    IF IsKnown(ops[1]) THEN FoldedUnary(o, ops[1].val.value) ELSE -1
  ELSE IF Len(ops) # 2 \/ ~IsKnown(ops[1]) THEN -1
  ELSE LET v == ops[1].val.value
       IN  IF IsKnown(ops[2]) THEN FoldedBinary(o, v, ops[2].val.value)
           ELSE IF o = "LOGAND" /\ v = 0 THEN 0
           ELSE IF o = "LOGOR" /\ v # 0 THEN 1
           ELSE -1

\* The errors folding reports: a division by zero, and in Z-code a sum,
\* difference or product that a signed word does not hold.
FoldErrors(o, ops) ==
  IF Len(ops) # 2 \/ ~(IsKnown(ops[1]) /\ IsKnown(ops[2])) THEN <<>>
  ELSE LET s1 == Signed(ops[1].val.value)
           s2 == Signed(ops[2].val.value)
           x  == CASE o = "PLUS" -> s1 + s2
                   [] o = "MINUS" -> s1 - s2
                   [] o = "TIMES" -> s1 * s2
                   [] OTHER -> 0
       IN  IF o \in {"DIVIDE", "REMAINDER"} /\ s2 = 0
           THEN <<"Division of constant by zero">>
           ELSE IF ~source.glulx /\ x \notin -(Word \div 2) .. (Word \div 2 - 1)
           THEN <<"Signed arithmetic overflowed">> ELSE <<>>

\* The top arity entries become one.
Combine(em, errs, tok, arity) ==
  LET k    == Len(em) - arity
      args == SubSeq(em, k + 1, Len(em))
      ops  == [i \in 1..arity |-> args[i].op]
      x    == Folded(tok.value, ops)
      src  == Source(Node(tok.value, "var", [i \in 1..arity |-> args[i].src]), tok.at)
      op   == IF x >= 0 THEN Leaf(Operand("const", x, "none"))
              ELSE Node(tok.value, "var", ops)
  IN  RemoveBracketLayer(Append(SubSeq(em, 1, k), Entry(op, src)),
                         errs \o FoldErrors(tok.value, ops))

Pad(em, n) == em \o [i \in 1..n |-> ZeroEntry]

\* A call takes what lies above the entry marked as its function; a name of a
\* system function among the arguments is an error, and becomes 0.
EmitCall(em, errs, tok) ==
  LET functions == {i \in DOMAIN em : em[i].marker = "function"}
      f == CHOOSE i \in functions : \A j \in functions : j <= i
      named == {i \in f+1 .. Len(em) : em[i].op.val.type = "sysfun"}
      em1 == [i \in DOMAIN em |->
                IF i \in named THEN [em[i] EXCEPT !.op = ZeroLeaf,
                                       !.src = Source(ZeroLeaf, @.at)] ELSE em[i]]
  IN  IF functions = {} THEN Undefined(errs)
      ELSE Combine(em1, IF named = {} THEN errs
                        ELSE Append(errs, "System function name used as a value"),
                   tok, Len(em) - f + 1)

\* A condition takes the or-values on top as well.  With nothing below its
\* one operand, emitter_stack[-1] is read: orBelow says what was there.
EmitOperator(em, errs, tok, orBelow) ==
  LET n == Len(em)
      cond == Precedence(tok.value) = 3 /\ n >= 1 /\ Unfenced(em[n])
      ors  == IF cond THEN RunDown(n - 1, OrValues(em)) ELSE 0
      arity == IF Precedence(tok.value) = 3 \/ Usage(tok.value) = "in"
               THEN 2 + ors ELSE 1
      size == StackSize(em) + ors
              + (IF cond THEN RunDown(n - 1 - ors, Clean(em)) ELSE 0)
  IN  IF cond /\ ors = n - 1 /\ orBelow THEN Undefined(errs)
      ELSE IF arity > size
        THEN Combine(Pad(em, arity - size), Append(errs, "Missing operand"), tok, arity)
      ELSE Combine(em, errs, tok, arity)

EmitClose(em, errs) ==
  LET size == StackSize(em)
  IN  IF ~(size < Len(em) /\ em[Len(em) - size].brackets > 0) THEN Emitted(em, errs)
      ELSE IF size = 0
        THEN RemoveBracketLayer(Append(em, ZeroEntry), Append(errs, "No expression"))
      ELSE RemoveBracketLayer(em, IF size > 1 THEN Append(errs, "internal: overfull")
                                  ELSE errs)

SeparatesArguments(em) ==
  LET below == Len(em) - StackSize(em)
  IN  below >= 1 /\ em[below].marker \in {"argument", "function"} /\ em[below].brackets = 0

EmitToken(em, errs, tok, orBelow) ==
  CASE tok.type = "open"  -> Emitted(em, errs)
    [] tok.type = "close" -> EmitClose(em, errs)
    [] tok.type \in {"var", "num", "sysfun"} ->
         LET leaf == Leaf(Terms[tok.value])
         IN  Emitted(Append(em, Entry(leaf, Source(leaf, tok.at))), errs)
    [] tok.value = "OR" -> Emitted(em, errs)
    [] tok.value = "COMMA" /\ SeparatesArguments(em) -> Emitted(em, errs)
    [] tok.value = "FCALL" -> EmitCall(em, errs, tok)
    [] OTHER -> EmitOperator(em, errs, tok, orBelow)

--------------------------------------------------------------------------------
(* What is done to the finished tree *)

\* A property number that get_prop and the like take as it is: a declared
\* common property.
IsCommonProperty(t) == IsKnown(t) /\ t.val.value \in 1..63

\* Z-code only: any other property is asked for by a veneer routine.
RECURSIVE CheckPropertyOperator(_)
CheckPropertyOperator(t) ==
  LET o == IF Len(t.kids) < 2 \/ IsCommonProperty(t.kids[2]) THEN t.op
           ELSE CASE t.op = "PROPERTY" -> "MESSAGE"
                  [] t.op = "PROP_ADD" -> "MPROP_ADD"
                  [] t.op = "PROP_NUM" -> "MPROP_NUM"
                  [] OTHER -> t.op
  IN  [t EXCEPT !.op = o,
         !.kids = [i \in DOMAIN @ |-> CheckPropertyOperator(@[i])]]

\* Operand and operator in one: x.y(...) is a call of a property.
MergeCall(t) ==
  IF t.op = "FCALL" /\ t.kids[1].op \in {"PROPERTY", "MESSAGE"}
  THEN [t EXCEPT !.of = "PROPERTY", !.kids = t.kids[1].kids \o Tail(@)] ELSE t

\* What is assigned to must be a variable, or one of the four forms.
NotLvalue(t) ==
  /\ ~IsLeaf(t) /\ RequiresLvalue(t.op) /\ t.of = "var"
  /\ IF IsLeaf(t.kids[1]) THEN t.kids[1].val.type \notin {"local", "global"}
     ELSE t.kids[1].op \notin LvalueForms

MergeLvalue(t) ==
  IF RequiresLvalue(t.op) /\ ~IsLeaf(t.kids[1])
  THEN [t EXCEPT !.of = t.kids[1].op, !.kids = t.kids[1].kids \o Tail(@)] ELSE t

RECURSIVE CheckLvalues(_)
CheckLvalues(t) ==
  IF IsLeaf(t) THEN t
  ELSE IF NotLvalue(t) THEN ZeroLeaf
  ELSE LET m == MergeLvalue(MergeCall(t))
       IN  [m EXCEPT !.kids = [i \in DOMAIN @ |-> CheckLvalues(@[i])]]

\* The expression assigns to something that cannot be assigned to.
RECURSIVE LvalueErrors(_)
LvalueErrors(t) ==
  NotLvalue(t) \/ \E i \in DOMAIN t.kids : LvalueErrors(t.kids[i])

\* A ~= 0 test where a condition is wanted and there is none.
RECURSIVE InsertExpToCond(_, _)
InsertExpToCond(t, wanted) ==
  IF IsLeaf(t) THEN IF wanted THEN Node("NONZERO", "var", <<t>>) ELSE t
  ELSE LET inside == Precedence(t.op) = 2
           t1 == [t EXCEPT !.kids = [i \in DOMAIN @ |-> InsertExpToCond(@[i], inside)]]
       IN  IF wanted /\ Precedence(t.op) \notin {2, 3}
           THEN Node("NONZERO", "var", <<t1>>) ELSE t1

\* Bug: the operands of && and || are not negated with them.
NegateConditionBug(t) ==
  IF IsLeaf(t) \/ Negation(t.op) = "none" THEN t ELSE [t EXCEPT !.op = Negation(t.op)]

RECURSIVE NegateCondition(_)
NegateCondition(t) ==
  IF IsLeaf(t) \/ Negation(t.op) = "none" THEN t
  ELSE LET o == Negation(t.op)
       IN  [t EXCEPT !.op = o,
              !.kids = IF Precedence(o) = 2
                       THEN [i \in DOMAIN @ |-> NegateCondition(@[i])] ELSE @]

RECURSIVE DeleteNegations(_)
DeleteNegations(t) ==
  LET t1 == [t EXCEPT !.kids = [i \in DOMAIN @ |-> DeleteNegations(@[i])]]
  IN  IF t.op = "LOGNOT" THEN NegateCondition(t1.kids[1]) ELSE t1

\* Glulx: with more than three arguments, those of a call that are not
\* computed onto the stack are pushed there.  The type of the function is
\* read from its node even when it is an operator's, whose value is what the
\* expressions before left there: staleSysfun says it is a system function.
PushesArguments(t, staleSysfun) ==
  /\ Len(t.kids) > (IF t.of = "var" THEN 4 ELSE 3)
  /\ \/ t.of # "var"
     \/ IsLeaf(t.kids[1]) /\ t.kids[1].val.type # "sysfun"
     \/ IsLeaf(t.kids[1]) /\ t.kids[1].val.value \in {"indirect", "glk"}
     \/ ~IsLeaf(t.kids[1]) /\ ~staleSysfun

RECURSIVE FuncArgsOnStack(_, _)
FuncArgsOnStack(t, staleSysfun) ==
  LET pushed(i) == /\ t.op = "FCALL" /\ IsLeaf(t.kids[i])
                   /\ PushesArguments(t, staleSysfun)
                   /\ (t.of = "var" => i > 1)
  IN  [t EXCEPT !.kids = [i \in DOMAIN @ |->
         IF pushed(i) THEN Node("PUSH", "var", <<@[i]>>)
         ELSE FuncArgsOnStack(@[i], staleSysfun)]]

\* check_conditions: a single operand is left as it is, its caller drops the
\* tree made for it.
CheckConditions(t, staleSysfun) ==
  IF IsLeaf(t) THEN t
  ELSE LET t1 == DeleteNegations(InsertExpToCond(t, source.context = "CONDITION"))
       IN  IF source.glulx THEN FuncArgsOnStack(t1, staleSysfun) ELSE t1

Finish(t, staleSysfun) ==
  CheckConditions(CheckLvalues(IF source.glulx THEN t ELSE CheckPropertyOperator(t)),
                  staleSysfun)

--------------------------------------------------------------------------------
(* parse_expression *)

ErrorResult == [tree |-> Leaf(Operand("const", 0, "error")), src |-> Source(ZeroLeaf, 0),
                error |-> TRUE]

Init ==
  /\ source \in Texts
  /\ lexer = [at |-> 0, level |-> 0, held |-> FALSE, current |-> EndToken,
              previous |-> EndToken]
  /\ sr_stack = <<EndToken>>
  /\ emitter = <<>> /\ errors = <<>>
  /\ status = "start"
  /\ result = ErrorResult

Start ==
  /\ status = "start"
  /\ lexer' = NextEtoken(lexer)
  /\ IF lexer'.current.type = "end"
     THEN status' = "done" /\ errors' = Append(errors, "expression expected")
     ELSE status' = "parse" /\ UNCHANGED errors
  /\ UNCHANGED <<source, sr_stack, emitter, result>>

Parsing == status = "parse"
Above   == Last(sr_stack)
Current == lexer.current
AtEnd   == Above.type = "end" /\ Current.type = "end"
Order   == FindPrec(Above, Current)

\* The bracket a comma belongs to opens the arguments of a call.
InArguments ==
  LET open == {i \in 2..Len(sr_stack) : sr_stack[i].type = "open"}
  IN  \E i \in open : /\ \A j \in open : j <= i
                      /\ sr_stack[i - 1].type = "op" /\ sr_stack[i - 1].value = "FCALL"

\* What shifting a token does to the emitter's marks, with the errors.
Shifted(b, errs) ==
  CASE b.type = "open" ->
         IF Above.type = "op" /\ Above.value = "FCALL"
         THEN MarkTop(emitter, "function", errs)
         ELSE Emitted(AddBracketLayer(emitter, 0), errs)
    [] b.type = "op" /\ b.value = "OR" ->
         IF Above.type = "op" /\ Precedence(Above.value) = 3
         THEN MarkTop(emitter, "or", errs)
         ELSE Emitted(emitter, Append(errs, "'or' not right of a condition"))
    [] b.type = "op" /\ b.value = "COMMA" /\ InArguments ->
         MarkTop(emitter, "argument", errs)
    [] b.type = "op" /\ (b.value = "COMMA" => ~InArguments) /\ b.value # "OR" ->
         Emitted(AddBracketLayer(emitter, IF Usage(b.value) = "pre" THEN 0 ELSE 1), errs)
    [] OTHER -> Emitted(emitter, errs)

\* An 'or' that is not right of a condition is taken for a plus.
ShiftedToken(b) ==
  IF b.type = "op" /\ b.value = "OR"
     /\ ~(Above.type = "op" /\ Precedence(Above.value) = 3)
  THEN [b EXCEPT !.value = "PLUS"] ELSE b

Shift ==
  /\ Parsing /\ ~AtEnd
  /\ Order \in {"LOWER", "EQUAL", "ASSOC"}
  /\ LET e == Shifted(Current, IF Order = "ASSOC" THEN Append(errors, "Brackets mandatory")
                               ELSE errors)
     IN  emitter' = e.em /\ errors' = e.errs
  /\ sr_stack' = Append(sr_stack, ShiftedToken(Current))
  /\ lexer' = NextEtoken(lexer)
  /\ UNCHANGED <<source, status, result>>

\* Pop and emit, and again until what is then on top is of lower precedence
\* than what was popped.
Reduce ==
  /\ (Parsing /\ ~AtEnd /\ Order = "GREATER") \/ status = "reduce"
  /\ sr_stack' = Front(sr_stack)
  /\ \E orBelow \in BOOLEAN :
       LET e == EmitToken(emitter, errors, Above, orBelow)
       IN  /\ emitter' = e.em /\ errors' = e.errs
           /\ status' = IF ~e.defined \/ Len(sr_stack) = 1 THEN "undefined"
                        ELSE IF FindPrec(Last(sr_stack'), Above) = "LOWER" THEN "parse"
                        ELSE "reduce"
  /\ UNCHANGED <<source, lexer, result>>

\* Bug: the token is put back and nothing inserted.
MissingOperatorBug ==
  /\ Parsing /\ Order = "NOOP"
  /\ errors' = <<"Missing operator">>
  /\ lexer' = NextEtoken([lexer EXCEPT !.at = @ - 1, !.held = FALSE])
  /\ UNCHANGED <<source, sr_stack, emitter, status, result>>

\* NOOP_E: a + is inserted before the token, which is put back; the level of
\* brackets and previous_token stay as it made them.
MissingOperator ==
  /\ Parsing /\ Order = "NOOP"
  /\ errors' = Append(errors, "Missing operator")
  /\ lexer' = [lexer EXCEPT !.at = @ - 1, !.held = FALSE,
                            !.current = OpToken("PLUS", 0)]
  /\ UNCHANGED <<source, sr_stack, emitter, status, result>>

\* CLOSEB_E: the bracket is skipped.
UnexpectedClose ==
  /\ Parsing /\ Order = "CLOSEB"
  /\ errors' = Append(errors, "Unmatched bracket")
  /\ lexer' = NextEtoken(lexer)
  /\ UNCHANGED <<source, sr_stack, emitter, status, result>>

\* OPENB_E: the open bracket is dropped; its layer on the emitter stays.
UnclosedBracket ==
  /\ Parsing /\ Order = "OPENB"
  /\ errors' = Append(errors, "Unmatched bracket")
  /\ sr_stack' = Front(sr_stack)
  /\ UNCHANGED <<source, lexer, emitter, status, result>>

ConstantWanted == source.context \in {"CONSTANT", "ARRAY"}

\* What parse_expression returns for the emitter's one entry.
Returned(e, staleSysfun) ==
  IF ConstantWanted /\ ~IsConstant(e.op) THEN ErrorResult
  ELSE [tree |-> Finish(e.op, staleSysfun), src |-> e.src, error |-> FALSE]

Accept ==
  /\ Parsing /\ AtEnd
  /\ status' = "done"
  /\ IF emitter = <<>> THEN errors' = Append(errors, "No expression") /\ UNCHANGED result
     ELSE IF Len(emitter) > 1
       THEN errors' = Append(errors, "internal: overfull") /\ UNCHANGED result
     ELSE \E stale \in Stale :
       /\ result' = Returned(emitter[1], stale)
       /\ errors' = errors
            \o (IF LvalueErrors(emitter[1].op) THEN <<"'=' applied to">> ELSE <<>>)
            \o (IF result'.error THEN <<"constant expected">> ELSE <<>>)
  /\ UNCHANGED <<source, lexer, sr_stack, emitter>>

Next == \/ Start \/ Shift \/ Reduce \/ MissingOperator \/ UnexpectedClose
        \/ UnclosedBracket \/ Accept

--------------------------------------------------------------------------------
(* The grammar, said of the tree with nothing folded and of the text          *)

RECURSIVE Positions(_), Yield(_), RightSpine(_, _), LeftSpine(_, _)
Positions(t) == {t.at} \cup UNION {Positions(t.kids[i]) : i \in DOMAIN t.kids}

\* The positions of a tree's operands and operators as they stood in the text.
Yield(t) ==
  LET rest(i) == FlattenSeq([j \in 1 .. Len(t.kids) - i |-> Yield(t.kids[i + j])])
  IN  IF IsLeaf(t) THEN <<t.at>>
      ELSE IF Usage(t.op) = "pre" THEN <<t.at>> \o rest(0)
      ELSE Yield(t.kids[1]) \o <<t.at>> \o rest(1)

Opens(i)  == i \in DOMAIN source.text /\ source.text[i] = "("
Closes(i) == i \in DOMAIN source.text /\ source.text[i] = ")"
Depth(i)  == Cardinality({j \in 1..i : Opens(j)}) - Cardinality({j \in 1..i : Closes(j)})
Matching(i) == CHOOSE j \in i+1 .. lexer.at :
                 /\ Closes(j) /\ Depth(j) = Depth(i) - 1
                 /\ \A k \in i+1 .. j-1 : Depth(k) >= Depth(i)

Within(t, i) == {p \in Positions(t) : i < p /\ p < Matching(i)}
Calls(t) == {n \in Subtrees(t) : n.op = "FCALL"}

\* The sets of positions that plain brackets enclose.
Groups(t) == {Within(t, i) : i \in {j \in 1 .. lexer.at - 1 :
                                      Opens(j) /\ j \notin Positions(t)}}

\* The operators that the text to the right, or left, of a tree could steal
\* an operand from: none inside brackets.
RightSpine(t, groups) ==
  IF IsLeaf(t) \/ Positions(t) \in groups \/ t.op = "FCALL" \/ Usage(t.op) = "post"
  THEN {} ELSE {t.op} \cup RightSpine(Last(t.kids), groups)
LeftSpine(t, groups) ==
  IF IsLeaf(t) \/ Positions(t) \in groups \/ Usage(t.op) = "pre"
  THEN {} ELSE {t.op} \cup LeftSpine(t.kids[1], groups)

TighterOnLeft(m, n) ==
  \/ Precedence(m) > Precedence(n)
  \/ Precedence(m) = Precedence(n) /\ Associativity(m) = "L"
TighterOnRight(m, n) ==
  \/ Precedence(m) > Precedence(n)
  \/ Precedence(m) = Precedence(n) /\ Associativity(n) = "R"

Parsed == status = "done" /\ errors = <<>>

\* What parse_expression makes of a text it has no complaint about is what
\* the table of operators says: every operand and operator is in the tree,
\* in its order; each pair of brackets encloses a subtree or the arguments of
\* one call; and no operator takes an operand from one that binds tighter.
ParseRespectsGrammar ==
  Parsed =>
    LET t == result.src
        groups == Groups(t)
        yield == Yield(t)
    IN  /\ \A i \in 1 .. Len(yield) - 1 : yield[i] < yield[i + 1]
        /\ \A i \in 1 .. lexer.at - 1 :
             source.text[i] \notin {"(", ")", "or", ","} => i \in Positions(t)
        /\ \A g \in groups : \E n \in Subtrees(t) : Positions(n) = g
        /\ \A n \in Calls(t) :
             Within(t, n.at) = UNION {Positions(n.kids[i]) : i \in 2 .. Len(n.kids)}
        /\ \A n \in {m \in Subtrees(t) : ~IsLeaf(m)} :
             /\ Usage(n.op) # "pre" =>
                  \A m \in RightSpine(n.kids[1], groups) : TighterOnLeft(m, n.op)
             /\ \A i \in (IF Usage(n.op) = "pre" THEN 1 ELSE 2) .. Len(n.kids) :
                  n.op # "FCALL" =>
                    \A m \in LeftSpine(n.kids[i], groups) : TighterOnRight(m, n.op)

\* Run-time arithmetic, which folding must agree with: division truncates and
\* the remainder has the sign of what is divided; order is that of signed words.
Computed(o, v1, v2) ==
  LET s1 == Signed(v1)
      s2 == Signed(v2)
  IN  CASE o = "PLUS"       -> (v1 + v2) % Word
        [] o = "MINUS"      -> (Word + v1 - v2) % Word
        [] o = "TIMES"      -> (v1 * v2) % Word
        [] o = "DIVIDE"     -> (CHOOSE q \in -Word .. Word : \E r \in -Word .. Word :
                                  /\ s1 = q * s2 + r /\ AbsValue(r) < AbsValue(s2)
                                  /\ r # 0 => (r < 0) = (s1 < 0)) % Word
        [] o = "REMAINDER"  -> (CHOOSE r \in -Word .. Word : \E q \in -Word .. Word :
                                  /\ s1 = q * s2 + r /\ AbsValue(r) < AbsValue(s2)
                                  /\ r # 0 => (r < 0) = (s1 < 0)) % Word
        [] o = "CONDEQUALS" -> Truth(v1 = v2)
        [] o = "GREATER"    -> Truth(s1 > s2)
        [] o = "LOGAND"     -> Truth(v1 # 0 /\ v2 # 0)
        [] OTHER            -> Truth(v1 # 0 \/ v2 # 0)

\* The value of a tree of constants with nothing folded.  In Z-code the order
\* of constants is folded as that of unsigned words, and is left out.
RECURSIVE Value(_)
Value(t) ==
  IF IsLeaf(t) THEN t.val.value
  ELSE IF t.op = "UNARY_MINUS" THEN (Word - Value(t.kids[1])) % Word
  ELSE Computed(t.op, Value(t.kids[1]), Value(t.kids[2]))

ConstantOps == {"PLUS", "MINUS", "TIMES", "DIVIDE", "REMAINDER", "CONDEQUALS",
                "LOGAND", "LOGOR", "UNARY_MINUS"}
                 \cup (IF source.glulx THEN {"GREATER"} ELSE {})

\* What constants are folded into is what the code would have computed.
FoldsAsRun ==
  Parsed /\ IsConstant(result.tree)
    /\ (\A n \in Subtrees(result.src) : n.op \in ConstantOps \/ IsKnown(n))
  => result.tree.val.value = Value(result.src)

\* A text that is an expression: operands and operators take turns, brackets
\* match, a system function is called, a comma stands where one is allowed.
\* After x++ a minus is read as a sign and a bracket as a new expression.
RECURSIVE Reads(_, _, _)
Reads(i, wanted, open) ==
  LET s    == Lexeme(i)
      term == s \in DOMAIN Terms
      post == i > 1 /\ ~wanted /\ source.text[i - 1] \in {"++", "--"}
  IN  IF i > Len(source.text) THEN ~wanted /\ open = <<>>
      ELSE IF s = ")" THEN
        /\ open # <<>>
        /\ wanted => Last(open) = "call" /\ source.text[i - 1] = "("
        /\ Reads(i + 1, FALSE, Front(open))
      ELSE IF wanted THEN
        \/ s = "(" /\ Reads(i + 1, TRUE, Append(open, "group"))
        \/ s \in {"-", "++", "--", "~", "~~"} /\ Reads(i + 1, TRUE, open)
        \/ /\ term /\ (Terms[s].type = "sysfun" => Lexeme(i + 1) = "(")
           /\ Reads(i + 1, FALSE, open)
      ELSE
        \/ s = "(" /\ ~post /\ Reads(i + 1, TRUE, Append(open, "call"))
        \/ s \in {"++", "--"} /\ ~post /\ Reads(i + 1, FALSE, open)
        \/ /\ s \in DOMAIN SeparatorsToOperators \ {"~", "~~", "++", "--", "or"}
           /\ s = "," => open # <<>> \/ CommaAllowed
           /\ ~(s = "-" /\ post)
           /\ Reads(i + 1, TRUE, open)

WellFormed == source.context \in {"VOID", "QUANTITY", "CONDITION"} /\ Reads(1, TRUE, <<>>)

StructuralErrors == {"Missing operand", "Missing operator", "No expression",
  "Unmatched bracket", "expression expected", "internal: marker",
  "internal: bracket layer", "internal: overfull"}

\* An expression is read to its end, and what is wrong with it, if anything,
\* is not its structure: the emitter's marks and bracket counts, which know
\* nothing of the text, leave exactly one tree.
WellFormedAccepted ==
  WellFormed /\ status \in {"done", "undefined"} =>
    /\ status = "done"
    /\ lexer.at = Len(source.text) + 1
    /\ \A i \in DOMAIN errors : errors[i] \notin StructuralErrors

\* What is well formed is read, and what is read is what the grammar says.
ParsedAsWritten == ParseRespectsGrammar /\ WellFormedAccepted

\* Whatever the text, the parser comes to an end: a token put back with an
\* operator inserted before it is not put back again for ever.
ParsingEnds == <>(status \in {"done", "undefined"})

Spec == Init /\ [][Next]_vars /\ WF_vars(Next)
==============================================================================
