----------------------------- MODULE MCExpression -----------------------------
(* The expression parser on every text of up to four lexemes over three      *)
(* alphabets, where most are malformed, and on longer ones of the forms that *)
(* pit operators against each other; the code generators on these and on     *)
(* each operator, with operands that are variables, constants, or computed.  *)
EXTENDS ExpressionCode

MCTerms ==
  "x" :> Operand("local", 1, "none") @@ "g" :> Operand("global", 16, "none") @@
  "f" :> Operand("const", 3, "routine")  @@ "p" :> Operand("const", 5, "none") @@
  "q" :> Operand("const", 12, "property") @@ "o" :> Operand("const", 6, "object") @@
  "2" :> Operand("const", 2, "none") @@ "7" :> Operand("const", 7, "none") @@
  "9" :> Operand("const", 9, "none") @@ "0" :> Operand("const", 0, "none") @@
  "bytes" :> Operand("const", 1, "array") @@ "words" :> Operand("const", 4, "array") @@
  "string" :> Operand("const", 8, "array") @@ "table" :> Operand("const", 14, "array") @@
  [f \in {"parent", "child", "sibling", "children", "youngest", "elder", "random",
          "indirect", "metaclass", "glk"} |-> Operand("sysfun", f, "none")]

\* Objects 1 to 4 are the metaclasses and 11 is a class; 5 holds 6, 7 and 8,
\* and 7 holds 9.
MCParent  == <<0, 1, 1, 1, 0, 5, 5, 5, 7, 0, 1>>
MCChild   == <<2, 0, 0, 0, 6, 0, 9, 0, 0, 0, 0>>
MCSibling == <<0, 3, 4, 11, 0, 7, 8, 0, 0, 0, 0>>
MCArrays  == 1 :> [type |-> "byte", size |-> 5] @@ 4 :> [type |-> "word", size |-> 1] @@
             8 :> [type |-> "string", size |-> 4] @@ 14 :> [type |-> "table", size |-> 1]

Start0(x, g, seed) ==
  Machine(1 :> x @@ 16 :> g @@ [v \in {-1, -2, -3} |-> 21], [a \in 0 .. Word - 1 |-> (a + 3) % Word],
          <<5, 5>> :> 9 @@ <<5, 12>> :> 2 @@ <<7, 5>> :> 0 @@ <<8, 12>> :> 31, seed)
MCMachines == {Start0(5, 0, 1), Start0(7, 5, 0), Start0(0, 1, 6), Start0(11, 31, 3)}

UpTo(n, alphabet) == UNION {[1..k -> alphabet] : k \in 0..n}
In(context, glulx, texts) == {[context |-> context, glulx |-> glulx, text |-> t] : t \in texts}

Infix == {"=", "&&", "==", "has", "+", "*", "->", ".", ".&"}
Between == {<<"x", a, "g", b, "f">> : a \in Infix, b \in Infix}
Signed3 == {<<a, "x", b, c, "g">> : a \in {"-", "~~", "++"}, b \in {"+", "==", "."}, c \in {"-", "~~", "--"}}
Suffix  == {<<"x", a, "g", b>> \o c : a \in Infix, b \in {"++", "("}, c \in {<<>>, <<")">>, <<"7", ")">>}}
Bracket == {<<"(", "x", a, "g", ")", b, "f">> : a \in Infix, b \in Infix}
Calls2  == {<<"f", "(">> \o a \o <<",">> \o b \o <<")">> \o c :
              a \in {<<>>, <<"x">>, <<"parent", "(", "x", ")">>, <<"x", "=", "g">>},
              b \in {<<"7">>, <<"f", "(", ")">>, <<"(", "x", ",", "g", ")">>},
              c \in {<<>>, <<"(", "x", ",", "7", ")">>, <<".", "p">>, <<"+", "x">>}}
Alternatives == {<<"x", a, "g", "or", "f", b, "7">> : a \in {"==", "has", "+"}, b \in {"or", "&&", "+", "=="}}
Folding == {<<a, o, b, q, "2">> : a \in {"0", "2", "9"}, b \in {"7", "9", "0"},
              o \in {"+", "-", "*", "/", "%", "==", ">", "&&"}, q \in {"-", "/", "%", "||"}}
            \cup {<<"-", a, o>> \o b : a \in {"9", "7"}, o \in {"+", "*", "/", "%"},
                   b \in {<<"2">>, <<"-", "2">>, <<"7">>, <<"-", "7">>}}
Endings == {<<"(", "x", ")", "(", "g", ")", ")">>, <<"x", ",", "g">>, <<"x", ">", ">">>,
            <<"x", "::", "g">>, <<"x", "->", "g">>, <<"-", "x", "-", "2">>,
            <<"(", "x", "++", "(", "g", ")", ")", ")">>, <<"(", "x", "(", "g", ")", ")", ")">>}

\* What each operator is applied to, when code is generated for it.
Called  == <<"f", "(", ")">>
Brought == {<<"x">>, Called, <<"(", "g", "=", "f", "(", "x", ")", ")">>}
Taken   == {<<"g">>, <<"0">>, <<"p">>, <<"q">>, Called, <<"(", "x", "=", "2", ")">>}
Operations == {"-", "/", "%", "&", "-->", ".", ".&", ".#", "::", "<", "hasnt", "in", "provides", ",", "||"}
Operated == {a \o <<o>> \o b : a \in Brought, b \in Taken, o \in Operations}

Places == {a \o b : a \in {<<"x">>, <<"g", ".", "p">>}, b \in {<<>>}}
            \cup {a \o <<o>> \o b : a \in {<<"x">>, Called}, o \in {"->", "-->", "."},
                                    b \in {<<"q">>, <<"p">>, Called}}
            \cup {a \o <<o>> \o b : a \in {<<"bytes">>, <<"words">>, <<"string">>, <<"table">>},
                                    o \in {"->", "-->"}, b \in {<<"x">>, <<"g">>, <<"2">>, Called}}
Assigned == {a \o b : a \in Places, b \in {<<>>, <<"=", "7">>, <<"=">> \o Called, <<"++">>}}
              \cup {<<"--">> \o a : a \in Places}
              \cup {<<"x", "=">> \o a \o <<"++">> : a \in Places}

\* A value below on the stack, and what is done with it after.
Summed == {<<"(">> \o a \o <<")", "+">> \o Called : a \in Operated \cup Assigned}
Stored == {<<"g", "-", "(", "x", "=">> \o a \o <<")">> : a \in Operated}
Nested == {<<"(">> \o a \o <<"*">> \o b \o <<")", o, "(">> \o b \o <<"-">> \o a \o <<")">> :
             a \in Brought, b \in Taken, o \in {"-", "->", ".", "::", "=="}}

Object == {<<"x">>, <<"7">>, <<"o">>, Called}
System == {<<f, "(">> \o a \o <<")">> : a \in Object \cup {<<"0">>},
             f \in {"parent", "child", "sibling", "children", "youngest", "elder", "random", "metaclass"}}
            \cup {<<"x", "=", f, "(", "x", ")">> : f \in {"children", "elder", "random"}}
            \cup {<<"random", "(", "7", ",", "9", ",", "2", ")">>, <<"indirect", "(", "f", ",", "x", ")">>,
                  <<"f", "(", "x", ",", "g", ",", "7", ",", "f", "(", ")", ")">>,
                  <<"glk", "(", "x", ",", "7", ",", "f", "(", ")", ",", "g", ")">>,
                  <<"o", ".", "p", "(", "x", ",", "g", ",", "7", ")">>}

Tested == {c \o <<o>> \o a \o <<"or">> \o b : c \in {<<"x">>, Called}, o \in {"==", "<", "has", "notin", "ofclass"},
             a \in {<<"g">>, <<"0">>, Called}, b \in {<<"7">>, <<"o">>, Called}}
            \cup {<<"x", "~=", "g", "or", "0", "or", "7", "or", "2">>, Called \o <<"==", "g", "or", "0", "or", "7", "or", "2">>}
Joined == {a \o <<o>> \o b \o <<p>> \o Called : a \in {<<"x">>, <<"~~", "g">>, <<"x", "has", "7">>},
             b \in {<<"g">>, <<"x", "in", "g">>, <<"(", "x", "==", "2", "or", "p", ")">>},
             o \in {"&&", "||"}, p \in {"&&", "||", "-"}}
Negated == {<<"~~", "(">> \o a \o <<")">> : a \in Joined \cup Tested}

MCTexts ==
  In("QUANTITY", FALSE, UpTo(4, {"x", "(", ")", "-", "++"}) \cup Between \cup Suffix)
  \cup In("VOID", TRUE, UpTo(4, {"f", "(", ")", ",", "="}) \cup Calls2 \cup Between)
  \cup In("CONDITION", FALSE, UpTo(4, {"x", "==", "or", "&&", "~~"}) \cup Alternatives \cup Bracket)
  \cup In("CONDITION", TRUE, Signed3 \cup Bracket)
  \cup In("CONSTANT", TRUE, Folding) \cup In("CONSTANT", FALSE, Folding)
  \cup UNION {In(c, FALSE, Endings) : c \in {"QUANTITY", "ARRAY", "ACTION_Q", "FORINIT", "ASSEMBLY"}}
  \cup UNION {In("QUANTITY", b, Summed \cup Stored \cup Nested \cup System \cup Joined)
              \cup In("VOID", b, Operated \cup Assigned \cup System)
              \cup In("CONDITION", b, Operated \cup Tested \cup Joined \cup Negated) : b \in BOOLEAN}
==============================================================================
