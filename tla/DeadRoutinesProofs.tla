------------------------- MODULE DeadRoutinesProofs -------------------------
(***************************************************************************)
(* For any program and either target: the addresses the story file holds   *)
(* are those of the routines meant, and the output pass puts every operand *)
(* where its routine went.                                                 *)
(*                                                                         *)
(* The inductive invariant, DeadInv, has one part per part of the state,   *)
(* each an operator of the values it relates, so that a step is shown to   *)
(* keep a part without the variables around it.  SourceInv says what the   *)
(* parse has built: functions that tile the code area, symbols that follow *)
(* the functions, operands that stand inside a function WHICH HAS NOTED    *)
(* whom they name.  StageInv says what the later stages have made of it:   *)
(* the marks cover what marked functions mention, a new address is the     *)
(* size of what is kept before it, and the output has come to a place of   *)
(* one function, whose new address is where it writes.                     *)
(***************************************************************************)
EXTENDS DeadRoutines, SequenceTheorems, TLAPS

\* Division with remainder.
LEMMA Division ==
  ASSUME NEW n \in Nat, NEW b \in Nat \ {0}
  PROVE  /\ n \div b \in Nat /\ n % b \in 0 .. b - 1
         /\ n = b * (n \div b) + (n % b)
OBVIOUS

\* A multiple leaves no remainder.
LEMMA Multiple ==
  ASSUME NEW q \in Nat, NEW b \in Nat \ {0}
  PROVE  q * b \in Nat /\ (q * b) % b = 0
<1>1. q * b \in Nat
  OBVIOUS
<1> DEFINE n == q * b
           d == n \div b
           r == n % b
<1>2. d \in Nat /\ r \in 0 .. b - 1 /\ n = b * d + r
  BY <1>1, Division
<1>3. b * (q - d) = r
  <2>1. b * q = b * d + r
    BY <1>2
  <2> HIDE DEF d, r
  <2> QED BY <2>1, <1>2
<1> HIDE DEF d, r
<1>4. q - d = 0
  <2>1. CASE q - d >= 1
    <3>1. b * (q - d) >= b
      BY <1>2, <2>1
    <3> QED BY <3>1, <1>2, <1>3
  <2>2. CASE q - d <= -1
    <3>1. b * (q - d) <= -b
      BY <1>2, <2>2
    <3> QED BY <3>1, <1>2, <1>3
  <2> QED BY <1>2, <2>1, <2>2
<1> QED
  BY <1>1, <1>3, <1>4, <1>2 DEF r

\* Aligning rounds up, to a packed address.
LEMMA AlignFacts ==
  ASSUME NEW n \in Nat, glulx \in BOOLEAN
  PROVE  Align(n) \in Nat /\ Align(n) >= n /\ (glulx \/ Align(n) % Scale = 0)
<1>1. Scale \in Nat \ {0}
  BY DeadAssumption
<1>2. CASE glulx
  BY <1>2 DEF Align
<1>3. CASE ~glulx
  <2> DEFINE m == n + Scale - 1
             q == m \div Scale
  <2>1. m \in Nat
    BY <1>1
  <2>2. q \in Nat /\ m % Scale \in 0 .. Scale - 1 /\ m = Scale * q + (m % Scale)
    BY <1>1, <2>1, Division
  <2>3. Align(n) = q * Scale
    BY <1>3 DEF Align
  <2>4. q * Scale \in Nat /\ (q * Scale) % Scale = 0
    BY <1>1, <2>2, Multiple
  <2>5. q * Scale >= n
    <3> DEFINE t == Scale * q
    <3>1. t = q * Scale /\ t \in Int
      BY <1>1, <2>2
    <3>2. m = t + (m % Scale) /\ m % Scale <= Scale - 1
      BY <2>2
    <3> HIDE DEF t
    <3> QED BY <1>1, <2>2, <3>1, <3>2
  <2> QED BY <1>3, <2>3, <2>4, <2>5
<1> QED
  BY <1>2, <1>3

\* Packed addresses can be added ...
LEMMA SumAligned ==
  ASSUME NEW a \in Nat, NEW c \in Nat, NEW b \in Nat \ {0}, a % b = 0, c % b = 0
  PROVE  (a + c) % b = 0
<1>1. a = b * (a \div b) /\ a \div b \in Nat
  BY Division
<1>2. c = b * (c \div b) /\ c \div b \in Nat
  BY Division
<1> DEFINE x == a \div b
           y == c \div b
<1>3. a + c = (x + y) * b
  BY <1>1, <1>2
<1>4. x + y \in Nat
  BY <1>1, <1>2
<1> QED
  BY <1>3, <1>4, Multiple

\* ... and subtracted.
LEMMA DifferenceAligned ==
  ASSUME NEW a \in Nat, NEW c \in Nat, NEW b \in Nat \ {0}, a % b = 0, c % b = 0, a <= c
  PROVE  (c - a) % b = 0
<1>1. a = b * (a \div b) /\ a \div b \in Nat
  BY Division
<1>2. c = b * (c \div b) /\ c \div b \in Nat
  BY Division
<1> DEFINE x == a \div b
           y == c \div b
<1>3. c - a = (y - x) * b
  BY <1>1, <1>2
<1>4. y - x \in Nat
  <2> HIDE DEF x, y
  <2>1. SUFFICES ASSUME y - x <= -1 PROVE FALSE
    BY <1>1, <1>2 DEF x, y
  <2>2. (y - x) * b <= -b
    BY <1>1, <1>2, <2>1 DEF x, y
  <2> QED BY <1>3, <2>2
<1> QED
  BY <1>3, <1>4, Multiple

(* The reader finds every position again that lies less than a bank ahead. *)
LEMMA LapsRight ==
  ASSUME NEW at \in Nat, NEW j \in Nat, ~glulx, j <= at, at - j < Bank
  PROVE  Laps(at % (Banks * Bank), j) = at \div (Banks * Bank)
<1> DEFINE b == Bank
           m == Banks
           big == m * b
           q == at \div big
           r == at % big
           Near(n) == r + n * m * b + (m - 1) * b >= j
           Good(n) == Near(n) /\ \A k \in 0 .. (n - 1) : r + k * m * b + (m - 1) * b < j
           N == 0 .. (j \div big + 1)
<1>0. b \in Nat \ {0} /\ m \in Nat \ {0} /\ at - j < b
  BY DeadAssumption
<1> HIDE DEF b, m
<1>1. big \in Nat \ {0} /\ b <= big /\ (m - 1) * b = big - b
  BY <1>0
<1>2. q \in Nat /\ r \in 0 .. big - 1 /\ at = big * q + r
  BY <1>1, Division
<1>3. \A n \in Nat : /\ Near(n) <=> r + n * big + (big - b) >= j
                     /\ ~Near(n) <=> r + n * m * b + (m - 1) * b < j
  BY <1>0, <1>1, <1>2
<1>4. \A n \in Nat : n < q => n * big <= q * big - big
  <2> TAKE n \in Nat
  <2> HAVE n < q
  <2> HIDE DEF big, q
  <2>1. (q - n) * big >= big
    BY <1>1, <1>2
  <2>2. (q - n) * big = q * big - n * big
    BY <1>1, <1>2
  <2> DEFINE a == n * big
             c == q * big
             d == (q - n) * big
  <2>3. a \in Int /\ c \in Int /\ d = c - a /\ d >= big
    BY <1>1, <1>2, <2>1, <2>2
  <2> HIDE DEF a, c, d
  <2>4. a <= c - big
    BY <1>1, <2>3
  <2> QED BY <2>4 DEF a, c
<1>5. \A n \in Nat : n < q => ~Near(n)
  <2> TAKE n \in Nat
  <2> HAVE n < q
  <2> DEFINE a == n * big
             c == q * big
  <2> HIDE DEF big, q, r, Near
  <2>1. /\ a \in Int /\ c \in Int /\ a <= c - big /\ at = c + r
    <3>1. a <= c - big
      BY ONLY <1>4, n \in Nat, n < q
    <3>2. a \in Int /\ c \in Int
      BY ONLY <1>1, <1>2, n \in Nat
    <3>3. big * q = c
      BY ONLY <1>1, <1>2
    <3>4. at = big * q + r
      BY ONLY <1>2
    <3> HIDE DEF a, c
    <3> QED BY ONLY <3>1, <3>2, <3>3, <3>4
  <2> HIDE DEF a, c
  <2>2. ~(r + a + (big - b) >= j)
    BY <1>0, <1>1, <1>2, <2>1
  <2> QED BY <1>3, <2>2 DEF a
<1>6. Near(q)
  <2> DEFINE c == q * big
  <2> HIDE DEF big, q, r, Near
  <2>1. c \in Int /\ at = c + r
    <3>1. c \in Int
      BY ONLY <1>1, <1>2
    <3>2. big * q = c
      BY ONLY <1>1, <1>2
    <3>3. at = big * q + r
      BY ONLY <1>2
    <3> HIDE DEF c
    <3> QED BY ONLY <3>1, <3>2, <3>3
  <2> HIDE DEF c
  <2>2. r + c + (big - b) >= j
    BY <1>0, <1>1, <1>2, <2>1
  <2> QED BY <1>2, <1>3, <2>2 DEF c
<1>7. q \in N
  <2> DEFINE p == j \div big
             s == j % big
  <2>1. p \in Nat /\ s \in 0 .. big - 1 /\ j = big * p + s
    BY <1>1, Division
  <2>2. SUFFICES ASSUME q >= p + 2 PROVE FALSE
    BY <1>2, <2>1
  <2> HIDE DEF p, s, q, r, big
  <2>3. (q - p - 2) * big >= 0
    BY <1>1, <1>2, <2>1, <2>2
  <2> DEFINE c == big * q
             d == big * p
  <2>4. c \in Int /\ d \in Int /\ c - d - 2 * big >= 0
    BY <1>1, <1>2, <2>1, <2>3
  <2>5. at = c + r /\ j = d + s
    BY <1>2, <2>1
  <2> HIDE DEF c, d
  <2> QED BY <1>0, <1>1, <1>2, <2>1, <2>4, <2>5
<1>8. Good(q)
  <2> HIDE DEF Near, q
  <2> QED BY <1>2, <1>3, <1>5, <1>6
<1>9. ASSUME NEW n \in N, Good(n) PROVE n = q
  <2>1. n \in Nat
    BY <1>1, Division
  <2> HIDE DEF Near, q, N
  <2> QED BY <1>2, <1>3, <1>5, <1>6, <1>9, <2>1
<1>10. (CHOOSE n \in N : Good(n)) = q
  <2> HIDE DEF Good, q, N
  <2> QED BY <1>7, <1>8, <1>9
<1> QED
  BY <1>10 DEF Laps, b, m

\* An entry of the backpatch table is read as it was written (bpatch.c, files.c).
LEMMA Decoded ==
  ASSUME NEW at \in Nat, NEW j \in Nat, glulx \in BOOLEAN, j <= at, at - j < Bank
  PROVE  Decode(Encode(at), j).offset = at /\ ~Decode(Encode(at), j).short
<1> DEFINE big == Banks * Bank
           q == at \div big
           r == at % big
           e == Encode(at)
<1> SUFFICES Decode(e, j).offset = at /\ ~Decode(e, j).short
  OBVIOUS
<1>1. Banks \in Nat \ {0} /\ Bank \in Nat \ {0} /\ big \in Nat \ {0}
  BY DeadAssumption
<1>2. /\ Decode(e, j).offset = e.offset + Laps(e.offset, j) * Banks * Bank
      /\ Decode(e, j).short <=> IF Laps(e.offset, j) % 2 = 1 THEN ~e.short ELSE e.short
  BY DEF Decode
<1>3. CASE glulx
  <2>1. \A o : Laps(o, j) = 0
    BY <1>3 DEF Laps
  <2>2. e.offset = at /\ ~e.short
    BY <1>3 DEF Encode
  <2>3. 0 % 2 = 0 /\ 0 * Banks * Bank = 0 /\ at + 0 = at
    BY <1>1
  <2> HIDE DEF e
  <2> QED BY <1>2, <2>1, <2>2, <2>3
<1>4. CASE ~glulx
  <2>1. q \in Nat /\ r \in Nat /\ at = big * q + r
    <3> HIDE DEF big
    <3> QED BY <1>1, Division
  <2>2. Laps(r, j) = q
    BY <1>4, LapsRight
  <2>3. e.offset = r /\ (e.short <=> q % 2 = 1)
    BY <1>4 DEF Encode
  <2> HIDE DEF e, q, r
  <2>4. r + q * Banks * Bank = at
    <3>1. q * Banks * Bank = big * q
      BY <1>1, <2>1
    <3> HIDE DEF big
    <3> QED BY <1>1, <2>1, <3>1
  <2> QED BY <1>2, <2>2, <2>3, <2>4
<1> QED
  BY <1>3, <1>4

-----------------------------------------------------------------------------
(* What the parse has made of the source, part by part.                    *)

FuncRecord == [at : Nat, len : Nat, refs : SUBSET Syms, embedded : BOOLEAN,
               name : Syms \cup {NoSym}]
CodeOperand == [at : Nat, marker : {"routine", "symbol", "main"}, value : Nat \cup Syms, of : Syms]
TokenRecord == [value : Nat, of : Syms]
Aheads == {NoToken} \cup [sym : Syms, context : {"statement", "expression"}]
CurrentRecord ==
  [sym : Syms \cup {NoSym}, at : Nat, refs : SUBSET Syms, reach : BOOLEAN,
   ahead : Aheads, count : Nat, embedded : BOOLEAN]

\* The functions fs lie one behind the other from 0 to end.
Tiled(fs, end) ==
  /\ fs \in Seq(FuncRecord) /\ Len(fs) >= 1 /\ end \in Nat
  /\ fs[1].at = 0 /\ fs[1].name = NoSym
  /\ \A i \in 1 .. Len(fs) : fs[i].len > 0 /\ fs[i].at + fs[i].len <= end
  /\ \A i, k \in 1 .. Len(fs) : i < k => fs[i].at + fs[i].len <= fs[k].at
  /\ \A i \in 1 .. Len(fs) - 1 : fs[i + 1].at = fs[i].at + fs[i].len
  /\ end = fs[Len(fs)].at + fs[Len(fs)].len

\* On the Z-machine they lie at packed addresses.
Packed(fs, end) ==
  /\ \A i \in 1 .. Len(fs) : fs[i].at % Scale = 0 /\ fs[i].len % Scale = 0
  /\ end % Scale = 0

\* x is the last, or the first, of the functions of that name.
IsLast(fs, s, k)  == /\ k \in 1 .. Len(fs) /\ fs[k].name = s
                     /\ \A m \in 1 .. Len(fs) : fs[m].name = s => m <= k
IsFirst(fs, s, k) == /\ k \in 1 .. Len(fs) /\ fs[k].name = s
                     /\ \A m \in 1 .. Len(fs) : fs[m].name = s => k <= m
Defined(fs, s)    == \E i \in 1 .. Len(fs) : fs[i].name = s

\* A routine symbol has the address of a function: of the last one of its
\* name, or, if it has none, of the first one of the name it was replaced by.
Symbols(sy, fs) ==
  /\ sy \in [Syms -> SymRecord]
  /\ \A s \in Syms :
       /\ sy[s].type = "routine" =>
            /\ sy[s].value > 0
            /\ \E i \in 1 .. Len(fs) : fs[i].at = sy[s].value
            /\ Defined(fs, s) \/ \E x \in Syms : sy[x].orig = s /\ Defined(fs, x)
       /\ sy[s].type # "routine" => sy[s].value = 0 /\ ~Defined(fs, s)
       /\ Defined(fs, s) => \E k \in 1 .. Len(fs) : IsLast(fs, s, k) /\ fs[k].at = sy[s].value
       /\ sy[s].orig # NoSym =>
            /\ sy[s].orig # s /\ sy[s].replaced /\ sy[sy[s].orig].type # "unknown"
            /\ Defined(fs, s) /\ ~Defined(fs, sy[s].orig) =>
                 \E k \in 1 .. Len(fs) : IsFirst(fs, s, k) /\ fs[k].at = sy[sy[s].orig].value
  /\ \A s, x \in Syms : sy[s].orig # NoSym /\ sy[s].orig = sy[x].orig => s = x

\* The address of s is final.
Fixed(sy, s, v) == sy[s].type = "routine" /\ ~sy[s].replaced /\ sy[s].value = v

\* An operand or a datum o holds what becomes the address of s.
Stands(sy, o, s) ==
  IF o.marker = "routine" THEN Fixed(sy, s, o.value) ELSE o.value = s

\* The routine being compiled starts where the functions end.
Open(sy, cu, p) ==
  /\ cu \in CurrentRecord /\ p \in Nat
  /\ cu.at > 0 => /\ p >= cu.at + HeaderLength
                  /\ IF cu.embedded THEN cu.sym = NoSym
                     ELSE /\ cu.sym \in Syms
                          /\ sy[cu.sym].type = "unknown" \/ (sy[cu.sym].type = "routine" /\ sy[cu.sym].replaced)

End(cu, p) == IF cu.at > 0 THEN cu.at ELSE p

\* The operand o lies in the function f, which has noted whom it names.
Inside(f, o) ==
  /\ f.at < o.at /\ o.at + OperandSize <= f.at + f.len
  /\ o.of \in f.refs \/ (f.at = 0 /\ o.of = MainSym)

Placed(ops, fs, cu, p) ==
  \A i \in 1 .. Len(ops) :
    \/ /\ cu.at > 0 /\ cu.at < ops[i].at /\ ops[i].at + OperandSize <= p
       /\ ops[i].of \in cu.refs
    \/ \E f \in 1 .. Len(fs) : Inside(fs[f], ops[i])

Spaced(ops, p) ==
  /\ ops \in Seq(CodeOperand) /\ Len(ops) >= 1
  /\ ops[1].at \in 1 .. Bank - 1
  /\ \A i \in 1 .. Len(ops) - 1 :
       /\ ops[i].at + OperandSize <= ops[i + 1].at
       /\ ops[i + 1].at - (ops[i].at + OperandSize) < Bank
  /\ ops[Len(ops)].at + OperandSize <= p

Standing(sy, ops) == \A i \in 1 .. Len(ops) : Stands(sy, ops[i], ops[i].of)

Statics(sy, fs, gl, da, to) ==
  /\ gl \subseteq Syms
  /\ da \in Seq(OperandRecord) /\ to \in Seq(TokenRecord)
  /\ \A i \in 1 .. Len(da) :
       IF da[i].of = NoSym
       THEN /\ da[i].marker = "routine"
            /\ \E f \in 1 .. Len(fs) : fs[f].embedded /\ fs[f].at = da[i].value
       ELSE da[i].of \in gl /\ Stands(sy, da[i], da[i].of)
  /\ \A i \in 1 .. Len(to) : to[i].of \in gl /\ Fixed(sy, to[i].of, to[i].value)

Parsed(g, sy, fs, gl, cu, p, ops, da, to, as) ==
  /\ g \in BOOLEAN /\ as \subseteq Syms
  /\ Tiled(fs, End(cu, p)) /\ (~g => Packed(fs, End(cu, p)))
  /\ Symbols(sy, fs) /\ Open(sy, cu, p)
  /\ Placed(ops, fs, cu, p) /\ Spaced(ops, p) /\ Standing(sy, ops)
  /\ Statics(sy, fs, gl, da, to)

-----------------------------------------------------------------------------
(* What the search, the measuring and the output keep.                     *)

\* us holds every function that a name of refs stands for.
Covers(sy, fs, refs, us) ==
  \A s \in refs, i \in 1 .. Len(fs) : sy[s].type = "routine" /\ fs[i].at = sy[s].value => i \in us

\* The functions us are found to be used, those of td still to be processed.
Marked(sy, fs, gl, us, td) ==
  /\ us \subseteq 1 .. Len(fs) /\ td \subseteq us /\ 1 \in us
  /\ \A i \in 1 .. Len(fs) : fs[i].embedded => i \in us
  /\ Covers(sy, fs, gl \cup {MainSym}, us)
  /\ \A f \in us \ td : Covers(sy, fs, fs[f].refs, us)

\* The used functions among the first n take v bytes.
SizeAt(fs, us, na, n, v) ==
  \E k \in us : /\ k <= n /\ \A m \in us : m <= n => m <= k
                /\ v = na[k] + fs[k].len

\* The functions of na have their new addresses, to.after behind them.
Measured(g, fs, us, na, to) ==
  /\ na \in Seq(Nat) /\ Len(na) <= Len(fs)
  /\ to \in [before : Nat, after : Nat]
  /\ ~g => to.after % Scale = 0
  /\ IF Len(na) = 0 THEN to.before = 0 /\ to.after = 0
     ELSE /\ to.before = fs[Len(na)].at + fs[Len(na)].len
          /\ SizeAt(fs, us, na, Len(na), to.after)
          /\ na[1] = 0
  /\ \A k \in us : k <= Len(na) /\ k > 1 => SizeAt(fs, us, na, k - 1, na[k])

StartOut == [j |-> 0, size |-> 0, next |-> 0, use |-> TRUE, func |-> 1, patch |-> 1, placed |-> <<>>]
OutRecord == [j : Nat, size : Nat, next : Nat, use : BOOLEAN, func : Nat, patch : Nat,
              placed : Seq([at : Nat, patch : Nat, value : Nat])]

\* The output o has come to a place in the function k ...
Within(fs, us, na, o, k) ==
  /\ o.func = k + 1
  /\ fs[k].at <= o.j /\ o.j <= o.next /\ o.next = fs[k].at + fs[k].len
  /\ o.use <=> k \in us
  /\ IF k \in us THEN o.size = na[k] + (o.j - fs[k].at) ELSE SizeAt(fs, us, na, k, o.size)

\* ... or stands before the first function or behind the last.
Reading(fs, us, na, ops, p, o) ==
  \/ o = StartOut
  \/ \E k \in 1 .. Len(fs) : Within(fs, us, na, o, k)
  \/ /\ o.func = Len(fs) + 1 /\ o.j = p /\ o.next = p + 1 /\ o.use
     /\ o.patch = Len(ops) + 1 /\ SizeAt(fs, us, na, Len(fs), o.size)

\* What df_stripped_address_for_address makes of an operand.
Final(sy, fs, na, o, v) ==
  LET a == IF o.marker = "routine" THEN o.value ELSE sy[o.value].value
  IN \A k \in 1 .. Len(fs) : fs[k].at = a => v = na[k]

Written1(sy, fs, us, na, ops, o) ==
  /\ \A x \in 1 .. Len(o.placed) :
       /\ o.placed[x].patch \in 1 .. o.patch - 1
       /\ Final(sy, fs, na, ops[o.placed[x].patch], o.placed[x].value)
       /\ \A f \in 1 .. Len(fs) : Inside(fs[f], ops[o.placed[x].patch]) =>
            f \in us /\ o.placed[x].at = na[f] + (ops[o.placed[x].patch].at - fs[f].at)
  /\ \A i \in 1 .. o.patch - 1, f \in us :
       Inside(fs[f], ops[i]) => \E x \in 1 .. Len(o.placed) : o.placed[x].patch = i

Copied(sy, fs, us, na, ops, p, o) ==
  /\ o \in OutRecord /\ o.patch \in 1 .. Len(ops) + 1 /\ o.j <= p
  /\ o.patch <= Len(ops) => o.j <= ops[o.patch].at /\ ops[o.patch].at - o.j < Bank
  /\ Reading(fs, us, na, ops, p, o)
  /\ Written1(sy, fs, us, na, ops, o)

SourceInv == Parsed(glulx, sym, funcs, globals, current, pc, operands, data, tokens, asked)

Fresh == used = {} /\ todo = {} /\ newaddr = <<>> /\ total = [before |-> 0, after |-> 0]

Noted(sy, gl, as) == \A s \in as : sy[s].type = "routine" /\ s \in gl

StageInv ==
  /\ stage \in {"parse", "mark", "search", "output", "done"}
  /\ stage # "parse" => current.at = 0
  /\ stage = "parse" => err = {}
  /\ err \subseteq {"undefined"}
  /\ stage \in {"parse", "mark"} => Fresh
  /\ stage \in {"parse", "mark", "search"} => out = StartOut
  /\ stage # "parse" /\ err = {} => Noted(sym, globals, asked)
  /\ stage \in {"search", "output", "done"} =>
       /\ Noted(sym, globals, asked)
       /\ Marked(sym, funcs, globals, used, todo)
       /\ Measured(glulx, funcs, used, newaddr, total)
       /\ newaddr # <<>> => todo = {}
  /\ stage \in {"output", "done"} =>
       /\ Len(newaddr) = Len(funcs)
       /\ Copied(sym, funcs, used, newaddr, operands, pc, out)
  /\ stage = "done" => out.patch = Len(operands) + 1

DeadInv == SourceInv /\ StageInv

-----------------------------------------------------------------------------
(* What the parts keep.                                                    *)

\* The types of a tiling, and that only Main__ lies at 0.
LEMMA TiledFacts ==
  ASSUME NEW fs, NEW e, Tiled(fs, e)
  PROVE  /\ Len(fs) \in Nat \ {0} /\ e \in Nat \ {0}
         /\ \A i \in 1 .. Len(fs) : fs[i] \in FuncRecord /\ fs[i].at \in Nat /\ fs[i].len \in Nat \ {0}
         /\ \A i \in 1 .. Len(fs) : fs[i].name # NoSym => fs[i].at > 0
<1>1. Len(fs) \in Nat \ {0} /\ \A i \in 1 .. Len(fs) : fs[i] \in FuncRecord
  BY LenProperties, ElementOfSeq DEF Tiled
<1>2. \A i \in 1 .. Len(fs) : fs[i].at \in Nat /\ fs[i].len \in Nat \ {0}
  BY <1>1 DEF Tiled, FuncRecord
<1>3. e \in Nat \ {0}
  BY <1>1, <1>2 DEF Tiled
<1>4. ASSUME NEW i \in 1 .. Len(fs), fs[i].name # NoSym PROVE fs[i].at > 0
  <2>1. i # 1 /\ 1 \in 1 .. Len(fs) /\ 1 < i
    BY <1>1, <1>4 DEF Tiled
  <2>2. fs[1].at + fs[1].len <= fs[i].at
    BY <2>1 DEF Tiled
  <2> QED BY <1>2, <2>1, <2>2
<1> QED
  BY <1>1, <1>2, <1>3, <1>4

\* A function closed where the last one ended goes on with the tiling.
LEMMA TiledAppend ==
  ASSUME NEW fs, NEW e, Tiled(fs, e),
         NEW f \in FuncRecord, f.at = e, f.len > 0
  PROVE  /\ Tiled(Append(fs, f), e + f.len)
         /\ Packed(fs, e) /\ (e + f.len) % Scale = 0 => Packed(Append(fs, f), e + f.len)
<1> DEFINE gs == Append(fs, f)
           n == Len(fs)
<1>1. /\ fs \in Seq(FuncRecord) /\ n \in Nat \ {0} /\ e \in Nat
      /\ \A i \in 1 .. n : fs[i].at \in Nat /\ fs[i].len \in Nat
      /\ f.at \in Nat /\ f.len \in Nat
  BY TiledFacts DEF Tiled, FuncRecord
<1>2. /\ gs \in Seq(FuncRecord) /\ Len(gs) = n + 1 /\ gs[n + 1] = f
      /\ \A i \in 1 .. n : gs[i] = fs[i]
  BY <1>1, AppendProperties
<1>3. /\ fs[1].at = 0 /\ fs[1].name = NoSym
      /\ \A i \in 1 .. n : fs[i].len > 0 /\ fs[i].at + fs[i].len <= e
      /\ \A i, k \in 1 .. n : i < k => fs[i].at + fs[i].len <= fs[k].at
      /\ \A i \in 1 .. n - 1 : fs[i + 1].at = fs[i].at + fs[i].len
      /\ e = fs[n].at + fs[n].len
  BY DEF Tiled
<1> HIDE DEF gs, n
<1>4. gs[1].at = 0 /\ gs[1].name = NoSym
  BY <1>1, <1>2, <1>3
<1>5. \A i \in 1 .. n + 1 : gs[i].len > 0 /\ gs[i].at + gs[i].len <= e + f.len
  <2> TAKE i \in 1 .. n + 1
  <2>1. CASE i = n + 1
    BY <1>1, <1>2, <2>1
  <2>2. CASE i \in 1 .. n
    <3>1. /\ gs[i] = fs[i] /\ fs[i].len > 0 /\ fs[i].at + fs[i].len <= e
          /\ fs[i].at \in Nat /\ fs[i].len \in Nat
      BY <1>1, <1>2, <1>3, <2>2
    <3>2. f.len \in Nat /\ e \in Nat
      BY ONLY <1>1
    <3>3. fs[i].at + fs[i].len <= e + f.len
      BY ONLY <3>1, <3>2
    <3> QED BY ONLY <3>1, <3>3
  <2> QED BY <1>1, <2>1, <2>2
<1>6. \A i, k \in 1 .. n + 1 : i < k => gs[i].at + gs[i].len <= gs[k].at
  <2> TAKE i, k \in 1 .. n + 1
  <2> HAVE i < k
  <2>1. i \in 1 .. n
    BY <1>1
  <2>2. CASE k = n + 1
    BY <1>1, <1>2, <1>3, <2>1, <2>2
  <2>3. CASE k \in 1 .. n
    <3>1. gs[i] = fs[i] /\ gs[k] = fs[k]
      BY <1>2, <2>1, <2>3
    <3>2. fs[i].at + fs[i].len <= fs[k].at
      BY <1>3, <2>1, <2>3
    <3> QED BY ONLY <3>1, <3>2
  <2>4. k = n + 1 \/ k \in 1 .. n
    BY ONLY k \in 1 .. n + 1, <1>1
  <2> QED BY <2>2, <2>3, <2>4
<1>7. \A i \in 1 .. n : gs[i + 1].at = gs[i].at + gs[i].len
  <2> TAKE i \in 1 .. n
  <2>1. CASE i = n
    BY <1>1, <1>2, <1>3, <2>1
  <2>2. CASE i \in 1 .. n - 1
    <3>1. i + 1 \in 1 .. n
      BY <1>1, <2>2
    <3> QED BY <1>2, <1>3, <2>2, <3>1
  <2> QED BY <1>1, <2>1, <2>2
<1>8. e + f.len = gs[n + 1].at + gs[n + 1].len /\ e + f.len \in Nat
  BY <1>1, <1>2
<1>9. Tiled(gs, e + f.len)
  BY <1>1, <1>2, <1>4, <1>5, <1>6, <1>7, <1>8 DEF Tiled
<1>10. ASSUME Packed(fs, e), (e + f.len) % Scale = 0
       PROVE  Packed(gs, e + f.len)
  <2>1. e % Scale = 0 /\ \A i \in 1 .. n : fs[i].at % Scale = 0 /\ fs[i].len % Scale = 0
    BY <1>10 DEF Packed, n
  <2>2. f.len % Scale = 0
    <3> DEFINE c == e + f.len
    <3>1. c \in Nat /\ e <= c /\ c - e = f.len /\ c % Scale = 0
      BY <1>1, <1>10
    <3>2. Scale \in Nat \ {0}
      BY DeadAssumption
    <3> HIDE DEF c
    <3>3. (c - e) % Scale = 0
      BY <1>1, <2>1, <3>1, <3>2, DifferenceAligned
    <3> QED BY <3>1, <3>3
  <2>3. \A i \in 1 .. n + 1 : gs[i].at % Scale = 0 /\ gs[i].len % Scale = 0
    <3> TAKE i \in 1 .. n + 1
    <3>1. CASE i = n + 1
      BY <1>2, <2>1, <2>2, <3>1
    <3>2. CASE i \in 1 .. n
      BY <1>2, <2>1, <3>2
    <3> QED BY <1>1, <3>1, <3>2
  <2> QED BY <1>2, <1>10, <2>3 DEF Packed
<1> QED
  BY <1>9, <1>10 DEF gs

(* Functions appended keep what was said of names that they do not bear.   *)
LEMMA NamesAppend ==
  ASSUME NEW fs \in Seq(FuncRecord), NEW f \in FuncRecord, NEW s, f.name = s
  PROVE  /\ Len(Append(fs, f)) = Len(fs) + 1 /\ Append(fs, f)[Len(fs) + 1] = f /\ Len(fs) \in Nat
         /\ \A i \in 1 .. Len(fs) : Append(fs, f)[i] = fs[i]
         /\ \A x : Defined(Append(fs, f), x) <=> (Defined(fs, x) \/ x = s)
         /\ \A x, k : x # s => (IsLast(fs, x, k) => IsLast(Append(fs, f), x, k))
         /\ \A x, k : IsFirst(fs, x, k) => IsFirst(Append(fs, f), x, k)
         /\ IsLast(Append(fs, f), s, Len(fs) + 1)
         /\ ~Defined(fs, s) => IsFirst(Append(fs, f), s, Len(fs) + 1)
<1> DEFINE gs == Append(fs, f)
           n == Len(fs)
<1>1. n \in Nat /\ Len(gs) = n + 1 /\ gs[n + 1] = f /\ \A i \in 1 .. n : gs[i] = fs[i]
  BY LenProperties, AppendProperties
<1> HIDE DEF gs
<1>2. 1 .. Len(gs) = (1 .. n) \cup {n + 1} /\ \A i \in 1 .. n : i # n + 1 /\ i <= n + 1
  BY <1>1
<1>3. \A x : Defined(gs, x) <=> (Defined(fs, x) \/ x = s)
  BY <1>1, <1>2 DEF Defined
<1>4. \A x, k : x # s => (IsLast(fs, x, k) => IsLast(gs, x, k))
  BY <1>1, <1>2 DEF IsLast
<1>5. \A x, k : IsFirst(fs, x, k) => IsFirst(gs, x, k)
  <2> TAKE x, k
  <2> HAVE IsFirst(fs, x, k)
  <2>1. k \in 1 .. n /\ fs[k].name = x /\ \A m \in 1 .. n : fs[m].name = x => k <= m
    BY DEF IsFirst
  <2>2. k \in 1 .. Len(gs) /\ gs[k].name = x /\ k <= n + 1
    BY <1>1, <1>2, <2>1
  <2>3. \A m \in 1 .. Len(gs) : gs[m].name = x => k <= m
    BY <1>1, <1>2, <2>1, <2>2
  <2> QED BY <2>2, <2>3 DEF IsFirst
<1>6. IsLast(gs, s, n + 1)
  BY <1>1, <1>2 DEF IsLast
<1>7. ~Defined(fs, s) => IsFirst(gs, s, n + 1)
  BY <1>1, <1>2 DEF IsFirst, Defined
<1> QED
  BY <1>1, <1>3, <1>4, <1>5, <1>6, <1>7 DEF gs

\* The address of a name that means a routine is the routine's.
LEMMA NameAddress ==
  ASSUME NEW fs, NEW e, Tiled(fs, e), NEW sy, Symbols(sy, fs), NEW s \in Syms
  PROVE  /\ Defined(fs, s) => sy[s].value > 0 /\ sy[s].type = "routine"
         /\ sy[s].value \in Nat
<1>1. sy[s].value \in Nat /\ sy[s].type \in {"unknown", "zero", "routine"}
  BY DEF Symbols, SymRecord
<1>2. ASSUME Defined(fs, s) PROVE sy[s].value > 0 /\ sy[s].type = "routine"
  <2>1. sy[s].type = "routine"
    BY <1>1, <1>2 DEF Symbols
  <2> QED BY <2>1 DEF Symbols
<1> QED
  BY <1>1, <1>2

\* What defining s at addr makes of the symbols.
LEMMA DefineCases ==
  ASSUME NEW s \in Syms, NEW addr \in Nat, sym \in [Syms -> SymRecord], sym[s].orig # s
  PROVE  LET y == sym[s].orig
             d == DefineRoutine(s, addr)
             first == y # NoSym /\ sym[y].value = 0
         IN /\ d \in [Syms -> SymRecord]
            /\ d[s].type = "routine" /\ d[s].value = addr
            /\ \A x \in Syms : d[x].replaced = sym[x].replaced /\ d[x].orig = sym[x].orig
            /\ \A x \in Syms : x # s /\ ~(first /\ x = y) => d[x] = sym[x]
            /\ first /\ y \in Syms => d[y].type = "routine" /\ d[y].value = addr
<1> DEFINE y == sym[s].orig
           c == [sym EXCEPT ![s].type = "routine", ![s].value = addr]
<1>1. sym[s] \in SymRecord /\ y \in Syms \cup {NoSym}
  BY DEF SymRecord
<1>2. /\ c \in [Syms -> SymRecord]
      /\ c[s].type = "routine" /\ c[s].value = addr
      /\ \A x \in Syms : c[x].replaced = sym[x].replaced /\ c[x].orig = sym[x].orig
      /\ \A x \in Syms : x # s => c[x] = sym[x]
  BY <1>1 DEF SymRecord
<1> HIDE DEF c
<1>3. DefineRoutine(s, addr) =
        IF y # NoSym /\ sym[y].value = 0
        THEN [c EXCEPT ![y].type = "routine", ![y].value = addr] ELSE c
  BY DEF DefineRoutine, c
<1>4. CASE y # NoSym /\ sym[y].value = 0
  <2> DEFINE d == [c EXCEPT ![y].type = "routine", ![y].value = addr]
  <2>1. y \in Syms /\ y # s /\ c[y] \in SymRecord
    BY <1>1, <1>2, <1>4
  <2>2. /\ d \in [Syms -> SymRecord]
        /\ d[y].type = "routine" /\ d[y].value = addr
        /\ \A x \in Syms : d[x].replaced = c[x].replaced /\ d[x].orig = c[x].orig
        /\ \A x \in Syms : x # y => d[x] = c[x]
    BY <1>2, <2>1 DEF SymRecord
  <2>3. DefineRoutine(s, addr) = d
    BY <1>3, <1>4
  <2> HIDE DEF d, y
  <2> QED BY <1>2, <1>4, <2>1, <2>2, <2>3 DEF y
<1>5. CASE ~(y # NoSym /\ sym[y].value = 0)
  <2>1. DefineRoutine(s, addr) = c
    BY <1>3, <1>5
  <2> QED BY <1>2, <1>5, <2>1
<1> QED
  BY <1>4, <1>5

(* A routine gets its address when it ends; no final address changes.      *)
LEMMA SymbolsDefine ==
  ASSUME NEW fs, NEW e, Tiled(fs, e), Symbols(sym, fs),
         NEW s \in Syms, NEW f \in FuncRecord, f.name = s, f.at > 0,
         sym[s].type = "unknown" \/ (sym[s].type = "routine" /\ sym[s].replaced)
  PROVE  /\ Symbols(DefineRoutine(s, f.at), Append(fs, f))
         /\ \A x \in Syms : \A v : Fixed(sym, x, v) => Fixed(DefineRoutine(s, f.at), x, v)
<1> DEFINE gs == Append(fs, f)
           n == Len(fs)
           d == DefineRoutine(s, f.at)
           y == sym[s].orig
           first == y # NoSym /\ sym[y].value = 0
<1>1. /\ fs \in Seq(FuncRecord) /\ n \in Nat \ {0} /\ f.at \in Nat
      /\ \A i \in 1 .. n : fs[i].name # NoSym => fs[i].at > 0
  BY TiledFacts DEF Tiled, FuncRecord
<1>2. /\ Len(gs) = n + 1 /\ gs[n + 1] = f
      /\ \A i \in 1 .. n : gs[i] = fs[i]
      /\ \A x : Defined(gs, x) <=> (Defined(fs, x) \/ x = s)
      /\ \A x, k : x # s => (IsLast(fs, x, k) => IsLast(gs, x, k))
      /\ \A x, k : IsFirst(fs, x, k) => IsFirst(gs, x, k)
      /\ IsLast(gs, s, n + 1)
      /\ ~Defined(fs, s) => IsFirst(gs, s, n + 1)
  BY <1>1, NamesAppend
<1>3. /\ sym \in [Syms -> SymRecord] /\ y \in Syms \cup {NoSym} /\ NoSym \notin Syms
      /\ y # s
  BY DeadAssumption DEF Symbols, SymRecord
<1>4. /\ d \in [Syms -> SymRecord]
      /\ d[s].type = "routine" /\ d[s].value = f.at
      /\ \A x \in Syms : d[x].replaced = sym[x].replaced /\ d[x].orig = sym[x].orig
      /\ \A x \in Syms : x # s /\ ~(first /\ x = y) => d[x] = sym[x]
      /\ first => y \in Syms /\ d[y].type = "routine" /\ d[y].value = f.at
  BY <1>1, <1>3, DefineCases
<1>5. \A x \in Syms : Defined(fs, x) => sym[x].value > 0 /\ sym[x].type = "routine"
  BY NameAddress
<1>6. \A x \in Syms :
       /\ sym[x].type = "routine" =>
            /\ sym[x].value > 0
            /\ \E i \in 1 .. n : fs[i].at = sym[x].value
            /\ Defined(fs, x) \/ \E z \in Syms : sym[z].orig = x /\ Defined(fs, z)
       /\ sym[x].type # "routine" => sym[x].value = 0 /\ ~Defined(fs, x)
       /\ Defined(fs, x) => \E k \in 1 .. n : IsLast(fs, x, k) /\ fs[k].at = sym[x].value
       /\ sym[x].orig # NoSym =>
            /\ sym[x].orig # x /\ sym[x].replaced /\ sym[sym[x].orig].type # "unknown"
            /\ Defined(fs, x) /\ ~Defined(fs, sym[x].orig) =>
                 \E k \in 1 .. n : IsFirst(fs, x, k) /\ fs[k].at = sym[sym[x].orig].value
  BY DEF Symbols
<1>7. \A x, z \in Syms : sym[x].orig # NoSym /\ sym[x].orig = sym[z].orig => x = z
  BY DEF Symbols
<1>8. \A x \in Syms : sym[x].orig \in Syms \cup {NoSym}
  BY <1>3 DEF SymRecord
<1>9. 1 .. n + 1 = (1 .. n) \cup {n + 1}
  BY <1>1
<1> HIDE DEF gs, n, d, y
<1>10. \A x \in Syms : Fixed(sym, x, sym[x].value) => d[x] = sym[x]
  <2> TAKE x \in Syms
  <2> HAVE Fixed(sym, x, sym[x].value)
  <2>1. x # s
    BY DEF Fixed
  <2>2. sym[x].value > 0
    BY <1>6 DEF Fixed
  <2>3. ~(first /\ x = y)
    BY <2>2
  <2> QED BY <1>4, <2>1, <2>3
<1>11. ASSUME NEW x \in Syms, d[x].type = "routine"
       PROVE  /\ d[x].value > 0
              /\ \E i \in 1 .. Len(gs) : gs[i].at = d[x].value
              /\ Defined(gs, x) \/ \E z \in Syms : d[z].orig = x /\ Defined(gs, z)
  <2>1. CASE x = s
    BY <1>1, <1>2, <1>4, <1>9, <2>1
  <2>2. CASE x # s /\ first /\ x = y
    <3>1. d[x].value = f.at /\ d[s].orig = x /\ Defined(gs, s)
      BY <1>2, <1>4, <2>2 DEF y
    <3> QED BY <1>2, <1>9, <3>1
  <2>3. CASE x # s /\ ~(first /\ x = y)
    <3>1. d[x] = sym[x] /\ sym[x].type = "routine"
      BY <1>4, <1>11, <2>3
    <3>2. \E i \in 1 .. Len(gs) : gs[i].at = sym[x].value
      BY <1>2, <1>6, <1>9, <3>1
    <3>3. Defined(gs, x) \/ \E z \in Syms : d[z].orig = x /\ Defined(gs, z)
      BY <1>2, <1>4, <1>6, <3>1
    <3> QED BY <1>6, <3>1, <3>2, <3>3
  <2> QED BY <2>1, <2>2, <2>3
<1>12. ASSUME NEW x \in Syms, d[x].type # "routine"
       PROVE  d[x].value = 0 /\ ~Defined(gs, x)
  <2>1. x # s /\ ~(first /\ x = y)
    BY <1>4, <1>12
  <2> QED BY <1>2, <1>4, <1>6, <1>12, <2>1
<1>13. ASSUME NEW x \in Syms, Defined(gs, x)
       PROVE  \E k \in 1 .. Len(gs) : IsLast(gs, x, k) /\ gs[k].at = d[x].value
  <2>1. CASE x = s
    BY <1>2, <1>4, <1>9, <2>1
  <2>2. CASE x # s
    <3>1. Defined(fs, x)
      BY <1>2, <1>13, <2>2
    <3>2. d[x] = sym[x]
      BY <1>4, <1>5, <2>2, <3>1
    <3>3. PICK k \in 1 .. n : IsLast(fs, x, k) /\ fs[k].at = sym[x].value
      BY <1>6, <3>1
    <3> QED BY <1>2, <1>9, <2>2, <3>2, <3>3
  <2> QED BY <2>1, <2>2
<1>14. ASSUME NEW x \in Syms, d[x].orig # NoSym
       PROVE  d[x].orig # x /\ d[x].replaced /\ d[d[x].orig].type # "unknown"
  <2> DEFINE z == sym[x].orig
  <2>1. z \in Syms /\ d[x].orig = z /\ z # x /\ sym[x].replaced /\ sym[z].type # "unknown"
    BY <1>4, <1>6, <1>8, <1>14
  <2>2. d[z].type # "unknown"
    BY <1>4, <2>1
  <2> QED BY <1>4, <2>1, <2>2
<1>15. ASSUME NEW x \in Syms, d[x].orig # NoSym, Defined(gs, x), ~Defined(gs, d[x].orig)
       PROVE  \E k \in 1 .. Len(gs) : IsFirst(gs, x, k) /\ gs[k].at = d[d[x].orig].value
  <2> DEFINE z == sym[x].orig
  <2>1. z \in Syms /\ d[x].orig = z /\ z # s /\ ~Defined(fs, z) /\ z # NoSym
    BY <1>2, <1>4, <1>8, <1>15
  <2>2. CASE x = s /\ Defined(fs, s)
    <3>1. PICK k \in 1 .. n : IsFirst(fs, s, k) /\ fs[k].at = sym[z].value
      BY <1>6, <2>1, <2>2
    <3>2. fs[k].at > 0
      BY <1>1, <1>3, <3>1 DEF IsFirst
    <3>3. d[z] = sym[z]
      BY <1>4, <2>1, <2>2, <3>1, <3>2 DEF y
    <3> QED BY <1>2, <1>9, <2>1, <2>2, <3>1, <3>3
  <2>3. CASE x = s /\ ~Defined(fs, s)
    <3>1. z = y
      BY <2>3 DEF y
    <3>2. sym[y].type # "routine"
      <4>1. SUFFICES ASSUME sym[y].type = "routine" PROVE FALSE
        OBVIOUS
      <4>2. PICK w \in Syms : sym[w].orig = y /\ Defined(fs, w)
        BY <1>6, <2>1, <3>1, <4>1
      <4>3. w = s
        BY <1>7, <2>1, <3>1, <4>2 DEF y
      <4> QED BY <2>3, <4>2, <4>3
    <3>3. first
      BY <1>6, <2>1, <3>1, <3>2
    <3> QED BY <1>2, <1>4, <1>9, <2>1, <2>3, <3>1, <3>3
  <2>4. CASE x # s
    <3>1. Defined(fs, x) /\ z # y
      BY <1>2, <1>7, <1>15, <2>1, <2>4 DEF y
    <3>2. d[z] = sym[z]
      BY <1>4, <2>1, <3>1
    <3>3. PICK k \in 1 .. n : IsFirst(fs, x, k) /\ fs[k].at = sym[z].value
      BY <1>6, <2>1, <3>1
    <3> QED BY <1>2, <1>9, <2>1, <3>2, <3>3
  <2> QED BY <2>2, <2>3, <2>4
<1>16. \A x, z \in Syms : d[x].orig # NoSym /\ d[x].orig = d[z].orig => x = z
  BY <1>4, <1>7
<1>17. Symbols(d, gs)
  BY <1>4, <1>11, <1>12, <1>13, <1>14, <1>15, <1>16 DEF Symbols
<1>18. ASSUME NEW x \in Syms, NEW v, Fixed(sym, x, v) PROVE Fixed(d, x, v)
  BY <1>10, <1>18 DEF Fixed
<1> QED
  BY <1>17, <1>18 DEF d, gs

\* An embedded routine has no name.
LEMMA SymbolsEmbed ==
  ASSUME NEW fs \in Seq(FuncRecord), NEW sy, Symbols(sy, fs),
         NEW f \in FuncRecord, f.name = NoSym
  PROVE  Symbols(sy, Append(fs, f))
<1> DEFINE gs == Append(fs, f)
           n == Len(fs)
<1>1. /\ Len(gs) = n + 1 /\ n \in Nat
      /\ \A i \in 1 .. n : gs[i] = fs[i]
      /\ \A x : Defined(gs, x) <=> (Defined(fs, x) \/ x = NoSym)
      /\ \A x, k : x # NoSym => (IsLast(fs, x, k) => IsLast(gs, x, k))
      /\ \A x, k : IsFirst(fs, x, k) => IsFirst(gs, x, k)
  BY NamesAppend
<1>2. NoSym \notin Syms /\ \A i \in 1 .. n : i \in 1 .. n + 1
  BY <1>1, DeadAssumption
<1> HIDE DEF gs, n
<1>3. ASSUME NEW s \in Syms
      PROVE  /\ sy[s].type = "routine" =>
                  /\ sy[s].value > 0
                  /\ \E i \in 1 .. Len(gs) : gs[i].at = sy[s].value
                  /\ Defined(gs, s) \/ \E x \in Syms : sy[x].orig = s /\ Defined(gs, x)
             /\ sy[s].type # "routine" => sy[s].value = 0 /\ ~Defined(gs, s)
             /\ Defined(gs, s) => \E k \in 1 .. Len(gs) : IsLast(gs, s, k) /\ gs[k].at = sy[s].value
  BY <1>1, <1>2 DEF Symbols, n
<1>4. ASSUME NEW s \in Syms, sy[s].orig # NoSym
      PROVE  /\ sy[s].orig # s /\ sy[s].replaced /\ sy[sy[s].orig].type # "unknown"
             /\ Defined(gs, s) /\ ~Defined(gs, sy[s].orig) =>
                  \E k \in 1 .. Len(gs) : IsFirst(gs, s, k) /\ gs[k].at = sy[sy[s].orig].value
  <2>1. sy[s].orig # s /\ sy[s].replaced /\ sy[sy[s].orig].type # "unknown"
    BY <1>4 DEF Symbols
  <2>2. ASSUME Defined(gs, s), ~Defined(gs, sy[s].orig)
        PROVE  \E k \in 1 .. Len(gs) : IsFirst(gs, s, k) /\ gs[k].at = sy[sy[s].orig].value
    <3>1. Defined(fs, s) /\ ~Defined(fs, sy[s].orig)
      BY <1>1, <1>2, <2>2
    <3>2. PICK k \in 1 .. n : IsFirst(fs, s, k) /\ fs[k].at = sy[sy[s].orig].value
      BY <1>4, <3>1 DEF Symbols, n
    <3> QED BY <1>1, <1>2, <3>2
  <2> QED BY <2>1, <2>2
<1> QED
  BY <1>3, <1>4 DEF Symbols, gs

\* "Replace s;" and "Replace s y;"
Replacing(sy, s, y) ==
  IF y = NoSym THEN [sy EXCEPT ![s].replaced = TRUE]
  ELSE [sy EXCEPT ![s].replaced = TRUE, ![s].orig = y, ![y].type = "zero"]

\* Replace changes no address.
LEMMA SymbolsReplace ==
  ASSUME NEW fs, NEW sy, Symbols(sy, fs), NEW s \in Syms, NEW y \in Syms \cup {NoSym}, NEW d,
         sy[s].type = "unknown", ~sy[s].replaced, y # s, y # NoSym => sy[y].type = "unknown",
         d = Replacing(sy, s, y)
  PROVE  Symbols(d, fs) /\ \A x \in Syms : \A v : Fixed(sy, x, v) => Fixed(d, x, v)
<1>1. sy \in [Syms -> SymRecord] /\ NoSym \notin Syms
  BY DeadAssumption DEF Symbols
<1>2. sy[s].orig = NoSym /\ ~Defined(fs, s) /\ (y # NoSym => ~Defined(fs, y))
  BY DEF Symbols
<1>a. /\ d \in [Syms -> SymRecord]
      /\ d[s].replaced /\ d[s].orig = y /\ d[s].type = "unknown" /\ d[s].value = sy[s].value
      /\ y \in Syms => /\ d[y].type = "zero" /\ d[y].value = sy[y].value
                       /\ d[y].replaced = sy[y].replaced /\ d[y].orig = sy[y].orig
      /\ \A x \in Syms : x # s /\ x # y => d[x] = sy[x]
  <2> DEFINE c == [sy EXCEPT ![s].replaced = TRUE, ![s].orig = y]
  <2>1. /\ c \in [Syms -> SymRecord] /\ c[s].replaced /\ c[s].orig = y
        /\ c[s].type = "unknown" /\ c[s].value = sy[s].value
        /\ \A x \in Syms : x # s => c[x] = sy[x]
    BY <1>1 DEF SymRecord
  <2>2. CASE y = NoSym
    <3> DEFINE b == [sy EXCEPT ![s].replaced = TRUE]
    <3>1. /\ b \in [Syms -> SymRecord] /\ b[s].replaced /\ b[s].orig = sy[s].orig
          /\ b[s].type = "unknown" /\ b[s].value = sy[s].value
          /\ \A x \in Syms : x # s => b[x] = sy[x]
      BY <1>1 DEF SymRecord
    <3>2. d = b
      BY <2>2 DEF Replacing
    <3> HIDE DEF b
    <3> QED BY ONLY <1>1, <1>2, <2>2, <3>1, <3>2
  <2>3. CASE y # NoSym
    <3> HIDE DEF c
    <3>1. y \in Syms /\ c[y] \in SymRecord
      BY <1>1, <2>1, <2>3
    <3> DEFINE b == [c EXCEPT ![y].type = "zero"]
    <3>2. /\ b \in [Syms -> SymRecord] /\ b[y].type = "zero"
          /\ b[y].replaced = c[y].replaced /\ b[y].orig = c[y].orig /\ b[y].value = c[y].value
          /\ \A x \in Syms : x # y => b[x] = c[x]
      BY <2>1, <3>1 DEF SymRecord
    <3>3. d = b
      BY <2>3 DEF Replacing, c
    <3> HIDE DEF b
    <3>4. y # s /\ s \in Syms
      OBVIOUS
    <3> QED BY ONLY <2>1, <3>1, <3>2, <3>3, <3>4
  <2> QED BY <2>2, <2>3
<1>3. /\ d \in [Syms -> SymRecord]
      /\ d[s].replaced /\ d[s].orig = y /\ d[s].type = "unknown"
      /\ \A x \in Syms : x # s => d[x].replaced = sy[x].replaced /\ d[x].orig = sy[x].orig
      /\ \A x \in Syms : d[x].value = sy[x].value
      /\ \A x \in Syms : x # y => d[x].type = sy[x].type
      /\ y \in Syms => d[y].type = "zero"
  <2>1. \A x \in Syms : x # s => d[x].replaced = sy[x].replaced /\ d[x].orig = sy[x].orig
    BY <1>a
  <2>2. \A x \in Syms : d[x].value = sy[x].value
    BY <1>a
  <2>3. \A x \in Syms : x # y => d[x].type = sy[x].type
    BY <1>a
  <2> QED BY <1>a, <2>1, <2>2, <2>3
<1>4. \A x \in Syms : sy[x].type = "routine" => d[x].type = "routine" /\ x # s /\ x # y
  BY <1>1, <1>3
<1>5. \A x \in Syms : d[x].type = "routine" => sy[x].type = "routine" /\ x # s /\ x # y
  BY <1>1, <1>3
<1>6. ASSUME NEW x \in Syms
      PROVE  /\ d[x].type = "routine" =>
                  /\ d[x].value > 0
                  /\ \E i \in 1 .. Len(fs) : fs[i].at = d[x].value
                  /\ Defined(fs, x) \/ \E z \in Syms : d[z].orig = x /\ Defined(fs, z)
             /\ d[x].type # "routine" => d[x].value = 0 /\ ~Defined(fs, x)
             /\ Defined(fs, x) => \E k \in 1 .. Len(fs) : IsLast(fs, x, k) /\ fs[k].at = d[x].value
  <2>1. \A z \in Syms : Defined(fs, z) => d[z].orig = sy[z].orig
    BY <1>2, <1>3
  <2> QED BY <1>3, <1>4, <1>5, <2>1 DEF Symbols
<1>7. ASSUME NEW x \in Syms, d[x].orig # NoSym
      PROVE  /\ d[x].orig # x /\ d[x].replaced /\ d[d[x].orig].type # "unknown"
             /\ Defined(fs, x) /\ ~Defined(fs, d[x].orig) =>
                  \E k \in 1 .. Len(fs) : IsFirst(fs, x, k) /\ fs[k].at = d[d[x].orig].value
  <2>1. CASE x = s
    BY <1>2, <1>3, <1>7, <2>1
  <2>2. CASE x # s
    <3>1. /\ d[x].orig = sy[x].orig /\ d[x].replaced = sy[x].replaced
          /\ sy[x].orig # NoSym /\ sy[x].orig \in Syms
      BY <1>1, <1>3, <1>7, <2>2 DEF SymRecord
    <3>2. sy[x].orig # x /\ sy[x].replaced /\ sy[sy[x].orig].type # "unknown"
      BY <3>1 DEF Symbols
    <3>3. d[sy[x].orig].type # "unknown" /\ d[sy[x].orig].value = sy[sy[x].orig].value
      BY <1>3, <3>1, <3>2
    <3>4. Defined(fs, x) /\ ~Defined(fs, sy[x].orig) =>
            \E k \in 1 .. Len(fs) : IsFirst(fs, x, k) /\ fs[k].at = sy[sy[x].orig].value
      BY <3>1 DEF Symbols
    <3> QED BY <3>1, <3>2, <3>3, <3>4
  <2> QED BY <2>1, <2>2
<1>8. ASSUME NEW x \in Syms, NEW z \in Syms, d[x].orig # NoSym, d[x].orig = d[z].orig
      PROVE  x = z
  <2>1. CASE x # s /\ z # s
    BY <1>3, <1>8, <2>1 DEF Symbols
  <2>2. ASSUME NEW w \in Syms, w # s, d[w].orig = y, y # NoSym PROVE FALSE
    BY <1>3, <2>2 DEF Symbols
  <2>3. CASE x = s /\ z # s
    BY <1>3, <1>8, <2>2, <2>3
  <2>4. CASE z = s /\ x # s
    BY <1>3, <1>8, <2>2, <2>4
  <2> QED BY <2>1, <2>3, <2>4
<1> SUFFICES /\ Symbols(d, fs)
             /\ \A x \in Syms : \A v : Fixed(sy, x, v) => Fixed(d, x, v)
  OBVIOUS
<1>9. Symbols(d, fs)
  BY ONLY <1>3, <1>6, <1>7, <1>8 DEF Symbols
<1>10. \A x \in Syms : \A v : Fixed(sy, x, v) => Fixed(d, x, v)
  BY <1>3, <1>4 DEF Fixed
<1> QED
  BY <1>9, <1>10

-----------------------------------------------------------------------------
(* The steps of the parse.                                                 *)

\* A step of the parse leaves the later stages as they began.
LEMMA ParseStage ==
  ASSUME StageInv, stage = "parse", UNCHANGED <<stage, back>>
  PROVE  StageInv'
BY DEF StageInv, Fresh, back

\* What the steps need of SourceInv.
LEMMA SourceFacts ==
  ASSUME SourceInv
  PROVE  /\ Tiled(funcs, End(current, pc)) /\ Symbols(sym, funcs)
         /\ current \in CurrentRecord /\ current.at \in Nat /\ pc \in Nat /\ pc > 0
         /\ funcs \in Seq(FuncRecord) /\ Len(funcs) \in Nat \ {0}
         /\ operands \in Seq(CodeOperand) /\ Len(operands) \in Nat \ {0}
         /\ sym \in [Syms -> SymRecord] /\ glulx \in BOOLEAN
         /\ InRoutine => pc >= current.at + HeaderLength
         /\ \A i \in 1 .. Len(operands) : operands[i].at \in Nat /\ operands[i].of \in Syms
<1>1. /\ Tiled(funcs, End(current, pc)) /\ Symbols(sym, funcs) /\ Open(sym, current, pc)
      /\ Spaced(operands, pc) /\ glulx \in BOOLEAN
  BY DEF SourceInv, Parsed
<1>2. current \in CurrentRecord /\ current.at \in Nat /\ pc \in Nat
  BY <1>1 DEF Open, CurrentRecord
<1>3. InRoutine => pc >= current.at + HeaderLength
  BY <1>1 DEF Open, InRoutine
<1>4. End(current, pc) \in Nat \ {0} /\ Len(funcs) \in Nat \ {0}
  BY <1>1, TiledFacts
<1>5. pc > 0
  BY <1>2, <1>3, <1>4 DEF End, InRoutine, HeaderLength
<1>6. operands \in Seq(CodeOperand) /\ Len(operands) \in Nat \ {0}
  BY <1>1, LenProperties DEF Spaced
<1>7. \A i \in 1 .. Len(operands) : operands[i].at \in Nat /\ operands[i].of \in Syms
  <2>1. \A i \in 1 .. Len(operands) : operands[i] \in CodeOperand
    BY <1>6, ElementOfSeq
  <2> QED BY <2>1 DEF CodeOperand
<1> QED
  BY <1>1, <1>2, <1>3, <1>4, <1>5, <1>6, <1>7 DEF Tiled, Symbols

\* A routine begins where the functions end.
LEMMA Opening ==
  ASSUME SourceInv, ~InRoutine, NEW s \in Syms \cup {NoSym}, NEW emb \in BOOLEAN,
         IF emb THEN s = NoSym ELSE s \in Syms /\ MayBegin(s),
         current' = Opened(s, emb), pc' = pc + HeaderLength,
         UNCHANGED <<glulx, sym, funcs, globals, operands, data, tokens, asked>>
  PROVE  SourceInv'
<1> DEFINE cu == Opened(s, emb)
           p == pc + HeaderLength
<1>1. current.at = 0 /\ pc \in Nat /\ pc > 0 /\ p \in Nat /\ p >= pc
  BY SourceFacts DEF InRoutine, HeaderLength
<1>2. cu \in CurrentRecord /\ cu.at = pc /\ cu.embedded = emb /\ cu.sym = s
  <2>1. NoToken \in Aheads
    BY DEF Aheads
  <2> QED BY <1>1, <2>1, SourceFacts DEF Opened, CurrentRecord
<1>3. End(current, pc) = pc /\ End(cu, p) = pc
  BY <1>1, <1>2 DEF End
<1>4. Open(sym, cu, p)
  BY <1>1, <1>2 DEF Open, MayBegin
<1> HIDE DEF cu, p
<1>5. Placed(operands, funcs, cu, p)
  BY <1>1 DEF SourceInv, Parsed, Placed
<1>6. Spaced(operands, p)
  <2>1. Spaced(operands, pc)
    BY DEF SourceInv, Parsed
  <2>2. operands[Len(operands)].at \in Nat
    BY SourceFacts
  <2>3. operands[Len(operands)].at + OperandSize <= p
    BY <1>1, <2>1, <2>2 DEF Spaced, OperandSize
  <2> QED BY <2>1, <2>3 DEF Spaced
<1>7. Parsed(glulx, sym, funcs, globals, cu, p, operands, data, tokens, asked)
  BY <1>3, <1>4, <1>5, <1>6 DEF SourceInv, Parsed
<1> QED
  BY <1>7 DEF SourceInv, cu, p

\* A routine begins.
LEMMA BeginKeeps ==
  ASSUME SourceInv, StageInv,
         BeginEmbedded \/ \E s \in Syms : BeginRoutine(s)
  PROVE  SourceInv' /\ StageInv'
<1>1. CASE BeginEmbedded
  <2>1. SourceInv'
    BY <1>1, Opening DEF BeginEmbedded, RoomForRoutine, TopLevel
  <2> QED BY <1>1, <2>1, ParseStage DEF BeginEmbedded, RoomForRoutine, TopLevel
<1>2. ASSUME NEW s \in Syms, BeginRoutine(s) PROVE SourceInv' /\ StageInv'
  <2>1. SourceInv'
    BY <1>2, Opening DEF BeginRoutine, RoomForRoutine, TopLevel
  <2> QED BY <1>2, <2>1, ParseStage DEF BeginRoutine, RoomForRoutine, TopLevel
<1> QED
  BY <1>1, <1>2

\* The operand that a name makes.
LEMMA OperandStands ==
  ASSUME SourceInv, NEW s \in Syms, Operand(s).marker # "none"
  PROVE  /\ Notes(s) /\ Operand(s).marker \in {"routine", "symbol"}
         /\ Operand(s).value \in Nat \cup Syms /\ Stands(sym, Operand(s), s)
<1>1. sym[s] \in SymRecord
  BY SourceFacts
<1>2. sym[s].type \in {"unknown", "routine"}
  BY <1>1 DEF Operand, SymRecord
<1>3. CASE sym[s].type = "unknown" \/ sym[s].replaced \/ glulx
  BY <1>2, <1>3 DEF Operand, Notes, Stands
<1>4. CASE ~(sym[s].type = "unknown" \/ sym[s].replaced \/ glulx)
  <2>1. Operand(s) = [marker |-> "routine", value |-> sym[s].value]
    BY <1>2, <1>4 DEF Operand
  <2> QED BY <1>1, <1>2, <1>4, <2>1 DEF Notes, Stands, Fixed, SymRecord
<1> QED
  BY <1>3, <1>4

\* What the parse of a statement makes of current before it assembles.
Looked(o, s) ==
  /\ o \in CurrentRecord /\ o.at = current.at /\ o.sym = current.sym
  /\ o.embedded = current.embedded /\ current.refs \subseteq o.refs
  /\ o.reach /\ Notes(s) => s \in o.refs

\* New code, or none, leaves the operands where they are.
LEMMA CodeGrows ==
  ASSUME SourceInv, InRoutine, NEW o \in CurrentRecord, o.at = current.at, o.sym = current.sym,
         o.embedded = current.embedded, current.refs \subseteq o.refs,
         NEW p \in Nat, p >= pc
  PROVE  /\ End(o, p) = End(current, pc) /\ Open(sym, o, p)
         /\ Placed(operands, funcs, o, p) /\ Spaced(operands, p)
<1>1. o.at > 0 /\ current.at > 0 /\ pc \in Nat /\ current.at \in Nat
  BY SourceFacts DEF InRoutine
<1>2. End(o, p) = End(current, pc)
  BY <1>1 DEF End
<1>3. Open(sym, o, p)
  BY <1>1 DEF SourceInv, Parsed, Open, HeaderLength
<1>4. Placed(operands, funcs, o, p)
  <2> SUFFICES ASSUME NEW i \in 1 .. Len(operands)
               PROVE  \/ /\ o.at > 0 /\ o.at < operands[i].at
                         /\ operands[i].at + OperandSize <= p /\ operands[i].of \in o.refs
                      \/ \E f \in 1 .. Len(funcs) : Inside(funcs[f], operands[i])
    BY DEF Placed
  <2>1. \/ /\ current.at > 0 /\ current.at < operands[i].at
           /\ operands[i].at + OperandSize <= pc /\ operands[i].of \in current.refs
        \/ \E f \in 1 .. Len(funcs) : Inside(funcs[f], operands[i])
    BY DEF SourceInv, Parsed, Placed
  <2>2. operands[i].at \in Nat
    BY SourceFacts
  <2> QED BY <1>1, <2>1, <2>2 DEF OperandSize
<1>5. Spaced(operands, p)
  <2>1. Spaced(operands, pc)
    BY DEF SourceInv, Parsed
  <2>2. operands[Len(operands)].at \in Nat
    BY SourceFacts
  <2>3. operands[Len(operands)].at + OperandSize <= p
    BY <1>1, <2>1, <2>2 DEF Spaced, OperandSize
  <2> QED BY <2>1, <2>3 DEF Spaced
<1> QED
  BY <1>2, <1>3, <1>4, <1>5

\* A statement counted, its tokens consumed.
Consumed(o) == [o EXCEPT !.count = @ + 1, !.ahead = NoToken]

\* Field by field, the routine after an operand.
LEMMA Counted ==
  ASSUME NEW o \in CurrentRecord
  PROVE  /\ Consumed(o) \in CurrentRecord
         /\ Consumed(o).sym = o.sym /\ Consumed(o).at = o.at /\ Consumed(o).refs = o.refs
         /\ Consumed(o).reach = o.reach /\ Consumed(o).embedded = o.embedded
<1> DEFINE m == o.count + 1
           d == [o EXCEPT !.count = m]
           c == [d EXCEPT !.ahead = NoToken]
<1>1. m \in Nat /\ NoToken \in Aheads
  BY DEF CurrentRecord, Aheads
<1>2. Consumed(o) = c
  BY DEF Consumed
<1> HIDE DEF m
<1>3. /\ d \in CurrentRecord
      /\ d.sym = o.sym /\ d.at = o.at /\ d.refs = o.refs /\ d.reach = o.reach
      /\ d.embedded = o.embedded
  BY <1>1 DEF CurrentRecord
<1> HIDE DEF d
<1>4. /\ c \in CurrentRecord
      /\ c.sym = d.sym /\ c.at = d.at /\ c.refs = d.refs /\ c.reach = d.reach
      /\ c.embedded = d.embedded
  BY <1>1, <1>3 DEF CurrentRecord
<1> HIDE DEF c
<1> QED
  BY <1>2, <1>3, <1>4

\* The distance to the operand before, in numbers.
LEMMA GapIs ==
  Gap = pc + (1 - (operands[Len(operands)].at + 2))
BY DEF Gap, MarkerAt, OperandSize, Last

\* An operand is assembled whose name the routine has noted, if the code is reached.
LEMMA AssembleKeeps ==
  ASSUME SourceInv, InRoutine, NEW s \in Syms, NEW o, Looked(o, s), AssembleOperand(o, s)
  PROVE  SourceInv'
<1> DEFINE op == Operand(s)
           cu == Consumed(o)
           p == IF o.reach THEN pc + CallLength ELSE pc
           new == [at |-> pc + MarkerAt, marker |-> op.marker, value |-> op.value, of |-> s]
           added == o.reach /\ op.marker # "none"
           ops == IF added THEN Append(operands, new) ELSE operands
<1>1. /\ Gap < Bank
      /\ current' = cu /\ pc' = p /\ operands' = ops
      /\ UNCHANGED <<glulx, sym, funcs, globals, data, tokens, asked>>
  BY DEF AssembleOperand, Consumed
<1>2. /\ pc \in Nat /\ p \in Nat /\ p >= pc /\ Len(operands) \in Nat \ {0}
      /\ operands \in Seq(CodeOperand) /\ current.at \in Nat /\ current.at > 0
      /\ pc >= current.at + 2
  BY SourceFacts DEF CallLength, InRoutine, HeaderLength
<1>3. /\ cu \in CurrentRecord /\ cu.at = current.at /\ cu.sym = current.sym
      /\ cu.embedded = current.embedded /\ current.refs \subseteq cu.refs
      /\ cu.reach = o.reach /\ cu.refs = o.refs
  <2>1. o \in CurrentRecord /\ o.at = current.at /\ o.sym = current.sym
        /\ o.embedded = current.embedded /\ current.refs \subseteq o.refs
    BY DEF Looked
  <2>2. /\ cu \in CurrentRecord
        /\ cu.sym = o.sym /\ cu.at = o.at /\ cu.refs = o.refs /\ cu.reach = o.reach
        /\ cu.embedded = o.embedded
    BY <2>1, Counted
  <2> HIDE DEF cu
  <2> QED BY <2>1, <2>2
<1> HIDE DEF cu, p
<1>4. /\ End(cu, p) = End(current, pc) /\ Open(sym, cu, p)
      /\ Placed(operands, funcs, cu, p) /\ Spaced(operands, p)
  BY <1>2, <1>3, CodeGrows
<1>5. Standing(sym, operands)
  BY DEF SourceInv, Parsed
<1>6. Placed(ops, funcs, cu, p) /\ Spaced(ops, p) /\ Standing(sym, ops)
  <2>1. CASE ~added
    BY <1>4, <1>5, <2>1
  <2>2. CASE added
    <3> DEFINE n == Len(operands)
               g == Append(operands, new)
    <3>1. /\ Notes(s) /\ op.marker \in {"routine", "symbol"}
          /\ op.value \in Nat \cup Syms /\ Stands(sym, op, s)
      BY <2>2, OperandStands
    <3> HIDE DEF op
    <3>2. new \in CodeOperand /\ new.at = pc + 1 /\ new.of = s /\ Stands(sym, new, s)
      BY <1>2, <3>1 DEF CodeOperand, Stands, MarkerAt
    <3>3. s \in cu.refs /\ p = pc + 3
      BY <1>3, <2>2, <3>1 DEF Looked, p, CallLength
    <3> HIDE DEF new
    <3>4. /\ g \in Seq(CodeOperand) /\ Len(g) = n + 1 /\ g[n + 1] = new
          /\ \A i \in 1 .. n : g[i] = operands[i]
      BY <1>2, <3>2, AppendProperties
    <3>5. operands[n].at \in Nat /\ operands[n].at + 2 <= pc
          /\ (pc + 1) - (operands[n].at + 2) < Bank
      <4>1. operands[n].at \in Nat /\ operands[n].at + 2 <= pc
        <5>1. Spaced(operands, pc)
          BY DEF SourceInv, Parsed
        <5>2. operands[n].at + 2 <= pc
          BY ONLY <5>1 DEF Spaced, OperandSize, n
        <5>3. \A i \in 1 .. Len(operands) : operands[i].at \in Nat
          BY ONLY SourceInv, SourceFacts
        <5>4. n \in 1 .. Len(operands)
          BY ONLY <1>2 DEF n
        <5> QED BY ONLY <5>2, <5>3, <5>4
      <4>2. Gap = pc + (1 - (operands[n].at + 2))
        BY ONLY GapIs
      <4>3. Bank \in Nat /\ Gap < Bank
        BY <1>1, DeadAssumption
      <4> HIDE DEF n
      <4> QED BY ONLY <1>2, <4>1, <4>2, <4>3
    <3> HIDE DEF g
    <3>6. Placed(g, funcs, cu, p)
      <4> SUFFICES ASSUME NEW i \in 1 .. Len(g)
                   PROVE  \/ /\ cu.at > 0 /\ cu.at < g[i].at /\ g[i].at + OperandSize <= p
                             /\ g[i].of \in cu.refs
                          \/ \E f \in 1 .. Len(funcs) : Inside(funcs[f], g[i])
        BY DEF Placed
      <4>1. CASE i = n + 1
        BY <1>2, <1>3, <3>2, <3>3, <3>4, <4>1 DEF OperandSize
      <4>2. CASE i \in 1 .. n
        BY <1>4, <3>4, <4>2 DEF Placed
      <4> QED BY <1>2, <3>4, <4>1, <4>2
    <3>7. Spaced(g, p)
      <4>1. g[1].at \in 1 .. Bank - 1
        BY <1>2, <1>4, <3>4 DEF Spaced
      <4>2. \A i \in 1 .. n : /\ g[i].at + OperandSize <= g[i + 1].at
                              /\ g[i + 1].at - (g[i].at + OperandSize) < Bank
        <5> TAKE i \in 1 .. n
        <5>1. CASE i = n
          BY <1>2, <3>2, <3>4, <3>5, <5>1 DEF OperandSize
        <5>2. CASE i \in 1 .. n - 1
          <6>1. i \in 1 .. n /\ i + 1 \in 1 .. n
            BY <1>2, <5>2
          <6> QED BY <1>4, <3>4, <5>2, <6>1 DEF Spaced
        <5> QED BY <1>2, <5>1, <5>2
      <4>3. g[n + 1].at + OperandSize <= p
        BY <1>2, <3>2, <3>3, <3>4 DEF OperandSize
      <4> QED BY <1>2, <3>4, <4>1, <4>2, <4>3 DEF Spaced
    <3>8. Standing(sym, g)
      <4> SUFFICES ASSUME NEW i \in 1 .. Len(g) PROVE Stands(sym, g[i], g[i].of)
        BY DEF Standing
      <4>1. CASE i = n + 1
        BY <3>2, <3>4, <4>1
      <4>2. CASE i \in 1 .. n
        BY <1>5, <3>4, <4>2 DEF Standing
      <4> QED BY <1>2, <3>4, <4>1, <4>2
    <3> QED BY <2>2, <3>6, <3>7, <3>8 DEF g
  <2> QED BY <2>1, <2>2
<1> HIDE DEF ops
<1>7. Parsed(glulx, sym, funcs, globals, cu, p, ops, data, tokens, asked)
  BY <1>4, <1>6 DEF SourceInv, Parsed
<1> QED
  BY <1>1, <1>7 DEF SourceInv

(* The parser's state changes one field at a time.                         *)
SetReach(o, b) == [o EXCEPT !.reach = b]
SetAhead(o, a) == [o EXCEPT !.ahead = a]
SetRefs(o, r)  == [o EXCEPT !.refs = r]
SetCount(o, n) == [o EXCEPT !.count = n]

\* q is o with more mentions, and perhaps other tokens ahead.
Grown(o, q) ==
  /\ q \in CurrentRecord /\ q.at = o.at /\ q.sym = o.sym /\ q.embedded = o.embedded
  /\ o.refs \subseteq q.refs

\* The fields of the routine being compiled, one changed at a time.
LEMMA SettingReach ==
  ASSUME NEW o \in CurrentRecord, NEW b \in BOOLEAN
  PROVE  /\ Grown(o, SetReach(o, b)) /\ SetReach(o, b).reach = b
         /\ SetReach(o, b).ahead = o.ahead /\ SetReach(o, b).count = o.count
         /\ SetReach(o, b).refs = o.refs
BY DEF SetReach, CurrentRecord, Grown

\* The token put back is changed.
LEMMA SettingAhead ==
  ASSUME NEW o \in CurrentRecord, NEW a \in Aheads
  PROVE  /\ Grown(o, SetAhead(o, a)) /\ SetAhead(o, a).reach = o.reach
         /\ SetAhead(o, a).ahead = a /\ SetAhead(o, a).count = o.count
         /\ SetAhead(o, a).refs = o.refs
BY DEF SetAhead, CurrentRecord, Grown

\* The count is changed.
LEMMA SettingCount ==
  ASSUME NEW o \in CurrentRecord, NEW n \in Nat
  PROVE  /\ Grown(o, SetCount(o, n)) /\ SetCount(o, n).reach = o.reach
         /\ SetCount(o, n).ahead = o.ahead /\ SetCount(o, n).refs = o.refs
BY DEF SetCount, CurrentRecord, Grown

\* A lookup adds to the notes, and notes the name if the code is reached.
LEMMA Mentioning ==
  ASSUME NEW o \in CurrentRecord, NEW s \in Syms
  PROVE  /\ Grown(o, Mention(o, s)) /\ Mention(o, s).reach = o.reach
         /\ Mention(o, s).ahead = o.ahead /\ Mention(o, s).count = o.count
         /\ o.reach /\ Notes(s) => s \in Mention(o, s).refs
<1> DEFINE r == o.refs \cup {s}
           q == SetRefs(o, r)
<1>1. r \in SUBSET Syms
  BY DEF CurrentRecord
<1>2. Mention(o, s) = IF o.reach /\ Notes(s) THEN q ELSE o
  BY DEF Mention, SetRefs
<1> HIDE DEF r
<1>3. /\ q \in CurrentRecord /\ q.at = o.at /\ q.sym = o.sym /\ q.embedded = o.embedded
      /\ q.reach = o.reach /\ q.ahead = o.ahead /\ q.count = o.count /\ q.refs = r
  BY <1>1 DEF SetRefs, CurrentRecord
<1> HIDE DEF q
<1> QED
  BY <1>2, <1>3 DEF Grown, r

\* So does reading a token again, in another context.
LEMMA ReadingAgain ==
  ASSUME NEW o \in CurrentRecord, o.ahead # NoToken, NEW c \in {"statement", "expression"}
  PROVE  /\ Grown(o, ReadAgain(o, c)) /\ ReadAgain(o, c).reach = o.reach
         /\ ReadAgain(o, c).ahead = [sym |-> o.ahead.sym, context |-> c]
         /\ o.ahead.sym \in Syms
         /\ c # o.ahead.context /\ o.reach /\ Notes(o.ahead.sym) => o.ahead.sym \in ReadAgain(o, c).refs
<1> DEFINE s == o.ahead.sym
           m == Mention(o, s)
           a == [sym |-> s, context |-> c]
<1>1. o.ahead \in [sym : Syms, context : {"statement", "expression"}]
  <2>1. o.ahead \in Aheads
    BY DEF CurrentRecord
  <2> QED BY <2>1 DEF Aheads
<1>2. s \in Syms /\ a \in Aheads
  BY <1>1 DEF Aheads
<1>3. /\ Grown(o, m) /\ m.reach = o.reach /\ m.ahead = o.ahead
      /\ o.reach /\ Notes(s) => s \in m.refs
  BY <1>2, Mentioning
<1>4. m \in CurrentRecord
  BY <1>3 DEF Grown
<1>5. CASE c = o.ahead.context
  <2>1. ReadAgain(o, c) = o
    BY <1>5 DEF ReadAgain
  <2>2. o.ahead = a
    BY <1>1, <1>5
  <2> QED BY <1>2, <1>5, <2>1, <2>2 DEF Grown
<1>6. CASE c # o.ahead.context
  <2>1. ReadAgain(o, c) = [m EXCEPT !.ahead.context = c]
    BY <1>6 DEF ReadAgain
  <2> HIDE DEF m
  <2>2. [m EXCEPT !.ahead.context = c] = [m EXCEPT !.ahead = [m.ahead EXCEPT !.context = c]]
    BY <1>4 DEF CurrentRecord
  <2>3. [m.ahead EXCEPT !.context = c] = a
    BY <1>1, <1>3
  <2>4. ReadAgain(o, c) = SetAhead(m, a)
    BY <2>1, <2>2, <2>3 DEF SetAhead
  <2>5. /\ Grown(m, SetAhead(m, a)) /\ SetAhead(m, a).reach = m.reach
        /\ SetAhead(m, a).ahead = a /\ SetAhead(m, a).refs = m.refs
    BY <1>2, <1>4, SettingAhead
  <2> QED BY <1>2, <1>3, <2>4, <2>5 DEF Grown
<1> QED
  BY <1>5, <1>6

\* Routines are only compiled in the parse.
LEMMA InParse ==
  ASSUME StageInv, InRoutine
  PROVE  stage = "parse"
BY DEF StageInv, InRoutine

\* A statement that assembles an operand, once its names are looked up.
LEMMA AssembledStatement ==
  ASSUME SourceInv, StageInv, InRoutine, NEW s \in Syms, NEW o, Grown(current, o),
         o.reach /\ Notes(s) => s \in o.refs, AssembleOperand(o, s)
  PROVE  SourceInv' /\ StageInv'
<1>1. Looked(o, s)
  BY DEF Looked, Grown
<1>2. SourceInv'
  BY <1>1, AssembleKeeps
<1> QED
  BY <1>2, InParse, ParseStage DEF AssembleOperand

\* s();
LEMMA CallKeeps ==
  ASSUME SourceInv, StageInv, NEW s \in Syms, CallStatement(s)
  PROVE  SourceInv' /\ StageInv'
<1> DEFINE a == [sym |-> s, context |-> "statement"]
           m == Mention(current, s)
           first == IF current.ahead = NoToken THEN SetAhead(m, a)
                    ELSE ReadAgain(current, "statement")
           o == ReadAgain(first, "expression")
<1>1. InRoutine /\ current.ahead.sym \in {NoSym, s} /\ AssembleOperand(o, s)
  BY DEF CallStatement, AtStatement, SetAhead
<1>2. current \in CurrentRecord /\ NoSym \notin Syms
  BY SourceFacts, DeadAssumption
<1>3. a \in Aheads /\ a # NoToken
  BY DEF Aheads, NoToken
<1>4. first \in CurrentRecord /\ Grown(current, first) /\ first.ahead = a
  <2>1. CASE current.ahead = NoToken
    <3>1. Grown(current, m)
      BY <1>2, Mentioning
    <3> HIDE DEF m
    <3>2. Grown(m, SetAhead(m, a)) /\ SetAhead(m, a).ahead = a
      BY <1>3, <3>1, SettingAhead DEF Grown
    <3> QED BY <2>1, <3>1, <3>2 DEF Grown
  <2>2. CASE current.ahead # NoToken
    <3>1. /\ Grown(current, ReadAgain(current, "statement")) /\ current.ahead.sym \in Syms
          /\ ReadAgain(current, "statement").ahead = [sym |-> current.ahead.sym, context |-> "statement"]
      BY <1>2, <2>2, ReadingAgain
    <3>2. current.ahead.sym = s
      BY <1>1, <1>2, <3>1
    <3> QED BY <2>2, <3>1, <3>2 DEF Grown
  <2> QED BY <2>1, <2>2
<1> HIDE DEF first
<1>5. /\ Grown(first, o) /\ o.reach = first.reach
      /\ first.reach /\ Notes(s) => s \in o.refs
  <2>1. first.ahead # NoToken /\ first.ahead.sym = s /\ first.ahead.context = "statement"
    BY <1>3, <1>4
  <2> QED BY <1>4, <2>1, ReadingAgain
<1>6. Grown(current, o) /\ (o.reach /\ Notes(s) => s \in o.refs)
  BY <1>4, <1>5 DEF Grown
<1> HIDE DEF o
<1> QED
  BY <1>1, <1>6, AssembledStatement

\* A mention is noted when the code it stands in can be reached.
LEMMA CaseKeeps ==
  ASSUME SourceInv, StageInv, ~ParenCases, NEW s \in Syms, NEW paren \in BOOLEAN,
         CaseClause(s, paren)
  PROVE  SourceInv' /\ StageInv'
<1> DEFINE m == Mention(current, s)
           r == SetReach(current, TRUE)
           o == IF paren THEN SetReach(m, TRUE) ELSE Mention(r, s)
<1>1. InRoutine /\ AssembleOperand(o, s) /\ (paren => current.reach)
  BY DEF CaseClause, AtStatement, SetReach, Reached
<1>2. current \in CurrentRecord
  BY SourceFacts
<1>3. CASE paren
  <2>1. Grown(current, m) /\ m.reach /\ (Notes(s) => s \in m.refs)
    BY <1>1, <1>2, <1>3, Mentioning
  <2> HIDE DEF m
  <2>2. Grown(m, SetReach(m, TRUE))
    BY <2>1, SettingReach DEF Grown
  <2>3. Grown(current, o) /\ (o.reach /\ Notes(s) => s \in o.refs)
    BY <1>3, <2>1, <2>2 DEF Grown
  <2> HIDE DEF o
  <2> QED BY <1>1, <2>3, AssembledStatement
<1>4. CASE ~paren
  <2>1. Grown(current, r) /\ r.reach
    BY <1>2, SettingReach
  <2> HIDE DEF r
  <2>2. Grown(r, Mention(r, s)) /\ (Notes(s) => s \in Mention(r, s).refs)
    BY <2>1, Mentioning DEF Grown
  <2>3. Grown(current, o) /\ (o.reach /\ Notes(s) => s \in o.refs)
    BY <1>4, <2>1, <2>2 DEF Grown
  <2> HIDE DEF o
  <2> QED BY <1>1, <2>3, AssembledStatement
<1> QED
  BY <1>3, <1>4

\* for (::s()), when the label is stripped with the loop.
LEMMA ForKeeps ==
  ASSUME SourceInv, StageInv, Strip, NEW s \in Syms, ForStatement(s)
  PROVE  SourceInv' /\ StageInv'
<1> DEFINE m == Mention(current, s)
<1>1. InRoutine /\ AssembleOperand(m, s)
  BY DEF ForStatement, AtStatement
<1>2. current \in CurrentRecord
  BY SourceFacts
<1>3. Grown(current, m) /\ (m.reach /\ Notes(s) => s \in m.refs)
  BY <1>2, Mentioning
<1> HIDE DEF m
<1> QED
  BY <1>1, <1>3, AssembledStatement

\* A statement that mentions nothing: the code only grows.
LEMMA PlainStatement ==
  ASSUME SourceInv, StageInv, InRoutine, Grown(current, current'), pc' = pc + 1,
         UNCHANGED <<glulx, sym, funcs, globals, operands, data, tokens, asked, stage, back>>
  PROVE  SourceInv' /\ StageInv'
<1>1. pc \in Nat /\ pc' \in Nat /\ pc' >= pc
  BY SourceFacts
<1>2. /\ End(current', pc') = End(current, pc) /\ Open(sym, current', pc')
      /\ Placed(operands, funcs, current', pc') /\ Spaced(operands, pc')
  BY <1>1, CodeGrows DEF Grown
<1>3. SourceInv'
  BY <1>2 DEF SourceInv, Parsed
<1> QED
  BY <1>3, InParse, ParseStage

\* return;
LEMMA ReturnKeeps ==
  ASSUME SourceInv, StageInv, ReturnStatement
  PROVE  SourceInv' /\ StageInv'
<1> DEFINE r == SetReach(current, FALSE)
<1>1. /\ InRoutine /\ current' = SetCount(r, current.count + 1) /\ pc' = pc + 1
      /\ UNCHANGED <<glulx, sym, funcs, globals, operands, data, tokens, asked, stage, back>>
  BY DEF ReturnStatement, AtStatement, SetReach, SetCount
<1>2. current \in CurrentRecord /\ current.count + 1 \in Nat
  BY SourceFacts DEF CurrentRecord
<1>3. Grown(current, r)
  BY <1>2, SettingReach
<1> HIDE DEF r
<1>4. Grown(r, current')
  BY <1>1, <1>2, <1>3, SettingCount DEF Grown
<1> QED
  BY <1>1, <1>3, <1>4, PlainStatement DEF Grown

\* if (c) return; with a look at the next token.
LEMMA IfReturnKeeps ==
  ASSUME SourceInv, StageInv, NEW s \in Syms, IfReturnStatement(s)
  PROVE  SourceInv' /\ StageInv'
<1> DEFINE a == [sym |-> s, context |-> "statement"]
           r == SetReach(current, FALSE)
           m == Mention(r, s)
           h == SetAhead(m, a)
           q == SetReach(h, TRUE)
<1>1. /\ InRoutine /\ current' = SetCount(q, q.count + 1) /\ pc' = pc + 1
      /\ UNCHANGED <<glulx, sym, funcs, globals, operands, data, tokens, asked, stage, back>>
  BY DEF IfReturnStatement, AtStatement, SetReach, SetAhead, SetCount, Reached
<1>2. current \in CurrentRecord /\ a \in Aheads
  BY SourceFacts DEF Aheads
<1>3. Grown(current, r)
  BY <1>2, SettingReach
<1> HIDE DEF r
<1>4. Grown(r, m)
  BY <1>3, Mentioning DEF Grown
<1> HIDE DEF m
<1>5. Grown(m, h)
  BY <1>2, <1>4, SettingAhead DEF Grown
<1> HIDE DEF h
<1>6. Grown(h, q)
  BY <1>5, SettingReach DEF Grown
<1> HIDE DEF q
<1>7. q \in CurrentRecord /\ q.count + 1 \in Nat
  BY <1>6 DEF Grown, CurrentRecord
<1>8. Grown(q, current')
  BY <1>1, <1>7, SettingCount
<1>9. Grown(current, current')
  BY <1>3, <1>4, <1>5, <1>6, <1>8 DEF Grown
<1> QED
  BY <1>1, <1>9, PlainStatement

(* What the later parts of the source leave true of the earlier ones.      *)
LEMMA StandsKept ==
  ASSUME NEW sy, NEW d, \A x \in Syms : \A v : Fixed(sy, x, v) => Fixed(d, x, v),
         NEW o, NEW s \in Syms, Stands(sy, o, s)
  PROVE  Stands(d, o, s)
BY DEF Stands

\* What holds of the operands stays when a symbol is defined or replaced.
LEMMA StandingKept ==
  ASSUME NEW sy, NEW d, \A x \in Syms : \A v : Fixed(sy, x, v) => Fixed(d, x, v),
         NEW ops, \A i \in 1 .. Len(ops) : ops[i].of \in Syms, Standing(sy, ops)
  PROVE  Standing(d, ops)
<1> SUFFICES ASSUME NEW i \in 1 .. Len(ops) PROVE Stands(d, ops[i], ops[i].of)
  BY DEF Standing
<1>1. ops[i].of \in Syms /\ Stands(sy, ops[i], ops[i].of)
  BY DEF Standing
<1> QED
  BY <1>1, StandsKept

\* So does what holds of the tables.
LEMMA StaticsKept ==
  ASSUME NEW sy, NEW d, \A x \in Syms : \A v : Fixed(sy, x, v) => Fixed(d, x, v),
         NEW fs, NEW gs, \A i \in 1 .. Len(fs) : \E k \in 1 .. Len(gs) : gs[k] = fs[i],
         NEW gl, NEW hl \in SUBSET Syms, gl \subseteq hl,
         NEW da, NEW to, Statics(sy, fs, gl, da, to)
  PROVE  Statics(d, gs, hl, da, to)
<1>1. ASSUME NEW i \in 1 .. Len(da)
      PROVE  IF da[i].of = NoSym
             THEN /\ da[i].marker = "routine"
                  /\ \E f \in 1 .. Len(gs) : gs[f].embedded /\ gs[f].at = da[i].value
             ELSE da[i].of \in hl /\ Stands(d, da[i], da[i].of)
  <2>1. CASE da[i].of = NoSym
    <3>1. PICK f \in 1 .. Len(fs) : fs[f].embedded /\ fs[f].at = da[i].value
      BY <2>1 DEF Statics
    <3>2. \E k \in 1 .. Len(gs) : gs[k].embedded /\ gs[k].at = da[i].value
      BY <3>1
    <3> QED BY <2>1, <3>2 DEF Statics
  <2>2. CASE da[i].of # NoSym
    <3>1. da[i].of \in gl /\ Stands(sy, da[i], da[i].of)
      BY <2>2 DEF Statics
    <3> QED BY <2>2, <3>1, StandsKept
  <2> QED BY <2>1, <2>2
<1>2. \A i \in 1 .. Len(to) : to[i].of \in hl /\ Fixed(d, to[i].of, to[i].value)
  BY DEF Statics
<1>3. da \in Seq(OperandRecord) /\ to \in Seq(TokenRecord)
  BY DEF Statics
<1> HIDE DEF OperandRecord, TokenRecord
<1> QED
  BY <1>1, <1>2, <1>3 DEF Statics

\* One more address in an array, a global or a property.
LEMMA StaticsData ==
  ASSUME NEW sy, NEW fs, NEW gl, NEW da, NEW to, Statics(sy, fs, gl, da, to),
         NEW o \in OperandRecord,
         IF o.of = NoSym
         THEN /\ o.marker = "routine"
              /\ \E f \in 1 .. Len(fs) : fs[f].embedded /\ fs[f].at = o.value
         ELSE o.of \in gl /\ Stands(sy, o, o.of)
  PROVE  Statics(sy, fs, gl, Append(da, o), to)
<1> DEFINE n == Len(da)
           g == Append(da, o)
           Right(e) == IF e.of = NoSym
                       THEN /\ e.marker = "routine"
                            /\ \E f \in 1 .. Len(fs) : fs[f].embedded /\ fs[f].at = e.value
                       ELSE e.of \in gl /\ Stands(sy, e, e.of)
<1>1. da \in Seq(OperandRecord) /\ n \in Nat
  BY LenProperties DEF Statics
<1>2. /\ g \in Seq(OperandRecord) /\ Len(g) = n + 1 /\ g[n + 1] = o
      /\ \A i \in 1 .. n : g[i] = da[i]
  BY <1>1, AppendProperties
<1>3. Right(o) /\ \A i \in 1 .. n : Right(da[i])
  BY DEF Statics
<1> HIDE DEF Right, g
<1>4. \A i \in 1 .. Len(g) : Right(g[i])
  <2> TAKE i \in 1 .. Len(g)
  <2>1. i \in 1 .. n \/ i = n + 1
    BY <1>1, <1>2
  <2> QED BY <1>2, <1>3, <2>1
<1>5. gl \subseteq Syms /\ to \in Seq(TokenRecord)
      /\ \A i \in 1 .. Len(to) : to[i].of \in gl /\ Fixed(sy, to[i].of, to[i].value)
  BY DEF Statics
<1> QED
  BY <1>2, <1>4, <1>5 DEF Statics, Right, g

\* One more grammar token.
LEMMA StaticsToken ==
  ASSUME NEW sy, NEW fs, NEW gl, NEW da, NEW to, Statics(sy, fs, gl, da, to),
         NEW o \in TokenRecord, o.of \in gl, Fixed(sy, o.of, o.value)
  PROVE  Statics(sy, fs, gl, da, Append(to, o))
<1> DEFINE n == Len(to)
           g == Append(to, o)
<1>1. to \in Seq(TokenRecord) /\ n \in Nat
  BY LenProperties DEF Statics
<1>2. /\ g \in Seq(TokenRecord) /\ Len(g) = n + 1 /\ g[n + 1] = o
      /\ \A i \in 1 .. n : g[i] = to[i]
  BY <1>1, AppendProperties
<1> HIDE DEF g
<1>4. \A i \in 1 .. Len(g) : g[i].of \in gl /\ Fixed(sy, g[i].of, g[i].value)
  <2> TAKE i \in 1 .. Len(g)
  <2>1. i \in 1 .. n \/ i = n + 1
    BY <1>1, <1>2
  <2>2. \A k \in 1 .. n : to[k].of \in gl /\ Fixed(sy, to[k].of, to[k].value)
    BY DEF Statics
  <2> QED BY <1>2, <2>1, <2>2
<1> QED
  BY <1>2, <1>4 DEF Statics, g

-----------------------------------------------------------------------------
(* The end of a routine.                                                   *)

\* The routine ends, and its symbol gets the address.
LEMMA CloseKeeps ==
  ASSUME SourceInv, StageInv, CloseRoutine
  PROVE  SourceInv' /\ StageInv'
<1> DEFINE at == current.at
           last == IF current.reach THEN pc + 1 ELSE pc
           end == Align(last)
           len == end - at
           f == [at |-> at, len |-> len, refs |-> current.refs,
                 embedded |-> current.embedded, name |-> current.sym]
           gs == Append(funcs, f)
           cu == [Closed EXCEPT !.count = current.count]
           d == IF current.embedded THEN sym ELSE DefineRoutine(current.sym, at)
           entry == [marker |-> "routine", value |-> at, of |-> NoSym]
           da == IF current.embedded THEN Append(data, entry) ELSE data
<1>1. /\ InRoutine /\ pc' = end /\ funcs' = gs /\ sym' = d /\ data' = da /\ current' = cu
      /\ UNCHANGED <<glulx, globals, operands, tokens, asked, stage, back>>
  BY DEF CloseRoutine
<1>2. /\ Tiled(funcs, at) /\ at \in Nat \ {0} /\ pc \in Nat /\ pc >= at + 2
      /\ Symbols(sym, funcs) /\ current \in CurrentRecord /\ glulx \in BOOLEAN
      /\ funcs \in Seq(FuncRecord) /\ Len(funcs) \in Nat \ {0}
      /\ ~glulx => Packed(funcs, at)
  <2>1. at > 0 /\ at \in Nat
    BY <1>1, SourceFacts DEF InRoutine
  <2>2. End(current, pc) = at
    BY <2>1 DEF End
  <2>3. Tiled(funcs, at) /\ (~glulx => Packed(funcs, at))
    BY <2>2 DEF SourceInv, Parsed
  <2> QED BY <1>1, <2>1, <2>3, SourceFacts DEF HeaderLength
<1>3. /\ current.refs \subseteq Syms /\ current.embedded \in BOOLEAN /\ current.count \in Nat
      /\ current.sym \in Syms \cup {NoSym} /\ current.reach \in BOOLEAN
  BY <1>2 DEF CurrentRecord
<1>4. last \in Nat /\ last >= pc
  BY <1>2
<1>5. end \in Nat /\ end >= pc /\ (glulx \/ end % Scale = 0)
  <2>1. Align(last) \in Nat /\ Align(last) >= last /\ (glulx \/ Align(last) % Scale = 0)
    <3> HIDE DEF last
    <3> QED BY <1>2, <1>4, AlignFacts
  <2>2. end \in Nat /\ end >= last /\ (glulx \/ end % Scale = 0)
    BY <2>1
  <2> HIDE DEF end, last
  <2> QED BY <1>2, <1>4, <2>2
<1>6. len \in Nat /\ len > 0 /\ at + len = end
  <2> HIDE DEF end
  <2> QED BY <1>2, <1>5
<1>7. f \in FuncRecord /\ f.at = at /\ f.len = len /\ f.name = current.sym
      /\ f.embedded = current.embedded /\ f.refs = current.refs
  <2> HIDE DEF len
  <2> QED BY <1>2, <1>3, <1>6 DEF FuncRecord
<1> HIDE DEF f, end, len, last
<1>8. Tiled(gs, end) /\ (~glulx => Packed(gs, end))
  <2>1. Tiled(gs, at + f.len) /\ (Packed(funcs, at) /\ (at + f.len) % Scale = 0 => Packed(gs, at + f.len))
    BY <1>2, <1>6, <1>7, TiledAppend
  <2>2. at + f.len = end
    BY <1>6, <1>7
  <2> QED BY <1>2, <1>5, <2>1, <2>2
<1>9. /\ Len(gs) = Len(funcs) + 1 /\ gs[Len(funcs) + 1] = f
      /\ \A i \in 1 .. Len(funcs) : gs[i] = funcs[i]
  BY <1>2, <1>7, NamesAppend
<1>10. /\ \A i \in 1 .. Len(funcs) : i \in 1 .. Len(gs) /\ gs[i] = funcs[i]
       /\ Len(funcs) + 1 \in 1 .. Len(gs)
  BY <1>2, <1>9
<1>11. /\ Symbols(d, gs)
       /\ \A x \in Syms : \A v : Fixed(sym, x, v) => Fixed(d, x, v)
  <2>1. CASE current.embedded
    <3>1. f.name = NoSym
      BY <1>1, <1>7, <2>1 DEF SourceInv, Parsed, Open, InRoutine
    <3> QED BY <1>2, <1>7, <2>1, <3>1, SymbolsEmbed
  <2>2. CASE ~current.embedded
    <3> DEFINE s == current.sym
    <3>1. s \in Syms /\ (sym[s].type = "unknown" \/ (sym[s].type = "routine" /\ sym[s].replaced))
      BY <1>1, <2>2 DEF SourceInv, Parsed, Open, InRoutine
    <3>2. f.name = s /\ f.at = at /\ f.at > 0
      BY <1>2, <1>7
    <3> HIDE DEF s
    <3>3. /\ Symbols(DefineRoutine(s, f.at), Append(funcs, f))
          /\ \A x \in Syms : \A v : Fixed(sym, x, v) => Fixed(DefineRoutine(s, f.at), x, v)
      BY <1>2, <1>7, <3>1, <3>2, SymbolsDefine
    <3>4. d = DefineRoutine(s, f.at)
      BY <2>2, <3>2 DEF s
    <3> QED BY <3>3, <3>4
  <2> QED BY <2>1, <2>2
<1>12. cu \in CurrentRecord /\ cu.at = 0
  <2>1. /\ NoToken \in Aheads
    BY DEF Aheads
  <2>2. Closed \in CurrentRecord /\ Closed.at = 0
    BY <2>1 DEF Closed, CurrentRecord
  <2> HIDE DEF Closed
  <2> QED BY <1>3, <2>2 DEF CurrentRecord
<1> HIDE DEF cu, d
<1>13. End(cu, end) = end /\ Open(d, cu, end)
  BY <1>5, <1>12 DEF End, Open
<1>14. Placed(operands, gs, cu, end)
  <2> SUFFICES ASSUME NEW i \in 1 .. Len(operands)
               PROVE  \E k \in 1 .. Len(gs) : Inside(gs[k], operands[i])
    BY DEF Placed
  <2>1. \/ /\ at < operands[i].at /\ operands[i].at + OperandSize <= pc
           /\ operands[i].of \in current.refs
        \/ \E k \in 1 .. Len(funcs) : Inside(funcs[k], operands[i])
    BY DEF SourceInv, Parsed, Placed
  <2>2. operands[i].at \in Nat
    BY SourceFacts
  <2>3. CASE /\ at < operands[i].at /\ operands[i].at + OperandSize <= pc
             /\ operands[i].of \in current.refs
    <3>1. operands[i].at + OperandSize <= end
      BY <1>2, <1>5, <2>2, <2>3 DEF OperandSize
    <3>2. f.at + f.len = end
      BY <1>6, <1>7
    <3>3. Inside(f, operands[i])
      BY <1>7, <2>3, <3>1, <3>2 DEF Inside
    <3> QED BY <1>9, <1>10, <3>3
  <2>4. CASE \E k \in 1 .. Len(funcs) : Inside(funcs[k], operands[i])
    BY <1>10, <2>4
  <2> QED BY <2>1, <2>3, <2>4
<1>15. Spaced(operands, end) /\ Standing(d, operands)
  <2>1. Spaced(operands, pc) /\ Standing(sym, operands)
    BY DEF SourceInv, Parsed
  <2>2. Len(operands) \in 1 .. Len(operands) /\ operands[Len(operands)].at \in Nat
        /\ \A i \in 1 .. Len(operands) : operands[i].of \in Syms
    BY SourceFacts
  <2>3. operands[Len(operands)].at + OperandSize <= pc
    BY <2>1 DEF Spaced
  <2>4. operands[Len(operands)].at + OperandSize <= end
    BY <1>2, <1>5, <2>2, <2>3 DEF OperandSize
  <2>5. Spaced(operands, end)
    BY <2>1, <2>4 DEF Spaced
  <2>6. Standing(d, operands)
    BY <1>11, <2>1, <2>2, StandingKept
  <2> QED BY <2>5, <2>6
<1>16. Statics(d, gs, globals, da, tokens)
  <2>1. Statics(sym, funcs, globals, data, tokens) /\ globals \subseteq Syms
    BY DEF SourceInv, Parsed, Statics
  <2>2. \A i \in 1 .. Len(funcs) : \E k \in 1 .. Len(gs) : gs[k] = funcs[i]
    BY <1>10
  <2>3. Statics(d, gs, globals, data, tokens)
    BY <1>11, <2>1, <2>2, StaticsKept
  <2>4. CASE ~current.embedded
    BY <2>3, <2>4
  <2>5. CASE current.embedded
    <3>1. entry \in OperandRecord
      BY <1>2 DEF OperandRecord
    <3>2. gs[Len(funcs) + 1].embedded /\ gs[Len(funcs) + 1].at = entry.value
      BY <1>7, <1>9, <2>5
    <3>3. entry.of = NoSym /\ entry.marker = "routine"
      OBVIOUS
    <3> HIDE DEF gs, entry
    <3>4. Statics(d, gs, globals, Append(data, entry), tokens)
      BY <1>10, <2>3, <3>1, <3>2, <3>3, StaticsData
    <3> QED BY <2>5, <3>4
  <2> QED BY <2>4, <2>5
<1> HIDE DEF gs, da
<1>17. Parsed(glulx, d, gs, globals, cu, end, operands, da, tokens, asked)
  BY <1>8, <1>11, <1>13, <1>14, <1>15, <1>16 DEF SourceInv, Parsed
<1>18. SourceInv'
  BY <1>1, <1>17 DEF SourceInv
<1> QED
  BY <1>1, <1>18, InParse, ParseStage

-----------------------------------------------------------------------------
(* The directives.                                                         *)

\* What lies outside routines leaves the code as it is.
LEMMA OutsideRoutines ==
  ASSUME SourceInv, StageInv, stage = "parse",
         UNCHANGED <<glulx, sym, funcs, current, pc, operands, stage, back>>,
         asked' \subseteq Syms,
         Statics(sym, funcs, globals', data', tokens')
  PROVE  SourceInv' /\ StageInv'
<1>1. SourceInv'
  BY DEF SourceInv, Parsed
<1> QED
  BY <1>1, ParseStage

\* The global namespace only gains references.
LEMMA GlobalsGrow ==
  ASSUME SourceInv, NEW s \in Syms, MentionGlobal(s)
  PROVE  /\ globals' \in SUBSET Syms /\ globals \subseteq globals'
         /\ Notes(s) => s \in globals'
         /\ Statics(sym, funcs, globals', data, tokens)
<1>1. Statics(sym, funcs, globals, data, tokens) /\ globals \subseteq Syms
  BY DEF SourceInv, Parsed, Statics
<1>2. /\ globals' \in SUBSET Syms /\ globals \subseteq globals'
      /\ Notes(s) => s \in globals'
  BY <1>1 DEF MentionGlobal
<1>3. \A i \in 1 .. Len(funcs) : \E k \in 1 .. Len(funcs) : funcs[k] = funcs[i]
  OBVIOUS
<1>4. Statics(sym, funcs, globals', data, tokens)
  BY <1>1, <1>2, <1>3, StaticsKept
<1> QED
  BY <1>2, <1>4

\* A datum names a routine.
LEMMA DataKeeps ==
  ASSUME SourceInv, StageInv, NEW s \in Syms, DataEntry(s)
  PROVE  SourceInv' /\ StageInv'
<1> DEFINE op == Operand(s)
           entry == [marker |-> op.marker, value |-> op.value, of |-> s]
<1>1. /\ stage = "parse" /\ MentionGlobal(s)
      /\ data' = IF op.marker = "none" THEN data ELSE Append(data, entry)
      /\ UNCHANGED <<glulx, sym, funcs, current, pc, operands, tokens, asked, stage, back>>
  BY DEF DataEntry, RoomForData, TopLevel
<1>2. /\ Notes(s) => s \in globals'
      /\ Statics(sym, funcs, globals', data, tokens)
  BY <1>1, GlobalsGrow
<1>3. asked \subseteq Syms
  BY DEF SourceInv, Parsed
<1>4. Statics(sym, funcs, globals', data', tokens')
  <2>1. CASE op.marker = "none"
    BY <1>1, <1>2, <2>1
  <2>2. CASE op.marker # "none"
    <3>1. /\ Notes(s) /\ op.marker \in {"routine", "symbol"}
          /\ op.value \in Nat \cup Syms /\ Stands(sym, op, s)
      BY <2>2, OperandStands
    <3> HIDE DEF op
    <3>2. /\ entry \in OperandRecord /\ entry.of = s /\ Stands(sym, entry, s)
      BY <3>1 DEF OperandRecord, Stands
    <3>3. s # NoSym /\ s \in globals'
      BY <1>2, <3>1, DeadAssumption
    <3> HIDE DEF entry
    <3>4. Statics(sym, funcs, globals', Append(data, entry), tokens)
      BY <1>2, <3>2, <3>3, StaticsData
    <3> QED BY <1>1, <2>2, <3>4
  <2> QED BY <2>1, <2>2
<1> QED
  BY <1>1, <1>3, <1>4, OutsideRoutines

\* A grammar token names a routine that was not replaced.
LEMMA TokenKeeps ==
  ASSUME SourceInv, StageInv, ~TokensOfReplaced, NEW s \in Syms, RoutineToken(s)
  PROVE  SourceInv' /\ StageInv'
<1> DEFINE token == [value |-> sym[s].value, of |-> s]
<1>1. /\ stage = "parse" /\ MentionGlobal(s) /\ sym[s].type = "routine" /\ ~sym[s].replaced
      /\ tokens' = Append(tokens, token)
      /\ UNCHANGED <<glulx, sym, funcs, current, pc, operands, data, asked, stage, back>>
  BY DEF RoutineToken, RoomForData, TopLevel
<1>2. /\ s \in globals'
      /\ Statics(sym, funcs, globals', data, tokens)
  BY <1>1, GlobalsGrow DEF Notes
<1>3. asked \subseteq Syms /\ sym[s] \in SymRecord
  BY SourceFacts DEF SourceInv, Parsed
<1>4. token \in TokenRecord /\ token.of = s /\ token.value = sym[s].value
  BY <1>3 DEF TokenRecord, SymRecord
<1>5. Fixed(sym, token.of, token.value)
  BY <1>1, <1>4 DEF Fixed
<1> HIDE DEF token
<1>6. Statics(sym, funcs, globals', data, Append(tokens, token))
  BY <1>2, <1>4, <1>5, StaticsToken
<1> QED
  BY <1>1, <1>3, <1>6, OutsideRoutines

\* An action is asked for.
LEMMA ActionKeeps ==
  ASSUME SourceInv, StageInv, NEW s \in Syms, Action(s)
  PROVE  SourceInv' /\ StageInv'
<1>1. /\ stage = "parse" /\ asked' = asked \cup {s}
      /\ UNCHANGED <<glulx, sym, funcs, globals, current, pc, operands, data, tokens, stage, back>>
  BY DEF Action, RoomForData, TopLevel
<1>2. asked \subseteq Syms /\ Statics(sym, funcs, globals, data, tokens)
  BY DEF SourceInv, Parsed
<1> QED
  BY <1>1, <1>2, OutsideRoutines

\* Replace.
LEMMA ReplaceKeeps ==
  ASSUME SourceInv, StageInv, NEW s \in Syms, NEW y \in Syms \cup {NoSym}, ReplaceDirective(s, y)
  PROVE  SourceInv' /\ StageInv'
<1>1. /\ stage = "parse" /\ ~InRoutine /\ sym[s].type = "unknown" /\ ~sym[s].replaced
      /\ y # s /\ (y # NoSym => sym[y].type = "unknown")
      /\ sym' = Replacing(sym, s, y)
      /\ UNCHANGED <<glulx, funcs, globals, current, pc, operands, data, tokens, asked, stage, back>>
  BY DEF ReplaceDirective, TopLevel, Replacing
<1>2. Symbols(sym, funcs)
  BY SourceFacts
<1>3. Symbols(sym', funcs) /\ \A x \in Syms : \A v : Fixed(sym, x, v) => Fixed(sym', x, v)
  BY <1>1, <1>2, SymbolsReplace
<1>4. /\ globals \in SUBSET Syms /\ Statics(sym, funcs, globals, data, tokens)
      /\ Standing(sym, operands)
      /\ \A i \in 1 .. Len(operands) : operands[i].of \in Syms
  BY SourceFacts DEF SourceInv, Parsed, Statics
<1>5. \A i \in 1 .. Len(funcs) : \E k \in 1 .. Len(funcs) : funcs[k] = funcs[i]
  OBVIOUS
<1>6. Statics(sym', funcs, globals, data, tokens)
  BY <1>3, <1>4, <1>5, StaticsKept
<1>7. Standing(sym', operands)
  BY <1>3, <1>4, StandingKept
<1>8. Open(sym', current, pc)
  BY <1>1 DEF SourceInv, Parsed, Open, InRoutine
<1>9. SourceInv'
  BY <1>1, <1>3, <1>6, <1>7, <1>8 DEF SourceInv, Parsed
<1> QED
  BY <1>1, <1>9, ParseStage

\* find_the_actions.
LEMMA FindKeeps ==
  ASSUME SourceInv, StageInv, FindTheActions
  PROVE  SourceInv' /\ StageInv'
<1>1. /\ stage = "parse" /\ ~InRoutine
      /\ globals' = globals \cup {s \in asked : Notes(s)}
      /\ err' = {e \in {"undefined"} : \E s \in asked : sym[s].type # "routine"}
      /\ stage' = "mark"
      /\ UNCHANGED <<glulx, sym, funcs, current, pc, operands, data, tokens, asked, used, todo,
                     newaddr, total, out>>
  BY DEF FindTheActions, TopLevel
<1>2. asked \subseteq Syms /\ Statics(sym, funcs, globals, data, tokens) /\ globals \subseteq Syms
  BY DEF SourceInv, Parsed, Statics
<1>3. globals' \in SUBSET Syms /\ globals \subseteq globals'
  BY <1>1, <1>2
<1>4. \A i \in 1 .. Len(funcs) : \E k \in 1 .. Len(funcs) : funcs[k] = funcs[i]
  OBVIOUS
<1>5. Statics(sym, funcs, globals', data, tokens)
  BY <1>2, <1>3, <1>4, StaticsKept
<1>6. SourceInv'
  BY <1>1, <1>5 DEF SourceInv, Parsed
<1>7. current.at = 0
  BY <1>1, SourceFacts DEF InRoutine
<1>8. err' = {} => Noted(sym, globals', asked)
  BY <1>1 DEF Noted, Notes
<1>9. StageInv'
  BY <1>1, <1>7, <1>8 DEF StageInv, Fresh
<1> QED
  BY <1>6, <1>9

-----------------------------------------------------------------------------
(* The search for the functions in use.                                    *)

\* Mentioned finds the functions Covers speaks of.
LEMMA MentionedFacts ==
  ASSUME funcs \in Seq(FuncRecord), NEW refs
  PROVE  /\ Mentioned(refs) \subseteq 1 .. Len(funcs)
         /\ \A us : Mentioned(refs) \subseteq us => Covers(sym, funcs, refs, us)
<1>1. DOMAIN funcs = 1 .. Len(funcs)
  OBVIOUS
<1>2. Mentioned(refs) \subseteq 1 .. Len(funcs)
  BY <1>1 DEF Mentioned, FunctionsAt
<1>3. ASSUME NEW s \in refs, NEW i \in 1 .. Len(funcs), sym[s].type = "routine",
             funcs[i].at = sym[s].value
      PROVE  i \in Mentioned(refs)
  <2>1. i \in FunctionsAt(sym[s].value) /\ s \in {r \in refs : sym[r].type = "routine"}
    BY <1>1, <1>3 DEF FunctionsAt
  <2> QED BY <2>1 DEF Mentioned
<1> QED
  BY <1>2, <1>3 DEF Covers

\* More functions cover no less.
LEMMA CoversMore ==
  ASSUME NEW sy, NEW fs, NEW refs, NEW us, NEW vs, us \subseteq vs, Covers(sy, fs, refs, us)
  PROVE  Covers(sy, fs, refs, vs)
BY DEF Covers

\* The roots are marked.
LEMMA MarkKeeps ==
  ASSUME SourceInv, StageInv, MarkRoots
  PROVE  SourceInv' /\ StageInv'
<1> DEFINE us == {1} \cup {i \in DOMAIN funcs : funcs[i].embedded} \cup Mentioned(globals \cup {MainSym})
<1>1. /\ stage = "mark" /\ err = {} /\ used' = us /\ todo' = us /\ stage' = "search"
      /\ UNCHANGED <<source, err, newaddr, total, out>>
  BY DEF MarkRoots
<1>2. funcs \in Seq(FuncRecord) /\ Len(funcs) \in Nat \ {0} /\ DOMAIN funcs = 1 .. Len(funcs)
  BY SourceFacts
<1>3. Mentioned(globals \cup {MainSym}) \subseteq 1 .. Len(funcs)
  BY <1>2, MentionedFacts
<1>4. /\ us \subseteq 1 .. Len(funcs) /\ 1 \in us
      /\ \A i \in 1 .. Len(funcs) : funcs[i].embedded => i \in us
  <2> DEFINE m == Mentioned(globals \cup {MainSym})
             emb == {i \in 1 .. Len(funcs) : funcs[i].embedded}
  <2>1. us = {1} \cup emb \cup m
    BY <1>2
  <2>2. emb \subseteq 1 .. Len(funcs) /\ 1 \in 1 .. Len(funcs)
    BY <1>2
  <2> HIDE DEF m, us
  <2>3. us \subseteq 1 .. Len(funcs) /\ 1 \in us
    BY <1>3, <2>1, <2>2 DEF m
  <2>4. \A i \in 1 .. Len(funcs) : funcs[i].embedded => i \in us
    BY <2>1
  <2> QED BY <2>3, <2>4
<1>5. Covers(sym, funcs, globals \cup {MainSym}, us)
  BY <1>2, MentionedFacts
<1> HIDE DEF us
<1>6. Marked(sym, funcs, globals, us, us)
  BY <1>4, <1>5 DEF Marked
<1>7. Fresh /\ current.at = 0 /\ out = StartOut /\ Noted(sym, globals, asked)
  BY <1>1 DEF StageInv
<1>8. Measured(glulx, funcs, us, newaddr, total)
  <2>1. newaddr = <<>> /\ total = [before |-> 0, after |-> 0]
    BY <1>7 DEF Fresh
  <2>2. newaddr \in Seq(Nat) /\ Len(newaddr) = 0 /\ total \in [before : Nat, after : Nat]
        /\ total.before = 0 /\ total.after = 0
    BY <2>1
  <2>3. 0 % Scale = 0
    BY DeadAssumption
  <2>4. \A k \in us : ~(k <= 0 /\ k > 1)
    BY <1>2, <1>4
  <2> QED BY <1>2, <2>2, <2>3, <2>4 DEF Measured
<1>9. SourceInv'
  BY <1>1 DEF source, SourceInv
<1>10. StageInv'
  BY <1>1, <1>6, <1>7, <1>8 DEF source, StageInv, Fresh
<1> QED
  BY <1>9, <1>10

\* A function of the list is processed.
LEMMA SearchKeeps ==
  ASSUME SourceInv, StageInv, Search
  PROVE  SourceInv' /\ StageInv'
<1>1. stage = "search" /\ UNCHANGED <<source, stage, err, newaddr, total, out>>
  BY DEF Search
<1>2. PICK f \in todo :
        /\ used' = used \cup (Mentioned(funcs[f].refs) \ used)
        /\ todo' = (todo \ {f}) \cup (Mentioned(funcs[f].refs) \ used)
  BY DEF Search
<1> DEFINE all == Mentioned(funcs[f].refs)
           us == used \cup (all \ used)
           td == (todo \ {f}) \cup (all \ used)
<1>3. funcs \in Seq(FuncRecord) /\ Len(funcs) \in Nat \ {0}
  BY SourceFacts
<1>4. all \subseteq 1 .. Len(funcs) /\ Covers(sym, funcs, funcs[f].refs, us)
  BY <1>3, MentionedFacts
<1>5. /\ Marked(sym, funcs, globals, used, todo) /\ Measured(glulx, funcs, used, newaddr, total)
      /\ newaddr # <<>> => todo = {}
  BY <1>1 DEF StageInv
<1> HIDE DEF all
<1>6. Marked(sym, funcs, globals, us, td)
  <2>1. /\ us \subseteq 1 .. Len(funcs) /\ td \subseteq us /\ 1 \in us
        /\ \A i \in 1 .. Len(funcs) : funcs[i].embedded => i \in us
    BY <1>4, <1>5 DEF Marked
  <2>2. Covers(sym, funcs, globals \cup {MainSym}, us)
    BY <1>5, CoversMore DEF Marked
  <2>3. ASSUME NEW g \in us \ td PROVE Covers(sym, funcs, funcs[g].refs, us)
    <3>1. g = f \/ g \in used \ todo
      OBVIOUS
    <3>2. g \in used \ todo => Covers(sym, funcs, funcs[g].refs, used)
      BY <1>5 DEF Marked
    <3> QED BY <1>4, <3>1, <3>2, CoversMore
  <2> QED BY <2>1, <2>2, <2>3 DEF Marked
<1>7. Measured(glulx, funcs, us, newaddr, total)
  <2>1. newaddr = <<>>
    BY <1>2, <1>5
  <2>2. Len(newaddr) = 0
    BY <2>1
  <2>3. \A k \in us : ~(k <= 0 /\ k > 1)
    BY <1>3, <1>6 DEF Marked
  <2> QED BY <1>5, <2>2, <2>3 DEF Measured
<1> HIDE DEF us, td
<1>8. used' = us /\ todo' = td /\ newaddr = <<>>
  BY <1>2, <1>5 DEF us, td, all
<1>9. SourceInv'
  BY <1>1 DEF source, SourceInv
<1>10. StageInv'
  BY <1>1, <1>6, <1>7, <1>8 DEF source, StageInv
<1> QED
  BY <1>9, <1>10

-----------------------------------------------------------------------------
(* The new addresses.                                                      *)

\* The sizes behind measured functions stay when one more is measured.
LEMMA SizeAtAppend ==
  ASSUME NEW fs, NEW us, us \subseteq Nat \ {0}, NEW na \in Seq(Nat), NEW a \in Nat,
         NEW n \in Nat, n <= Len(na), NEW v, SizeAt(fs, us, na, n, v)
  PROVE  SizeAt(fs, us, Append(na, a), n, v)
<1>1. PICK k \in us : k <= n /\ (\A m \in us : m <= n => m <= k) /\ v = na[k] + fs[k].len
  BY DEF SizeAt
<1>2. k \in 1 .. Len(na) /\ Append(na, a)[k] = na[k]
  BY <1>1, AppendProperties
<1> QED
  BY <1>1, <1>2 DEF SizeAt

\* One more function is measured.
LEMMA MeasuredNext ==
  ASSUME NEW g \in BOOLEAN, NEW fs, NEW e, Tiled(fs, e), ~g => Packed(fs, e),
         NEW us, us \subseteq 1 .. Len(fs), 1 \in us, NEW na, NEW to, Measured(g, fs, us, na, to),
         NEW n, n = Len(na), n < Len(fs),
         NEW a, a = IF n + 1 \in us THEN to.after ELSE 0,
         NEW after, after = IF n + 1 \in us THEN to.after + fs[n + 1].len ELSE to.after
  PROVE  /\ Measured(g, fs, us, Append(na, a), [before |-> to.before + fs[n + 1].len, after |-> after])
         /\ fs[n + 1].at = to.before
         /\ g \/ after % Scale = 0
<1> DEFINE nb == Append(na, a)
           before == to.before + fs[n + 1].len
           tn == [before |-> before, after |-> after]
<1>1. /\ na \in Seq(Nat) /\ n \in Nat /\ n + 1 \in 1 .. Len(fs) /\ Len(fs) \in Nat
      /\ to.before \in Nat /\ to.after \in Nat /\ fs[n + 1].len \in Nat /\ fs[n + 1].at \in Nat
  BY TiledFacts, LenProperties DEF Measured
<1>2. us \subseteq Nat \ {0} /\ Scale \in Nat \ {0}
  BY <1>1, DeadAssumption
<1>3. after \in Nat /\ a \in Nat /\ before \in Nat
  <2>1. to.after \in Nat /\ to.after + fs[n + 1].len \in Nat /\ before \in Nat
    BY ONLY <1>1, SMTT(30)
  <2> HIDE DEF before
  <2> QED BY ONLY <2>1, a = IF n + 1 \in us THEN to.after ELSE 0,
            after = IF n + 1 \in us THEN to.after + fs[n + 1].len ELSE to.after
<1>4. g \/ after % Scale = 0
  <2>1. CASE g
    BY <2>1
  <2>2. CASE ~g /\ n + 1 \in us
    <3>1. to.after % Scale = 0 /\ fs[n + 1].len % Scale = 0
      BY <1>1, <2>2 DEF Measured, Packed
    <3> DEFINE c == to.after
               d == fs[n + 1].len
    <3>2. c \in Nat /\ d \in Nat /\ c % Scale = 0 /\ d % Scale = 0 /\ after = c + d
      BY <1>1, <2>2, <3>1
    <3> HIDE DEF c, d
    <3>3. (c + d) % Scale = 0
      BY <1>2, <3>2, SumAligned
    <3> QED BY <3>2, <3>3
  <2>3. CASE ~g /\ n + 1 \notin us
    BY <2>3 DEF Measured
  <2> QED BY <2>1, <2>2, <2>3
<1>5. fs[n + 1].at = to.before
  <2>1. CASE n = 0
    BY <2>1 DEF Measured, Tiled
  <2>2. CASE n # 0
    <3>1. n \in 1 .. Len(fs) - 1
      BY <1>1, <2>2
    <3>2. fs[n + 1].at = fs[n].at + fs[n].len
      BY <3>1 DEF Tiled
    <3> QED BY <2>2, <3>2 DEF Measured
  <2> QED BY <2>1, <2>2
<1>6. /\ nb \in Seq(Nat) /\ Len(nb) = n + 1 /\ nb[n + 1] = a
      /\ \A i \in 1 .. n : nb[i] = na[i]
  BY <1>1, <1>3, AppendProperties
<1>7. \A m \in Nat : \A v : m <= n /\ SizeAt(fs, us, na, m, v) => SizeAt(fs, us, nb, m, v)
  BY <1>1, <1>2, <1>3, SizeAtAppend
<1> HIDE DEF nb, before
<1>8. nb[1] = 0
  <2>1. CASE n = 0
    BY <1>6, <2>1 DEF Measured
  <2>2. CASE n # 0
    <3>1. na[1] = 0
      BY <2>2 DEF Measured
    <3>2. 1 \in 1 .. n
      BY <1>1, <2>2
    <3> QED BY <1>6, <3>1, <3>2
  <2> QED BY <2>1, <2>2
<1>9. SizeAt(fs, us, nb, n + 1, after)
  <2>1. CASE n + 1 \in us
    <3>1. after = nb[n + 1] + fs[n + 1].len
      BY <1>6, <2>1
    <3> QED BY <1>1, <1>2, <2>1, <3>1 DEF SizeAt
  <2>2. CASE n + 1 \notin us
    <3>1. n # 0
      BY <2>2
    <3>2. SizeAt(fs, us, nb, n, to.after)
      BY <1>1, <1>7, <3>1 DEF Measured
    <3>3. PICK k \in us : k <= n /\ (\A m \in us : m <= n => m <= k) /\ to.after = nb[k] + fs[k].len
      BY <3>2 DEF SizeAt
    <3>4. \A m \in us : m <= n + 1 => m <= n
      BY <1>1, <1>2, <2>2
    <3>5. k <= n + 1 /\ \A m \in us : m <= n + 1 => m <= k
      BY <1>1, <1>2, <3>3, <3>4
    <3> QED BY <2>2, <3>3, <3>5 DEF SizeAt
  <2> QED BY <2>1, <2>2
<1>10. ASSUME NEW k \in us, k <= n + 1, k > 1
       PROVE  SizeAt(fs, us, nb, k - 1, nb[k])
  <2>1. CASE k = n + 1
    <3>1. n # 0 /\ nb[k] = to.after /\ k - 1 = n
      BY <1>1, <1>6, <1>10, <2>1
    <3> QED BY <1>1, <1>7, <3>1 DEF Measured
  <2>2. CASE k # n + 1
    <3>1. k \in 1 .. n /\ nb[k] = na[k] /\ k - 1 \in Nat /\ k - 1 <= n
      <4>1. k \in Nat /\ n \in Nat /\ k <= n + 1 /\ k > 1 /\ k # n + 1
        BY <1>1, <1>2, <1>10, <2>2
      <4>2. k \in 1 .. n /\ k - 1 \in Nat /\ k - 1 <= n
        BY ONLY <4>1
      <4> QED BY <1>6, <4>2
    <3>2. SizeAt(fs, us, na, k - 1, na[k])
      BY <1>10, <3>1 DEF Measured
    <3> QED BY <1>7, <3>1, <3>2
  <2> QED BY <2>1, <2>2
<1>11. tn \in [before : Nat, after : Nat] /\ tn.before = before /\ tn.after = after
  BY <1>3
<1>12. before = fs[n + 1].at + fs[n + 1].len
  BY <1>5 DEF before
<1> HIDE DEF tn
<1>13. Measured(g, fs, us, nb, tn)
  BY <1>1, <1>4, <1>6, <1>8, <1>9, <1>10, <1>11, <1>12 DEF Measured
<1> QED
  BY <1>4, <1>5, <1>13 DEF nb, tn, before

\* Measuring finds no gap and no unaligned function.
LEMMA MeasureKeeps ==
  ASSUME SourceInv, StageInv, Measure
  PROVE  SourceInv' /\ StageInv'
<1> DEFINE n == Len(newaddr)
           after == IF n + 1 \in used THEN total.after + funcs[n + 1].len ELSE total.after
           a == IF n + 1 \in used THEN total.after ELSE 0
           nb == Append(newaddr, a)
           tn == [before |-> total.before + funcs[n + 1].len, after |-> after]
<1>1. /\ stage = "search" /\ todo = {} /\ n < Len(funcs)
      /\ newaddr' = nb /\ total' = tn
      /\ err' = err \cup {e \in {"gap"} : funcs[n + 1].at # total.before}
                    \cup {e \in {"unaligned"} : ~glulx /\ after % Scale # 0}
      /\ UNCHANGED <<source, stage, used, todo, out>>
  BY DEF Measure
<1>2. /\ Tiled(funcs, End(current, pc)) /\ (~glulx => Packed(funcs, End(current, pc)))
      /\ glulx \in BOOLEAN
  BY DEF SourceInv, Parsed
<1>3. /\ Marked(sym, funcs, globals, used, todo) /\ Measured(glulx, funcs, used, newaddr, total)
      /\ used \subseteq 1 .. Len(funcs) /\ 1 \in used
  BY <1>1 DEF StageInv, Marked
<1>4. /\ Measured(glulx, funcs, used, nb, tn)
      /\ funcs[n + 1].at = total.before /\ (glulx \/ after % Scale = 0)
  <2>1. /\ n = Len(newaddr) /\ n < Len(funcs)
        /\ a = (IF n + 1 \in used THEN total.after ELSE 0)
        /\ after = (IF n + 1 \in used THEN total.after + funcs[n + 1].len ELSE total.after)
    BY <1>1
  <2> HIDE DEF n, a, after
  <2> QED BY <1>2, <1>3, <2>1, MeasuredNext
<1> HIDE DEF nb, tn, after, a, n
<1>5. err' = err
  BY <1>1, <1>4
<1>6. SourceInv'
  BY <1>1 DEF source, SourceInv
<1>7. StageInv'
  BY <1>1, <1>3, <1>4, <1>5 DEF source, StageInv
<1> QED
  BY <1>6, <1>7

-----------------------------------------------------------------------------
(* Patching.                                                               *)

\* No two functions begin at one address.
LEMMA MovedRight ==
  ASSUME NEW e, Tiled(funcs, e), NEW k \in 1 .. Len(funcs), NEW a, funcs[k].at = a
  PROVE  Moved(a) = newaddr[k] /\ FunctionsAt(a) = {k}
<1>1. DOMAIN funcs = 1 .. Len(funcs)
  BY DEF Tiled
<1>2. ASSUME NEW i \in 1 .. Len(funcs), funcs[i].at = a PROVE i = k
  <2>1. /\ funcs[i].at \in Nat /\ funcs[i].len \in Nat \ {0}
        /\ funcs[k].at \in Nat /\ funcs[k].len \in Nat \ {0}
    BY TiledFacts
  <2>2. i < k => funcs[i].at + funcs[i].len <= funcs[k].at
    BY DEF Tiled
  <2>3. k < i => funcs[k].at + funcs[k].len <= funcs[i].at
    BY DEF Tiled
  <2> QED BY <1>2, <2>1, <2>2, <2>3
<1>3. FunctionsAt(a) = {k}
  BY <1>1, <1>2 DEF FunctionsAt
<1>4. Max({k}) = k
  BY DEF Max
<1> QED
  BY <1>3, <1>4 DEF Moved

\* A patched value is final.
LEMMA PatchedRight ==
  ASSUME NEW e, Tiled(funcs, e), NEW o
  PROVE  Final(sym, funcs, newaddr, o, Patched(o))
<1> DEFINE a == IF o.marker = "routine" THEN o.value ELSE sym[o.value].value
<1>1. Patched(o) = Moved(a)
  BY DEF Patched
<1>2. \A k \in 1 .. Len(funcs) : funcs[k].at = a => Moved(a) = newaddr[k]
  BY MovedRight
<1> HIDE DEF a
<1> QED
  BY <1>1, <1>2 DEF Final, a

\* A name among covered mentions is not stripped, whatever holds its address.
LEMMA NameKept ==
  ASSUME Symbols(sym, funcs), funcs \in Seq(FuncRecord), NEW s \in Syms, NEW refs, s \in refs,
         Covers(sym, funcs, refs, used), NEW o, Stands(sym, o, s)
  PROVE  PatchErrors(o) \subseteq {"undefined"}
<1>1. DOMAIN funcs = 1 .. Len(funcs)
  OBVIOUS
<1>2. ASSUME sym[s].type = "routine" PROVE FunctionsAt(sym[s].value) \cap used # {}
  <2>1. PICK i \in 1 .. Len(funcs) : funcs[i].at = sym[s].value
    BY <1>2 DEF Symbols
  <2>2. i \in used
    BY <1>2, <2>1 DEF Covers
  <2> QED BY <1>1, <2>1, <2>2 DEF FunctionsAt
<1>3. sym[s].type \in {"unknown", "zero", "routine"}
  BY DEF Symbols, SymRecord
<1>4. CASE o.marker = "routine"
  <2>1. FunctionsAt(o.value) \cap used # {}
    BY <1>2, <1>4 DEF Stands, Fixed
  <2> QED BY <1>4, <2>1 DEF PatchErrors
<1>5. CASE o.marker # "routine"
  <2>1. o.value = s
    BY <1>5 DEF Stands
  <2>2. CASE sym[s].type = "unknown"
    BY <1>5, <2>1, <2>2 DEF PatchErrors
  <2>3. CASE sym[s].type = "zero"
    BY <1>5, <2>1, <2>3 DEF PatchErrors
  <2>4. CASE sym[s].type = "routine"
    BY <1>2, <1>5, <2>1, <2>4 DEF PatchErrors
  <2> QED BY <1>3, <2>2, <2>3, <2>4
<1> QED
  BY <1>4, <1>5

\* No table asks for the address of a dropped routine.
LEMMA TablesKept ==
  ASSUME SourceInv, Noted(sym, globals, asked), Marked(sym, funcs, globals, used, todo)
  PROVE  /\ \A d \in Range(data) : PatchErrors(d) \subseteq {"undefined"}
         /\ \A t \in Range(tokens) : PatchErrors(Token(t)) \subseteq {"undefined"}
         /\ \A s \in asked : PatchErrors(ActionOf(s)) \subseteq {"undefined"}
<1>1. /\ Symbols(sym, funcs) /\ funcs \in Seq(FuncRecord) /\ DOMAIN funcs = 1 .. Len(funcs)
      /\ Statics(sym, funcs, globals, data, tokens) /\ globals \subseteq Syms /\ asked \subseteq Syms
  BY SourceFacts DEF SourceInv, Parsed, Statics
<1>2. Covers(sym, funcs, globals \cup {MainSym}, used)
  BY DEF Marked
<1>3. ASSUME NEW d \in Range(data) PROVE PatchErrors(d) \subseteq {"undefined"}
  <2>1. PICK i \in 1 .. Len(data) : data[i] = d
    BY <1>1 DEF Range, Statics
  <2>2. CASE d.of = NoSym
    <3>1. d.marker = "routine" /\ \E f \in 1 .. Len(funcs) : funcs[f].embedded /\ funcs[f].at = d.value
      BY <1>1, <2>1, <2>2 DEF Statics
    <3>2. FunctionsAt(d.value) \cap used # {}
      BY <1>1, <3>1 DEF FunctionsAt, Marked
    <3> QED BY <3>1, <3>2 DEF PatchErrors
  <2>3. CASE d.of # NoSym
    <3>1. d.of \in globals /\ Stands(sym, d, d.of)
      BY <1>1, <2>1, <2>3 DEF Statics
    <3>2. d.of \in Syms /\ d.of \in globals \cup {MainSym}
      BY <1>1, <3>1
    <3> QED BY <1>1, <1>2, <3>1, <3>2, NameKept
  <2> QED BY <2>2, <2>3
<1>4. ASSUME NEW t \in Range(tokens) PROVE PatchErrors(Token(t)) \subseteq {"undefined"}
  <2>1. PICK i \in 1 .. Len(tokens) : tokens[i] = t
    BY <1>1 DEF Range, Statics
  <2>2. t.of \in globals /\ Fixed(sym, t.of, t.value)
    BY <1>1, <2>1 DEF Statics
  <2>3. Stands(sym, Token(t), t.of)
    BY <2>2 DEF Stands, Token
  <2>4. t.of \in Syms /\ t.of \in globals \cup {MainSym}
    BY <1>1, <2>2
  <2> QED BY <1>1, <1>2, <2>3, <2>4, NameKept
<1>5. ASSUME NEW s \in asked PROVE PatchErrors(ActionOf(s)) \subseteq {"undefined"}
  <2>1. sym[s].type = "routine" /\ s \in globals /\ s \in Syms
    BY <1>1 DEF Noted
  <2>2. PICK i \in 1 .. Len(funcs) : funcs[i].at = sym[s].value
    BY <1>1, <2>1 DEF Symbols
  <2>3. i \in used
    BY <1>2, <2>1, <2>2 DEF Covers
  <2>4. FunctionsAt(sym[s].value) \cap used # {}
    BY <1>1, <2>2, <2>3 DEF FunctionsAt
  <2>5. ActionOf(s).marker = "routine" /\ ActionOf(s).value = sym[s].value
    BY DEF ActionOf
  <2> HIDE DEF ActionOf
  <2> QED BY <2>4, <2>5 DEF PatchErrors
<1> QED
  BY <1>3, <1>4, <1>5

\* The tables are patched, and the code area is as long as the functions.
LEMMA PatchTablesKeeps ==
  ASSUME SourceInv, StageInv, PatchTables
  PROVE  SourceInv' /\ StageInv'
<1> DEFINE A == UNION {PatchErrors(d) : d \in Range(data)}
           B == UNION {PatchErrors(Token(t)) : t \in Range(tokens)}
           C == UNION {PatchErrors(ActionOf(s)) : s \in asked}
           D == {e \in {"size"} : pc # total.before}
<1>1. /\ stage = "search" /\ Len(newaddr) = Len(funcs)
      /\ err' = err \cup A \cup B \cup C \cup D /\ stage' = "output"
      /\ UNCHANGED <<source, used, todo, newaddr, total, out>>
  BY DEF PatchTables
<1>2. /\ Noted(sym, globals, asked) /\ Marked(sym, funcs, globals, used, todo)
      /\ Measured(glulx, funcs, used, newaddr, total) /\ (newaddr # <<>> => todo = {})
      /\ out = StartOut /\ current.at = 0 /\ err \subseteq {"undefined"}
  BY <1>1 DEF StageInv
<1>3. A \subseteq {"undefined"} /\ B \subseteq {"undefined"} /\ C \subseteq {"undefined"}
  BY <1>2, TablesKept
<1>4. D = {}
  <2>1. Tiled(funcs, pc) /\ Len(funcs) \in Nat \ {0}
    BY <1>2, SourceFacts DEF End
  <2>2. total.before = funcs[Len(funcs)].at + funcs[Len(funcs)].len
    BY <1>1, <1>2, <2>1 DEF Measured
  <2> QED BY <2>1, <2>2 DEF Tiled
<1>5. err' \subseteq {"undefined"}
  <2> HIDE DEF A, B, C, D
  <2> QED BY <1>1, <1>2, <1>3, <1>4
<1> HIDE DEF A, B, C, D
<1>6. Copied(sym, funcs, used, newaddr, operands, pc, StartOut)
  <2> DEFINE o == StartOut
  <2>1. o \in OutRecord /\ o.patch = 1 /\ o.j = 0 /\ o.placed = <<>>
    BY DEF StartOut, OutRecord
  <2>2. Spaced(operands, pc) /\ Len(operands) \in Nat \ {0} /\ pc \in Nat /\ Bank \in Nat
    BY SourceFacts, DeadAssumption DEF SourceInv, Parsed
  <2>3. operands[1].at \in 1 .. Bank - 1
    BY <2>2 DEF Spaced
  <2>4. o.patch <= Len(operands) => o.j <= operands[o.patch].at /\ operands[o.patch].at - o.j < Bank
    BY <2>1, <2>2, <2>3
  <2>5. Reading(funcs, used, newaddr, operands, pc, o)
    BY DEF Reading
  <2>6. Written1(sym, funcs, used, newaddr, operands, o)
    <3> HIDE DEF o
    <3>1. Len(o.placed) = 0 /\ 1 .. Len(o.placed) = {} /\ 1 .. o.patch - 1 = {}
      BY <2>1
    <3> QED BY <3>1 DEF Written1
  <2> HIDE DEF o
  <2>7. o.patch \in 1 .. Len(operands) + 1 /\ o.j <= pc
    BY <2>1, <2>2
  <2> QED BY <2>1, <2>4, <2>5, <2>6, <2>7 DEF Copied, o
<1>7. SourceInv'
  BY <1>1 DEF source, SourceInv
<1>8. StageInv'
  BY <1>1, <1>2, <1>5, <1>6 DEF source, StageInv
<1> QED
  BY <1>7, <1>8

-----------------------------------------------------------------------------
(* The output of the code area.                                            *)

\* There is one size.
LEMMA SizeAtUnique ==
  ASSUME NEW fs, NEW us \in SUBSET Nat, NEW na, NEW n \in Nat, NEW v, NEW w,
         SizeAt(fs, us, na, n, v), SizeAt(fs, us, na, n, w)
  PROVE  v = w
<1>1. PICK k \in us : k <= n /\ (\A m \in us : m <= n => m <= k) /\ v = na[k] + fs[k].len
  BY DEF SizeAt
<1>2. PICK l \in us : l <= n /\ (\A m \in us : m <= n => m <= l) /\ w = na[l] + fs[l].len
  BY DEF SizeAt
<1>3. k \in Nat /\ l \in Nat /\ k <= l /\ l <= k
  BY <1>1, <1>2
<1>4. k = l
  BY ONLY <1>3
<1> QED
  BY <1>1, <1>2, <1>4

\* A function that is not used adds nothing.
LEMMA SizeAtUnused ==
  ASSUME NEW fs, NEW us \in SUBSET Nat, NEW na, NEW n \in Nat, n + 1 \notin us, NEW v,
         SizeAt(fs, us, na, n, v)
  PROVE  SizeAt(fs, us, na, n + 1, v)
<1>1. PICK k \in us : k <= n /\ (\A m \in us : m <= n => m <= k) /\ v = na[k] + fs[k].len
  BY DEF SizeAt
<1>2. \A m \in us : m <= n + 1 => m <= n
  <2> TAKE m \in us
  <2>1. m \in Nat /\ m # n + 1
    OBVIOUS
  <2> QED BY ONLY <2>1, n \in Nat
<1>3. k <= n + 1
  BY <1>1
<1> QED
  BY <1>1, <1>2, <1>3 DEF SizeAt

\* Behind the function k.
LEMMA SizeBehind ==
  ASSUME NEW fs, NEW us \in SUBSET Nat, NEW na, NEW o, NEW k \in Nat,
         fs[k].at \in Nat, fs[k].len \in Nat, k \in us => na[k] \in Nat,
         Within(fs, us, na, o, k), o.j = o.next
  PROVE  SizeAt(fs, us, na, k, o.size)
<1>1. CASE k \in us
  <2>1. o.size = na[k] + (o.j - fs[k].at) /\ o.j = fs[k].at + fs[k].len
    BY <1>1 DEF Within
  <2>2. o.size = na[k] + fs[k].len
    BY <1>1, <2>1
  <2>3. k <= k /\ \A m \in us : m <= k => m <= k
    OBVIOUS
  <2> QED BY <1>1, <2>2, <2>3 DEF SizeAt
<1>2. CASE k \notin us
  BY <1>2 DEF Within
<1> QED
  BY <1>1, <1>2

\* Every operand lies in one function, and the functions lie apart.
LEMMA OneInside ==
  ASSUME NEW fs, NEW e, Tiled(fs, e), NEW f \in 1 .. Len(fs), NEW k \in 1 .. Len(fs),
         NEW o, o.at \in Nat, Inside(fs[f], o), fs[k].at <= o.at, o.at <= fs[k].at + fs[k].len
  PROVE  f = k
<1>1. /\ fs[f].at \in Nat /\ fs[f].len \in Nat \ {0}
      /\ fs[k].at \in Nat /\ fs[k].len \in Nat \ {0}
  BY TiledFacts
<1>2. fs[f].at < o.at /\ o.at + 2 <= fs[f].at + fs[f].len
  BY DEF Inside, OperandSize
<1>3. f < k => fs[f].at + fs[f].len <= fs[k].at
  BY DEF Tiled
<1>4. k < f => fs[k].at + fs[k].len <= fs[f].at
  BY DEF Tiled
<1>5. ~(f < k) /\ ~(k < f)
  <2>1. ~(f < k)
    BY ONLY <1>1, <1>2, <1>3, o.at \in Nat, fs[k].at <= o.at
  <2>2. ~(k < f)
    BY ONLY <1>1, <1>2, <1>4, o.at \in Nat, o.at <= fs[k].at + fs[k].len
  <2> QED BY <2>1, <2>2
<1>6. f \in Int /\ k \in Int
  BY LenProperties DEF Tiled
<1> QED
  BY <1>5, <1>6

\* What the output pass relies on.
LEMMA OutputFacts ==
  ASSUME SourceInv, StageInv, stage \in {"output", "done"}
  PROVE  /\ Tiled(funcs, pc) /\ Spaced(operands, pc) /\ Standing(sym, operands)
         /\ \A i \in 1 .. Len(operands) : \E f \in 1 .. Len(funcs) : Inside(funcs[f], operands[i])
         /\ Marked(sym, funcs, globals, used, todo) /\ todo = {}
         /\ Measured(glulx, funcs, used, newaddr, total) /\ Len(newaddr) = Len(funcs)
         /\ Copied(sym, funcs, used, newaddr, operands, pc, out)
         /\ used \in SUBSET Nat /\ used \subseteq 1 .. Len(funcs) /\ newaddr \in Seq(Nat)
<1>1. current.at = 0 /\ Len(funcs) \in Nat \ {0}
  BY SourceFacts DEF StageInv
<1>2. Tiled(funcs, pc)
  BY <1>1, SourceFacts DEF End
<1>3. Spaced(operands, pc) /\ Standing(sym, operands)
  BY DEF SourceInv, Parsed
<1>4. \A i \in 1 .. Len(operands) : \E f \in 1 .. Len(funcs) : Inside(funcs[f], operands[i])
  BY <1>1 DEF SourceInv, Parsed, Placed
<1>5. /\ Marked(sym, funcs, globals, used, todo) /\ (newaddr # <<>> => todo = {})
      /\ Measured(glulx, funcs, used, newaddr, total) /\ Len(newaddr) = Len(funcs)
      /\ Copied(sym, funcs, used, newaddr, operands, pc, out)
  BY DEF StageInv
<1>6. newaddr # <<>>
  BY <1>1, <1>5
<1>7. used \subseteq 1 .. Len(funcs) /\ newaddr \in Seq(Nat)
  BY <1>5 DEF Marked, Measured
<1>8. used \in SUBSET Nat
  BY <1>1, <1>7
<1> QED
  BY <1>2, <1>3, <1>4, <1>5, <1>6, <1>7, <1>8

\* The next operand to be patched, or the end of the code.
Goal == IF out.patch <= Len(operands) THEN operands[out.patch].at ELSE pc

\* The pass finds the next operand, however many banks away from 0.
LEMMA TargetRight ==
  ASSUME SourceInv, StageInv, stage = "output"
  PROVE  /\ PatchTarget.offset = Goal /\ ~PatchTarget.short
         /\ Goal \in Nat /\ out.j \in Nat /\ out.j <= Goal /\ Goal <= pc
<1>1. /\ Copied(sym, funcs, used, newaddr, operands, pc, out) /\ Tiled(funcs, pc)
      /\ \A i \in 1 .. Len(operands) : \E f \in 1 .. Len(funcs) : Inside(funcs[f], operands[i])
  BY OutputFacts
<1>2. /\ out.j \in Nat /\ out.patch \in 1 .. Len(operands) + 1 /\ out.j <= pc
      /\ out.patch <= Len(operands) =>
           out.j <= operands[out.patch].at /\ operands[out.patch].at - out.j < Bank
  BY <1>1 DEF Copied, OutRecord
<1>3. pc \in Nat /\ Len(operands) \in Nat /\ glulx \in BOOLEAN
      /\ \A i \in 1 .. Len(operands) : operands[i].at \in Nat
  BY SourceFacts
<1>4. CASE out.patch <= Len(operands)
  <2> DEFINE at == operands[out.patch].at
  <2>1. out.patch \in 1 .. Len(operands)
    BY <1>2, <1>3, <1>4
  <2>2. at \in Nat /\ out.j <= at /\ at - out.j < Bank
    BY <1>2, <1>3, <1>4, <2>1
  <2>3. Goal = at /\ PatchTarget = Decode(Encode(at), out.j)
    BY <1>4 DEF Goal, PatchTarget
  <2>4. PICK f \in 1 .. Len(funcs) : Inside(funcs[f], operands[out.patch])
    BY <1>1, <2>1
  <2>5. at <= pc
    <3>1. at + 2 <= funcs[f].at + funcs[f].len /\ funcs[f].at + funcs[f].len <= pc
      BY <1>1, <2>4 DEF Inside, OperandSize, Tiled
    <3>2. funcs[f].at \in Nat /\ funcs[f].len \in Nat
      BY <1>1, TiledFacts
    <3> HIDE DEF at
    <3> QED BY <1>3, <2>2, <3>1, <3>2
  <2> HIDE DEF at
  <2>6. Decode(Encode(at), out.j).offset = at /\ ~Decode(Encode(at), out.j).short
    BY <1>2, <1>3, <2>2, Decoded
  <2> QED BY <1>2, <2>2, <2>3, <2>5, <2>6
<1>5. CASE ~(out.patch <= Len(operands))
  BY <1>2, <1>3, <1>5 DEF Goal, PatchTarget
<1> QED
  BY <1>4, <1>5

(* The output changes a few fields at a time.                              *)
Passed(o, j, s)      == [o EXCEPT !.j = j, !.size = s]
Turned(o, us, n, k)  == [o EXCEPT !.use = k \in us, !.next = n, !.func = k + 1]
Ended(o, n)          == [o EXCEPT !.use = TRUE, !.next = n]
Placing(o, j, p, s, l) == [o EXCEPT !.j = j, !.patch = p, !.size = s, !.placed = l]
PlacedRecord == [at : Nat, patch : Nat, value : Nat]
PlacedSeqs == Seq(PlacedRecord)

\* Field by field, the output after code.
LEMMA Passing ==
  ASSUME NEW o \in OutRecord, NEW j \in Nat, NEW s \in Nat
  PROVE  /\ Passed(o, j, s) \in OutRecord /\ Passed(o, j, s).j = j /\ Passed(o, j, s).size = s
         /\ Passed(o, j, s).next = o.next /\ Passed(o, j, s).use = o.use
         /\ Passed(o, j, s).func = o.func /\ Passed(o, j, s).patch = o.patch
         /\ Passed(o, j, s).placed = o.placed
<1> DEFINE T == Seq([at : Nat, patch : Nat, value : Nat])
<1> HIDE DEF T
<1>1. o \in [j : Nat, size : Nat, next : Nat, use : BOOLEAN, func : Nat, patch : Nat, placed : T]
  BY DEF OutRecord, T
<1>2. Passed(o, j, s) \in [j : Nat, size : Nat, next : Nat, use : BOOLEAN, func : Nat, patch : Nat, placed : T]
  BY <1>1 DEF Passed
<1>3. /\ Passed(o, j, s).j = j /\ Passed(o, j, s).size = s
      /\ Passed(o, j, s).next = o.next /\ Passed(o, j, s).use = o.use
      /\ Passed(o, j, s).func = o.func /\ Passed(o, j, s).patch = o.patch
      /\ Passed(o, j, s).placed = o.placed
  BY <1>1 DEF Passed
<1> QED
  BY <1>2, <1>3 DEF OutRecord, T

\* Field by field, the output at the next function.
LEMMA Turning ==
  ASSUME NEW o \in OutRecord, NEW us, NEW n \in Nat, NEW k \in Nat
  PROVE  /\ Turned(o, us, n, k) \in OutRecord
         /\ Turned(o, us, n, k).use <=> k \in us
         /\ Turned(o, us, n, k).next = n /\ Turned(o, us, n, k).func = k + 1
         /\ Turned(o, us, n, k).j = o.j /\ Turned(o, us, n, k).size = o.size
         /\ Turned(o, us, n, k).patch = o.patch /\ Turned(o, us, n, k).placed = o.placed
<1> DEFINE T == Seq([at : Nat, patch : Nat, value : Nat])
<1> HIDE DEF T
<1>1. o \in [j : Nat, size : Nat, next : Nat, use : BOOLEAN, func : Nat, patch : Nat, placed : T]
  BY DEF OutRecord, T
<1>2. Turned(o, us, n, k) \in [j : Nat, size : Nat, next : Nat, use : BOOLEAN, func : Nat, patch : Nat, placed : T]
  <2> DEFINE f == k + 1
             u == k \in us
  <2>1. f \in Nat /\ u \in BOOLEAN
    OBVIOUS
  <2>2. \A b \in BOOLEAN : [o EXCEPT !.use = b, !.next = n, !.func = f]
            \in [j : Nat, size : Nat, next : Nat, use : BOOLEAN, func : Nat, patch : Nat, placed : T]
    <3> TAKE b \in BOOLEAN
    <3> HIDE DEF f
    <3> QED BY <1>1, <2>1
  <2>3. [o EXCEPT !.use = u, !.next = n, !.func = f]
            \in [j : Nat, size : Nat, next : Nat, use : BOOLEAN, func : Nat, patch : Nat, placed : T]
    <3> HIDE DEF u, f
    <3> QED BY ONLY <2>1, <2>2, Zenon
  <2> QED BY <2>3 DEF Turned
<1>3. /\ Turned(o, us, n, k).use <=> k \in us
      /\ Turned(o, us, n, k).next = n /\ Turned(o, us, n, k).func = k + 1
      /\ Turned(o, us, n, k).j = o.j /\ Turned(o, us, n, k).size = o.size
      /\ Turned(o, us, n, k).patch = o.patch /\ Turned(o, us, n, k).placed = o.placed
  BY <1>1 DEF Turned
<1> QED
  BY <1>2, <1>3 DEF OutRecord, T

\* Field by field, the output behind the last function.
LEMMA Ending ==
  ASSUME NEW o \in OutRecord, NEW n \in Nat
  PROVE  /\ Ended(o, n) \in OutRecord /\ Ended(o, n).use /\ Ended(o, n).next = n
         /\ Ended(o, n).func = o.func /\ Ended(o, n).j = o.j /\ Ended(o, n).size = o.size
         /\ Ended(o, n).patch = o.patch /\ Ended(o, n).placed = o.placed
<1> DEFINE T == Seq([at : Nat, patch : Nat, value : Nat])
<1> HIDE DEF T
<1>1. o \in [j : Nat, size : Nat, next : Nat, use : BOOLEAN, func : Nat, patch : Nat, placed : T]
  BY DEF OutRecord, T
<1>2. Ended(o, n) \in [j : Nat, size : Nat, next : Nat, use : BOOLEAN, func : Nat, patch : Nat, placed : T]
  BY <1>1 DEF Ended
<1>3. /\ Ended(o, n).use /\ Ended(o, n).next = n
      /\ Ended(o, n).func = o.func /\ Ended(o, n).j = o.j /\ Ended(o, n).size = o.size
      /\ Ended(o, n).patch = o.patch /\ Ended(o, n).placed = o.placed
  BY <1>1 DEF Ended
<1> QED
  BY <1>2, <1>3 DEF OutRecord, T

\* Field by field, the output after an operand.
LEMMA PlacingOne ==
  ASSUME NEW o \in OutRecord, NEW j \in Nat, NEW p \in Nat, NEW s \in Nat, NEW l \in PlacedSeqs
  PROVE  /\ Placing(o, j, p, s, l) \in OutRecord
         /\ Placing(o, j, p, s, l).j = j /\ Placing(o, j, p, s, l).patch = p
         /\ Placing(o, j, p, s, l).size = s /\ Placing(o, j, p, s, l).placed = l
         /\ Placing(o, j, p, s, l).next = o.next /\ Placing(o, j, p, s, l).use = o.use
         /\ Placing(o, j, p, s, l).func = o.func
<1> DEFINE T == Seq([at : Nat, patch : Nat, value : Nat])
<1>0. l \in T
  BY DEF PlacedRecord, PlacedSeqs
<1> HIDE DEF T
<1>1. o \in [j : Nat, size : Nat, next : Nat, use : BOOLEAN, func : Nat, patch : Nat, placed : T]
  BY DEF OutRecord, T
<1>2. Placing(o, j, p, s, l)
        \in [j : Nat, size : Nat, next : Nat, use : BOOLEAN, func : Nat, patch : Nat, placed : T]
  BY <1>0, <1>1 DEF Placing
<1>3. /\ Placing(o, j, p, s, l).j = j /\ Placing(o, j, p, s, l).patch = p
      /\ Placing(o, j, p, s, l).size = s /\ Placing(o, j, p, s, l).placed = l
      /\ Placing(o, j, p, s, l).next = o.next /\ Placing(o, j, p, s, l).use = o.use
      /\ Placing(o, j, p, s, l).func = o.func
  BY <1>1 DEF Placing
<1> QED
  BY <1>2, <1>3 DEF OutRecord, T

\* The output at the end of the function k - 1, or before the first, goes on to k.
LEMMA NextFunction ==
  ASSUME NEW o \in OutRecord, o.j = o.next, NEW k, k = o.func, k \in 1 .. Len(funcs),
         NEW e, Tiled(funcs, e), used \in SUBSET Nat, newaddr \in Seq(Nat), Len(newaddr) = Len(funcs),
         funcs[k].at = o.j, k = 1 => 1 \in used /\ newaddr[1] = 0 /\ o.size = 0,
         k > 1 => SizeAt(funcs, used, newaddr, k - 1, o.size),
         k > 1 /\ k \in used => SizeAt(funcs, used, newaddr, k - 1, newaddr[k])
  PROVE  /\ Iterate(o) \in OutRecord /\ Within(funcs, used, newaddr, Iterate(o), k)
         /\ Iterate(o).j = o.j /\ Iterate(o).patch = o.patch /\ Iterate(o).placed = o.placed
<1> DEFINE n == funcs[k].at + funcs[k].len
           q == Turned(o, used, n, k)
<1>1. /\ Len(funcs) \in Nat /\ k \in Nat \ {0} /\ funcs[k].at \in Nat /\ funcs[k].len \in Nat
      /\ o.j \in Nat /\ o.size \in Nat
  BY TiledFacts DEF OutRecord
<1>2. Iterate(o) = q
  BY <1>1 DEF Iterate, Turned
<1>3. /\ q \in OutRecord /\ (q.use <=> k \in used) /\ q.next = n /\ q.func = k + 1 /\ q.j = o.j
      /\ q.size = o.size /\ q.patch = o.patch /\ q.placed = o.placed
  <2>1. n \in Nat /\ k \in Nat
    BY <1>1
  <2> HIDE DEF n
  <2> QED BY <2>1, Turning
<1> HIDE DEF q
<1>4. n >= o.j /\ n = funcs[k].at + funcs[k].len
  BY <1>1
<1>5. IF k \in used THEN q.size = newaddr[k] + (q.j - funcs[k].at)
      ELSE SizeAt(funcs, used, newaddr, k, q.size)
  <2>1. CASE k \in used
    <3>1. o.size = newaddr[k]
      <4>1. CASE k = 1
        BY <4>1, <2>1
      <4>2. CASE k # 1
        <5>1. k > 1 /\ k - 1 \in Nat
          BY <1>1, <4>2
        <5> QED BY <2>1, <5>1, SizeAtUnique
      <4> QED BY <4>1, <4>2
    <3>2. q.size = newaddr[k] + 0 /\ q.j - funcs[k].at = 0
      BY <1>1, <1>3, <3>1
    <3> QED BY <2>1, <3>2
  <2>2. CASE k \notin used
    <3>1. k > 1 /\ k - 1 \in Nat /\ (k - 1) + 1 = k
      BY <1>1, <2>2
    <3>2. SizeAt(funcs, used, newaddr, (k - 1) + 1, o.size)
      BY <2>2, <3>1, SizeAtUnused
    <3> QED BY <1>3, <2>2, <3>1, <3>2
  <2> QED BY <2>1, <2>2
<1>6. Within(funcs, used, newaddr, q, k)
  <2>1. q.func = k + 1 /\ funcs[k].at <= q.j /\ q.j <= q.next /\ q.next = funcs[k].at + funcs[k].len
    BY <1>1, <1>3, <1>4
  <2>2. q.use <=> k \in used
    BY <1>3
  <2> QED BY <1>5, <2>1, <2>2 DEF Within
<1> QED
  BY <1>2, <1>3, <1>6

\* What was written stays right as long as nothing is written.
LEMMA WrittenStays ==
  ASSUME NEW sy, NEW fs, NEW us, NEW na, NEW ops, NEW o, NEW q,
         Written1(sy, fs, us, na, ops, o), q.patch = o.patch, q.placed = o.placed
  PROVE  Written1(sy, fs, us, na, ops, q)
BY DEF Written1

\* Code is copied or skipped, up to a function break or the next operand.
LEMMA OutputCodeKeeps ==
  ASSUME SourceInv, StageInv, OutputCode
  PROVE  SourceInv' /\ StageInv'
<1> DEFINE to == IF Goal < out.next THEN Goal ELSE out.next
           size == IF out.use THEN out.size + (to - out.j) ELSE out.size
           o == Passed(out, to, size)
<1>1. /\ stage = "output" /\ out.j < Goal /\ out' = Iterate(o)
      /\ UNCHANGED <<source, stage, err, used, todo, newaddr, total>>
  <2>1. /\ stage = "output" /\ out.j < PatchTarget.offset
        /\ UNCHANGED <<source, stage, err, used, todo, newaddr, total>>
    BY DEF OutputCode
  <2>2. PatchTarget.offset = Goal
    BY <2>1, TargetRight
  <2>3. out' = Iterate(o)
    BY <2>2 DEF OutputCode, Passed
  <2> QED BY <2>1, <2>2, <2>3
<1>2. /\ Tiled(funcs, pc) /\ used \in SUBSET Nat /\ used \subseteq 1 .. Len(funcs)
      /\ newaddr \in Seq(Nat) /\ Len(newaddr) = Len(funcs)
      /\ Measured(glulx, funcs, used, newaddr, total) /\ Marked(sym, funcs, globals, used, todo)
      /\ Copied(sym, funcs, used, newaddr, operands, pc, out)
      /\ \A i \in 1 .. Len(operands) : \E f \in 1 .. Len(funcs) : Inside(funcs[f], operands[i])
  BY <1>1, OutputFacts
<1>3. Goal \in Nat /\ out.j \in Nat /\ Goal <= pc /\ pc \in Nat
  BY <1>1, TargetRight, SourceFacts
<1>4. /\ out \in OutRecord /\ out.next \in Nat /\ out.size \in Nat /\ out.patch \in Nat
      /\ Reading(funcs, used, newaddr, operands, pc, out)
      /\ Written1(sym, funcs, used, newaddr, operands, out)
      /\ out.patch \in 1 .. Len(operands) + 1
      /\ out.patch <= Len(operands) => operands[out.patch].at - out.j < Bank
  BY <1>2 DEF Copied, OutRecord
<1>5. /\ Len(funcs) \in Nat \ {0} /\ Len(operands) \in Nat \ {0} /\ Bank \in Nat
      /\ \A i \in 1 .. Len(funcs) : funcs[i].at \in Nat /\ funcs[i].len \in Nat \ {0}
      /\ \A i \in 1 .. Len(operands) : operands[i].at \in Nat
      /\ \A i \in used : newaddr[i] \in Nat
  <2>1. /\ Len(operands) \in Nat \ {0} /\ Bank \in Nat
        /\ \A i \in 1 .. Len(operands) : operands[i].at \in Nat
    BY SourceFacts, DeadAssumption
  <2>2. /\ Len(funcs) \in Nat \ {0}
        /\ \A i \in 1 .. Len(funcs) : funcs[i].at \in Nat /\ funcs[i].len \in Nat \ {0}
    BY <1>2, TiledFacts
  <2>3. \A i \in used : newaddr[i] \in Nat
    BY <1>2, ElementOfSeq
  <2> QED BY <2>1, <2>2, <2>3
<1>6. 1 \in used /\ newaddr[1] = 0
  BY <1>2, <1>5 DEF Marked, Measured
<1>7. SUFFICES /\ Iterate(o) \in OutRecord /\ Iterate(o).patch = out.patch
               /\ Iterate(o).placed = out.placed
               /\ Iterate(o).j \in Nat /\ out.j <= Iterate(o).j /\ Iterate(o).j <= Goal
               /\ Reading(funcs, used, newaddr, operands, pc, Iterate(o))
  <2> DEFINE q == Iterate(o)
  <2> SUFFICES ASSUME /\ q \in OutRecord /\ q.patch = out.patch /\ q.placed = out.placed
                      /\ q.j \in Nat /\ out.j <= q.j /\ q.j <= Goal
                      /\ Reading(funcs, used, newaddr, operands, pc, q)
               PROVE  SourceInv' /\ StageInv'
    OBVIOUS
  <2> HIDE DEF q
  <2>1. q.j <= pc
    BY <1>3
  <2>2. q.patch <= Len(operands) => q.j <= operands[q.patch].at /\ operands[q.patch].at - q.j < Bank
    <3> HAVE q.patch <= Len(operands)
    <3>1. /\ out.patch \in 1 .. Len(operands) /\ Goal = operands[out.patch].at
          /\ operands[out.patch].at - out.j < Bank
      BY <1>4, <1>5 DEF Goal
    <3> QED BY <1>3, <1>5, <3>1
  <2>3. Written1(sym, funcs, used, newaddr, operands, q)
    BY <1>4, WrittenStays
  <2>4. Copied(sym, funcs, used, newaddr, operands, pc, q)
    BY <1>4, <2>1, <2>2, <2>3 DEF Copied
  <2>5. SourceInv'
    BY <1>1 DEF source, SourceInv
  <2>6. StageInv'
    BY <1>1, <2>4 DEF source, StageInv, q
  <2> QED BY <2>5, <2>6
<1>8. CASE out = StartOut
  <2>1. out.j = 0 /\ out.next = 0 /\ out.size = 0 /\ out.func = 1 /\ out.use
    BY <1>8 DEF StartOut
  <2>2. to = 0 /\ size = 0
    BY <1>3, <2>1
  <2> HIDE DEF to, size
  <2>3. /\ o \in OutRecord /\ o.j = 0 /\ o.next = 0 /\ o.size = 0 /\ o.func = 1
        /\ o.patch = out.patch /\ o.placed = out.placed
    <3>1. out \in OutRecord /\ to \in Nat /\ size \in Nat
      BY <1>4, <2>2
    <3>2. /\ o \in OutRecord /\ o.j = to /\ o.size = size /\ o.next = out.next
          /\ o.func = out.func /\ o.patch = out.patch /\ o.placed = out.placed
      BY <3>1, Passing
    <3> HIDE DEF o
    <3> QED BY <2>1, <2>2, <3>2
  <2> HIDE DEF o
  <2>4. funcs[1].at = 0 /\ 1 \in 1 .. Len(funcs)
    BY <1>2, <1>5 DEF Tiled
  <2>5. /\ Iterate(o) \in OutRecord /\ Within(funcs, used, newaddr, Iterate(o), 1)
        /\ Iterate(o).j = o.j /\ Iterate(o).patch = o.patch /\ Iterate(o).placed = o.placed
    BY <1>2, <1>6, <2>3, <2>4, NextFunction
  <2> QED BY <1>3, <2>1, <2>3, <2>4, <2>5 DEF Reading
<1>9. ASSUME NEW k \in 1 .. Len(funcs), Within(funcs, used, newaddr, out, k)
      PROVE  /\ Iterate(o) \in OutRecord /\ Iterate(o).patch = out.patch
             /\ Iterate(o).placed = out.placed
             /\ Iterate(o).j \in Nat /\ out.j <= Iterate(o).j /\ Iterate(o).j <= Goal
             /\ Reading(funcs, used, newaddr, operands, pc, Iterate(o))
  <2> DEFINE a == funcs[k].at
             l == funcs[k].len
  <2>1. /\ out.func = k + 1 /\ a <= out.j /\ out.j <= out.next /\ out.next = a + l
        /\ (out.use <=> k \in used) /\ a \in Nat /\ l \in Nat \ {0}
        /\ IF k \in used THEN out.size = newaddr[k] + (out.j - a)
           ELSE SizeAt(funcs, used, newaddr, k, out.size)
    BY <1>5, <1>9 DEF Within
  <2> HIDE DEF a, l
  <2>2. to \in Nat /\ out.j <= to /\ to <= Goal /\ to <= out.next
    BY <1>1, <1>3, <1>4, <2>1
  <2> HIDE DEF to
  <2>3. size \in Nat /\ (k \in used => size = newaddr[k] + (to - a)) /\ (k \notin used => size = out.size)
    <3>1. CASE k \in used
      <4>1. newaddr[k] \in Nat /\ out.size = newaddr[k] + (out.j - a) /\ size = out.size + (to - out.j)
        BY <1>5, <2>1, <3>1
      <4> HIDE DEF size
      <4>2. size = newaddr[k] + (to - a)
        BY ONLY <1>3, <2>1, <2>2, <4>1
      <4>3. size \in Nat
        BY ONLY <1>3, <2>1, <2>2, <4>1, <4>2, SMTT(30)
      <4> QED BY <3>1, <4>2, <4>3
    <3>2. CASE k \notin used
      BY <1>4, <2>1, <3>2
    <3> QED BY <3>1, <3>2
  <2> HIDE DEF size
  <2>4. /\ o \in OutRecord /\ o.j = to /\ o.next = out.next /\ o.size = size /\ o.func = k + 1
        /\ o.patch = out.patch /\ o.placed = out.placed /\ (o.use <=> k \in used)
    <3>1. out \in OutRecord /\ to \in Nat /\ size \in Nat
      BY <1>4, <2>2, <2>3
    <3>2. /\ o \in OutRecord /\ o.j = to /\ o.size = size /\ o.next = out.next
          /\ o.use = out.use /\ o.func = out.func /\ o.patch = out.patch /\ o.placed = out.placed
      <4>1. /\ Passed(out, to, size) \in OutRecord
            /\ Passed(out, to, size).j = to /\ Passed(out, to, size).size = size
            /\ Passed(out, to, size).next = out.next /\ Passed(out, to, size).use = out.use
            /\ Passed(out, to, size).func = out.func /\ Passed(out, to, size).patch = out.patch
            /\ Passed(out, to, size).placed = out.placed
        <5> HIDE DEF o
        <5> QED BY ONLY <3>1, Passing, ZenonT(40)
      <4> QED BY ONLY <4>1
    <3> HIDE DEF o
    <3> QED BY <2>1, <3>2
  <2> HIDE DEF o
  <2>5. Within(funcs, used, newaddr, o, k)
    <3>1. a <= o.j /\ o.j <= o.next /\ o.next = a + l
      BY <1>3, <2>1, <2>2, <2>4
    <3>2. IF k \in used THEN o.size = newaddr[k] + (o.j - a)
          ELSE SizeAt(funcs, used, newaddr, k, o.size)
      BY <2>1, <2>3, <2>4
    <3> QED BY <2>4, <3>1, <3>2 DEF Within, a, l
  <2>6. CASE o.j # o.next
    <3>1. Iterate(o) = o
      BY <2>6 DEF Iterate
    <3> QED BY <2>2, <2>4, <2>5, <3>1 DEF Reading
  <2>7. CASE o.j = o.next
    <3>1. SizeAt(funcs, used, newaddr, k, o.size)
      <4>1. k \in Nat /\ funcs[k].at \in Nat /\ funcs[k].len \in Nat /\ (k \in used => newaddr[k] \in Nat)
        BY <1>5
      <4> QED BY <1>2, <2>5, <2>7, <4>1, SizeBehind
    <3>2. CASE k = Len(funcs)
      <4>1. out.next = pc
        BY <1>2, <2>1, <3>2 DEF Tiled, a, l
      <4>2. o.j = pc /\ Goal = pc
        BY <1>3, <2>2, <2>4, <2>7, <4>1
      <4>3. out.patch = Len(operands) + 1
        <5>1. SUFFICES ASSUME out.patch <= Len(operands) PROVE FALSE
          BY <1>4, <1>5
        <5>2. out.patch \in 1 .. Len(operands) /\ Goal = operands[out.patch].at
          BY <1>4, <1>5, <5>1 DEF Goal
        <5>3. PICK f \in 1 .. Len(funcs) : Inside(funcs[f], operands[out.patch])
          BY <1>2, <5>2
        <5>4. operands[out.patch].at + 2 <= funcs[f].at + funcs[f].len
              /\ funcs[f].at + funcs[f].len <= pc
          BY <1>2, <5>3 DEF Inside, OperandSize, Tiled
        <5>5. funcs[f].at \in Nat /\ funcs[f].len \in Nat
          BY <1>5
        <5>6. operands[out.patch].at = pc /\ pc \in Nat
          BY ONLY <1>3, <4>2, <5>2
        <5> QED BY ONLY <5>4, <5>5, <5>6
      <4> DEFINE q == Ended(o, pc + 1)
      <4>4. Iterate(o) = q
        BY <1>5, <2>4, <2>7, <3>2 DEF Iterate, Ended
      <4>5. /\ q \in OutRecord /\ q.use /\ q.next = pc + 1 /\ q.func = o.func
            /\ q.j = o.j /\ q.size = o.size /\ q.patch = o.patch /\ q.placed = o.placed
        <5>1. pc + 1 \in Nat
          BY <1>3
        <5> QED BY <2>4, <5>1, Ending
      <4> HIDE DEF q
      <4>6. Reading(funcs, used, newaddr, operands, pc, q)
        BY <2>4, <3>1, <3>2, <4>2, <4>3, <4>5 DEF Reading
      <4> QED BY <2>2, <2>4, <4>4, <4>5, <4>6
    <3>3. CASE k # Len(funcs)
      <4>1. k \in 1 .. Len(funcs) - 1 /\ k + 1 \in 1 .. Len(funcs) /\ k + 1 > 1 /\ (k + 1) - 1 = k
            /\ k + 1 # 1
        BY <1>5, <3>3
      <4>2. funcs[k + 1].at = o.j
        BY <1>2, <2>1, <2>4, <2>7, <4>1 DEF Tiled, a, l
      <4>3. k + 1 \in used => SizeAt(funcs, used, newaddr, (k + 1) - 1, newaddr[k + 1])
        BY <1>2, <1>5, <4>1 DEF Measured
      <4> DEFINE m == k + 1
      <4>4. /\ m = o.func /\ m \in 1 .. Len(funcs) /\ m > 1 /\ m # 1 /\ m - 1 = k
            /\ funcs[m].at = o.j
            /\ (m \in used => SizeAt(funcs, used, newaddr, m - 1, newaddr[m]))
        BY <2>4, <4>1, <4>2, <4>3
      <4> HIDE DEF m
      <4>5. /\ Iterate(o) \in OutRecord /\ Within(funcs, used, newaddr, Iterate(o), m)
            /\ Iterate(o).j = o.j /\ Iterate(o).patch = o.patch /\ Iterate(o).placed = o.placed
        BY <1>2, <2>4, <2>7, <3>1, <4>4, NextFunction
      <4> QED BY <2>2, <2>4, <4>4, <4>5 DEF Reading
    <3> QED BY <3>2, <3>3
  <2> QED BY <2>6, <2>7
<1>10. CASE out.j = pc
  BY <1>1, <1>3, <1>10
<1> QED
  BY <1>4, <1>8, <1>9, <1>10 DEF Reading

\* The function an operand that is about to be patched lies in.
LEMMA PatchInside ==
  ASSUME SourceInv, StageInv, stage = "output", out.patch <= Len(operands), out.j >= Goal
  PROVE  /\ out.patch \in 1 .. Len(operands) /\ out.j = operands[out.patch].at
         /\ \E k \in 1 .. Len(funcs) :
              /\ Within(funcs, used, newaddr, out, k) /\ Inside(funcs[k], operands[out.patch])
              /\ out.j + OperandSize <= out.next
<1>1. /\ Tiled(funcs, pc) /\ Spaced(operands, pc)
      /\ Copied(sym, funcs, used, newaddr, operands, pc, out)
      /\ \A i \in 1 .. Len(operands) : \E f \in 1 .. Len(funcs) : Inside(funcs[f], operands[i])
  BY OutputFacts
<1>2. Len(operands) \in Nat \ {0} /\ \A i \in 1 .. Len(operands) : operands[i].at \in Nat
  BY SourceFacts
<1>3. out.patch \in 1 .. Len(operands)
  BY <1>1, <1>2 DEF Copied
<1> DEFINE at == operands[out.patch].at
<1>4. Goal = at /\ at \in Nat /\ out.j \in Nat /\ out.j <= Goal
  BY <1>2, <1>3, TargetRight DEF Goal
<1>5. out.j = at
  BY <1>4
<1>6. PICK f \in 1 .. Len(funcs) : Inside(funcs[f], operands[out.patch])
  BY <1>1, <1>3
<1>7. /\ funcs[f].at \in Nat /\ funcs[f].len \in Nat
      /\ funcs[f].at < at /\ at + 2 <= funcs[f].at + funcs[f].len
  BY <1>1, <1>6, TiledFacts DEF Inside, OperandSize
<1>8. CASE out = StartOut
  <2>1. out.j = 0
    BY <1>8 DEF StartOut
  <2> QED BY <1>4, <1>5, <1>7, <2>1
<1>9. CASE out.patch = Len(operands) + 1
  BY <1>2, <1>9
<1>10. ASSUME NEW k \in 1 .. Len(funcs), Within(funcs, used, newaddr, out, k)
       PROVE  Inside(funcs[k], operands[out.patch]) /\ out.j + OperandSize <= out.next
  <2>1. funcs[k].at <= out.j /\ out.j <= out.next /\ out.next = funcs[k].at + funcs[k].len
    BY <1>10 DEF Within
  <2>2. f = k
    BY <1>1, <1>4, <1>5, <1>6, <2>1, OneInside
  <2> QED BY <1>5, <1>6, <1>7, <2>1, <2>2 DEF OperandSize
<1>11. out = StartOut \/ out.patch = Len(operands) + 1
       \/ \E k \in 1 .. Len(funcs) : Within(funcs, used, newaddr, out, k)
  BY <1>1 DEF Copied, Reading
<1> QED
  BY <1>3, <1>5, <1>8, <1>9, <1>10, <1>11

\* One more operand is written, or left out with its function.
LEMMA WrittenNext ==
  ASSUME NEW sy, NEW fs, NEW us, NEW na, NEW ops, NEW o \in OutRecord, NEW q \in OutRecord,
         Written1(sy, fs, us, na, ops, o), o.patch \in Nat \ {0}, q.patch = o.patch + 1,
         NEW k \in 1 .. Len(fs), \A f \in 1 .. Len(fs) : Inside(fs[f], ops[o.patch]) => f = k,
         us \subseteq 1 .. Len(fs), NEW entry \in PlacedRecord,
         entry.patch = o.patch, Final(sy, fs, na, ops[o.patch], entry.value),
         k \in us => entry.at = na[k] + (ops[o.patch].at - fs[k].at),
         q.placed = IF k \in us THEN Append(o.placed, entry) ELSE o.placed
  PROVE  Written1(sy, fs, us, na, ops, q)
<1> DEFINE Right(p, n) ==
             /\ p.patch \in 1 .. n - 1
             /\ Final(sy, fs, na, ops[p.patch], p.value)
             /\ \A f \in 1 .. Len(fs) : Inside(fs[f], ops[p.patch]) =>
                  f \in us /\ p.at = na[f] + (ops[p.patch].at - fs[f].at)
<1>1. o.placed \in Seq(PlacedRecord) /\ Len(o.placed) \in Nat
  BY LenProperties DEF OutRecord, PlacedRecord
<1>2. \A x \in 1 .. Len(o.placed) : Right(o.placed[x], o.patch)
  BY DEF Written1
<1>3. \A p : Right(p, o.patch) => Right(p, q.patch)
  <2> TAKE p
  <2> HAVE Right(p, o.patch)
  <2>1. p.patch \in 1 .. q.patch - 1
    BY ONLY Right(p, o.patch), o.patch \in Nat \ {0}, q.patch = o.patch + 1
  <2> QED BY <2>1
<1>4. CASE k \in us
  <2> DEFINE l == Append(o.placed, entry)
             n == Len(o.placed)
  <2>1. /\ q.placed = l /\ Len(l) = n + 1 /\ l[n + 1] = entry
        /\ \A x \in 1 .. n : l[x] = o.placed[x]
    BY <1>1, <1>4, AppendProperties
  <2>2. Right(entry, q.patch)
    <3>1. entry.patch \in 1 .. q.patch - 1
      BY ONLY entry.patch = o.patch, o.patch \in Nat \ {0}, q.patch = o.patch + 1
    <3> QED BY <1>4, <3>1
  <2> HIDE DEF l, Right
  <2>3. \A x \in 1 .. Len(l) : Right(l[x], q.patch)
    <3> TAKE x \in 1 .. Len(l)
    <3>1. x = n + 1 \/ x \in 1 .. n
      BY <1>1, <2>1
    <3> QED BY <1>2, <1>3, <2>1, <2>2, <3>1
  <2>4. ASSUME NEW i \in 1 .. q.patch - 1, NEW f \in us, Inside(fs[f], ops[i])
        PROVE  \E x \in 1 .. Len(l) : l[x].patch = i
    <3>1. i = o.patch \/ i \in 1 .. o.patch - 1
      BY ONLY i \in 1 .. q.patch - 1, o.patch \in Nat \ {0}, q.patch = o.patch + 1
    <3>2. CASE i = o.patch
      <4>1. l[n + 1].patch = i /\ n + 1 \in 1 .. Len(l)
        BY <1>1, <2>1, <3>2
      <4> QED BY <4>1
    <3>3. CASE i \in 1 .. o.patch - 1
      <4>1. PICK x \in 1 .. n : o.placed[x].patch = i
        BY <2>4, <3>3 DEF Written1
      <4>2. x \in 1 .. Len(l) /\ l[x].patch = i
        BY <1>1, <2>1, <4>1
      <4> QED BY <4>2
    <3> QED BY <3>1, <3>2, <3>3
  <2> QED BY <2>1, <2>3, <2>4 DEF Written1, Right
<1>5. CASE k \notin us
  <2> HIDE DEF Right
  <2>1. q.placed = o.placed /\ \A x \in 1 .. Len(q.placed) : Right(q.placed[x], q.patch)
    BY <1>2, <1>3, <1>5
  <2>2. ASSUME NEW i \in 1 .. q.patch - 1, NEW f \in us, Inside(fs[f], ops[i])
        PROVE  \E x \in 1 .. Len(q.placed) : q.placed[x].patch = i
    <3>1. i = o.patch \/ i \in 1 .. o.patch - 1
      BY ONLY i \in 1 .. q.patch - 1, o.patch \in Nat \ {0}, q.patch = o.patch + 1
    <3>2. i # o.patch
      BY <1>5, <2>2
    <3> QED BY <2>1, <2>2, <3>1, <3>2 DEF Written1
  <2> QED BY <2>1, <2>2 DEF Written1, Right
<1> QED
  BY <1>4, <1>5

\* An operand that ends before the function does also begins there.
LEMMA Ahead ==
  ASSUME NEW a \in Nat, NEW n \in Nat, NEW j \in Nat, NEW x, x = a + n, j + 2 <= x
  PROVE  j <= a + n
OBVIOUS

\* The order of numbers is transitive.
LEMMA Between ==
  ASSUME NEW a \in Nat, NEW b \in Nat, NEW c \in Nat, a <= b, b <= c
  PROVE  a <= c
OBVIOUS

\* The operand is written where it stands; it crosses no function break, and
\* the function it names was not stripped.
LEMMA OutputPatchKeeps ==
  ASSUME SourceInv, StageInv, OutputPatch
  PROVE  SourceInv' /\ StageInv'
<1> DEFINE i == out.patch
           o == operands[i]
           entry == [at |-> out.size, patch |-> i, value |-> Patched(o)]
           size == IF out.use THEN out.size + OperandSize ELSE out.size
           placed == IF ~out.use THEN out.placed ELSE Append(out.placed, entry)
           q == Placing(out, out.j + 2, i + 1, size, placed)
<1>1. /\ stage = "output" /\ i <= Len(operands) /\ out.j >= Goal
      /\ PatchTarget.offset = Goal /\ ~PatchTarget.short
      /\ UNCHANGED <<source, stage, used, todo, newaddr, total>>
  <2>1. /\ stage = "output" /\ i <= Len(operands) /\ out.j >= PatchTarget.offset
        /\ UNCHANGED <<source, stage, used, todo, newaddr, total>>
    BY DEF OutputPatch
  <2> QED BY <2>1, TargetRight
<1>2. out' = q
  BY <1>1 DEF OutputPatch, Placing, OperandSize
<1>3. err' = err \cup (IF out.use THEN PatchErrors(o) ELSE {})
                 \cup {e \in {"misplaced"} : o.at # out.j}
                 \cup {e \in {"straddle"} : out.j + OperandSize > out.next}
  BY <1>1 DEF OutputPatch
<1>4. /\ Tiled(funcs, pc) /\ Spaced(operands, pc) /\ Standing(sym, operands)
      /\ used \in SUBSET Nat /\ used \subseteq 1 .. Len(funcs)
      /\ newaddr \in Seq(Nat) /\ Len(newaddr) = Len(funcs)
      /\ Marked(sym, funcs, globals, used, todo) /\ todo = {}
      /\ Copied(sym, funcs, used, newaddr, operands, pc, out)
  BY <1>1, OutputFacts
<1>5. /\ i \in 1 .. Len(operands) /\ out.j = o.at
      /\ \E k \in 1 .. Len(funcs) :
           /\ Within(funcs, used, newaddr, out, k) /\ Inside(funcs[k], o)
           /\ out.j + OperandSize <= out.next
  BY <1>1, PatchInside
<1>6. PICK k \in 1 .. Len(funcs) :
        /\ Within(funcs, used, newaddr, out, k) /\ Inside(funcs[k], o)
        /\ out.j + OperandSize <= out.next
  BY <1>5
<1>7. /\ pc \in Nat /\ Len(operands) \in Nat \ {0} /\ Symbols(sym, funcs) /\ funcs \in Seq(FuncRecord)
      /\ \A m \in 1 .. Len(operands) : operands[m].at \in Nat /\ operands[m].of \in Syms
  BY SourceFacts
<1>8. /\ funcs[k].at \in Nat /\ funcs[k].len \in Nat /\ funcs[k].at + funcs[k].len <= pc
      /\ k \in used => newaddr[k] \in Nat
  <2>1. funcs[k].at \in Nat /\ funcs[k].len \in Nat /\ funcs[k].at + funcs[k].len <= pc
    <3>1. Tiled(funcs, pc) /\ k \in 1 .. Len(funcs)
      BY ONLY <1>4
    <3>2. funcs[k].at + funcs[k].len <= pc
      BY ONLY <3>1 DEF Tiled
    <3> QED BY ONLY <3>1, <3>2, TiledFacts
  <2>2. newaddr[k] \in Nat
    BY <1>4, ElementOfSeq
  <2> QED BY <2>1, <2>2
<1>9. /\ out \in OutRecord /\ out.j \in Nat /\ out.size \in Nat /\ out.next \in Nat
      /\ out.placed \in Seq(PlacedRecord) /\ i \in Nat \ {0}
      /\ Written1(sym, funcs, used, newaddr, operands, out)
  <2>1. out \in OutRecord /\ Written1(sym, funcs, used, newaddr, operands, out)
    BY ONLY <1>4 DEF Copied
  <2>2. out.j \in Nat /\ out.size \in Nat /\ out.next \in Nat /\ out.placed \in Seq(PlacedRecord)
    BY ONLY <2>1 DEF OutRecord, PlacedRecord
  <2>3. i \in Nat \ {0}
    <3> HIDE DEF i
    <3> QED BY ONLY <1>5, <1>7
  <2> QED BY ONLY <2>1, <2>2, <2>3
<1>10. /\ funcs[k].at <= out.j /\ out.next = funcs[k].at + funcs[k].len /\ out.func = k + 1
       /\ (out.use <=> k \in used)
       /\ IF k \in used THEN out.size = newaddr[k] + (out.j - funcs[k].at)
          ELSE SizeAt(funcs, used, newaddr, k, out.size)
  BY <1>6 DEF Within
<1>11. Stands(sym, o, o.of) /\ o.of \in Syms
  BY <1>4, <1>5, <1>7 DEF Standing
<1>12. k \in used => PatchErrors(o) \subseteq {"undefined"}
  <2> HAVE k \in used
  <2>1. o.of \in funcs[k].refs \/ o.of = MainSym
    BY <1>6 DEF Inside
  <2>2. Covers(sym, funcs, funcs[k].refs, used) /\ Covers(sym, funcs, globals \cup {MainSym}, used)
    BY <1>4 DEF Marked
  <2>3. CASE o.of \in funcs[k].refs
    <3> HIDE DEF o
    <3> QED BY <1>7, <1>11, <2>2, <2>3, NameKept
  <2>4. CASE o.of = MainSym
    <3>1. o.of \in globals \cup {MainSym}
      BY <2>4
    <3> HIDE DEF o
    <3> QED BY <1>7, <1>11, <2>2, <3>1, NameKept
  <2> QED BY <2>1, <2>3, <2>4
<1>13. err' \subseteq {"undefined"}
  <2>1. err \subseteq {"undefined"}
    BY DEF StageInv
  <2>2. ~(out.j + OperandSize > out.next)
    BY <1>6, <1>9 DEF OperandSize
  <2>3. (IF out.use THEN PatchErrors(o) ELSE {}) \subseteq {"undefined"}
    BY <1>10, <1>12
  <2> QED BY <1>3, <1>5, <2>1, <2>2, <2>3
<1>14. Final(sym, funcs, newaddr, o, Patched(o)) /\ Patched(o) \in Nat
  <2>1. Final(sym, funcs, newaddr, o, Patched(o))
    BY <1>4, PatchedRight
  <2>2. \A a : Moved(a) \in Nat
    <3> TAKE a
    <3>1. CASE FunctionsAt(a) = {}
      BY <3>1 DEF Moved
    <3>2. CASE FunctionsAt(a) # {}
      <4>1. PICK f \in 1 .. Len(funcs) : funcs[f].at = a
        BY <1>7, <3>2 DEF FunctionsAt
      <4>2. Moved(a) = newaddr[f]
        BY <1>4, <4>1, MovedRight
      <4> QED BY <1>4, <4>2, ElementOfSeq
    <3> QED BY <3>1, <3>2
  <2>3. Patched(o) \in Nat
    BY <2>2 DEF Patched
  <2> QED BY <2>1, <2>3
<1>15. entry \in PlacedRecord /\ entry.patch = i /\ entry.value = Patched(o) /\ entry.at = out.size
  BY <1>9, <1>14 DEF PlacedRecord
<1>16. /\ size \in Nat /\ (k \in used => size = newaddr[k] + ((out.j + 2) - funcs[k].at))
       /\ (k \notin used => size = out.size)
  <2>1. CASE k \in used
    <3>1. size = out.size + 2 /\ out.size = newaddr[k] + (out.j - funcs[k].at)
      BY <1>10, <2>1 DEF OperandSize
    <3> HIDE DEF size, entry, placed, q, o
    <3>2. /\ out.j \in Nat /\ out.size \in Nat
          /\ newaddr[k] \in Nat /\ funcs[k].at \in Nat
      <4>1. out.j \in Nat /\ out.size \in Nat
        BY ONLY <1>9
      <4>2. newaddr[k] \in Nat /\ funcs[k].at \in Nat
        BY ONLY <1>8, <2>1
      <4> QED BY ONLY <4>1, <4>2
    <3>3. size = newaddr[k] + ((out.j + 2) - funcs[k].at)
      <4> DEFINE a == funcs[k].at
                 n == newaddr[k]
                 j == out.j
                 t == out.size
      <4>1. a \in Nat /\ n \in Nat /\ j \in Nat /\ t \in Nat /\ size = t + 2 /\ t = n + (j - a)
        BY ONLY <3>1, <3>2
      <4> HIDE DEF a, n, j, t
      <4>2. size = n + ((j + 2) - a)
        BY ONLY <4>1
      <4> QED BY ONLY <4>2 DEF a, n, j
    <3>4. size \in Nat
      BY ONLY <3>1, <3>2
    <3> QED BY <2>1, <3>3, <3>4
  <2>2. CASE k \notin used
    <3>1. size = out.size
      BY <1>10, <2>2
    <3> HIDE DEF size
    <3> QED BY <1>9, <2>2, <3>1
  <2> QED BY <2>1, <2>2
<1>17. /\ placed \in Seq(PlacedRecord)
       /\ placed = IF k \in used THEN Append(out.placed, entry) ELSE out.placed
  <2> HIDE DEF entry
  <2>1. Append(out.placed, entry) \in Seq(PlacedRecord)
    BY <1>9, <1>15, AppendProperties
  <2> QED BY <1>9, <1>10, <2>1
<1> HIDE DEF size, placed, entry
<1>18. /\ q \in OutRecord /\ q.j = out.j + 2 /\ q.patch = i + 1 /\ q.size = size
       /\ q.placed = placed /\ q.next = out.next /\ q.use = out.use /\ q.func = out.func
  <2> DEFINE j == out.j + 2
             p == i + 1
  <2>1. out \in OutRecord /\ j \in Nat /\ p \in Nat /\ size \in Nat /\ placed \in PlacedSeqs
    <3> HIDE DEF i
    <3>1. j \in Nat /\ p \in Nat
      BY ONLY <1>9
    <3> HIDE DEF j, p
    <3> QED BY ONLY <1>9, <1>16, <1>17, <3>1 DEF PlacedSeqs
  <2> HIDE DEF j, p
  <2>2. /\ Placing(out, j, p, size, placed) \in OutRecord
        /\ Placing(out, j, p, size, placed).j = j /\ Placing(out, j, p, size, placed).patch = p
        /\ Placing(out, j, p, size, placed).size = size
        /\ Placing(out, j, p, size, placed).placed = placed
        /\ Placing(out, j, p, size, placed).next = out.next
        /\ Placing(out, j, p, size, placed).use = out.use
        /\ Placing(out, j, p, size, placed).func = out.func
    <3> HIDE DEF q, o
    <3> QED BY ONLY <2>1, PlacingOne, SMTT(30)
  <2> QED BY <2>2 DEF j, p
<1> HIDE DEF q
<1>19. Within(funcs, used, newaddr, q, k)
  <2>1. /\ q.func = k + 1 /\ funcs[k].at <= q.j /\ q.j <= q.next
        /\ q.next = funcs[k].at + funcs[k].len /\ (q.use <=> k \in used)
    <3>1. out.j + 2 <= out.next
      BY ONLY <1>6 DEF OperandSize
    <3>2. funcs[k].at <= out.j + 2
      BY ONLY <1>8, <1>9, <1>10
    <3> QED BY ONLY <1>10, <1>18, <3>1, <3>2
  <2>2. IF k \in used THEN q.size = newaddr[k] + (q.j - funcs[k].at)
        ELSE SizeAt(funcs, used, newaddr, k, q.size)
    BY <1>10, <1>16, <1>18
  <2> QED BY <2>1, <2>2 DEF Within
<1>20. Written1(sym, funcs, used, newaddr, operands, q)
  <2>1. \A f \in 1 .. Len(funcs) : Inside(funcs[f], o) => f = k
    <3> TAKE f \in 1 .. Len(funcs)
    <3> HAVE Inside(funcs[f], o)
    <3>0. /\ o.at = out.j /\ funcs[k].at <= out.j /\ out.j + 2 <= out.next
          /\ out.next = funcs[k].at + funcs[k].len /\ out.j \in Nat
          /\ funcs[k].at \in Nat /\ funcs[k].len \in Nat
      BY <1>5, <1>6, <1>8, <1>9, <1>10 DEF OperandSize
    <3>1. o.at \in Nat /\ funcs[k].at <= o.at /\ o.at <= funcs[k].at + funcs[k].len
      <4> HIDE DEF o
      <4>1. out.j <= funcs[k].at + funcs[k].len
        BY ONLY <3>0, Ahead
      <4> QED BY ONLY <3>0, <4>1
    <3> HIDE DEF o
    <3> QED BY <1>4, <3>1, OneInside
  <2>2. k \in used => entry.at = newaddr[k] + (o.at - funcs[k].at)
    BY <1>5, <1>10, <1>15
  <2>3. Final(sym, funcs, newaddr, o, entry.value) /\ entry.patch = out.patch
    BY <1>14, <1>15
  <2>4. out.patch \in Nat \ {0} /\ q.patch = out.patch + 1
    BY <1>9, <1>18
  <2>5. q.placed = IF k \in used THEN Append(out.placed, entry) ELSE out.placed
    BY <1>17, <1>18
  <2> QED BY <1>4, <1>9, <1>15, <1>18, <2>1, <2>2, <2>3, <2>4, <2>5, WrittenNext
<1>21. Copied(sym, funcs, used, newaddr, operands, pc, q)
  <2>1. q.patch \in 1 .. Len(operands) + 1 /\ q.j <= pc
    <3>1. /\ q.patch = i + 1 /\ i \in 1 .. Len(operands) /\ Len(operands) \in Nat
          /\ q.j = out.j + 2 /\ out.j + 2 <= out.next
          /\ out.next = funcs[k].at + funcs[k].len /\ funcs[k].at + funcs[k].len <= pc
          /\ out.j \in Nat /\ funcs[k].at \in Nat /\ funcs[k].len \in Nat /\ pc \in Nat
      BY <1>5, <1>6, <1>7, <1>8, <1>9, <1>10, <1>18 DEF OperandSize
    <3> HIDE DEF i
    <3>2. q.patch \in 1 .. Len(operands) + 1
      BY ONLY <3>1
    <3>3. q.j <= pc
      <4>1. q.j = out.j + 2 /\ pc \in Nat /\ funcs[k].at + funcs[k].len <= pc
        BY ONLY <3>1
      <4>2. out.j + 2 <= funcs[k].at + funcs[k].len
        BY ONLY <3>1
      <4>3. funcs[k].at + funcs[k].len \in Nat /\ out.j + 2 \in Nat
        BY ONLY <3>1, SMTT(30)
      <4> QED BY ONLY <4>1, <4>2, <4>3, Between
    <3> QED BY <3>2, <3>3
  <2>2. q.patch <= Len(operands) => q.j <= operands[q.patch].at /\ operands[q.patch].at - q.j < Bank
    <3> HAVE q.patch <= Len(operands)
    <3>1. i \in 1 .. Len(operands) - 1 /\ i + 1 = q.patch
      BY <1>5, <1>7, <1>18
    <3>2. /\ operands[i].at + OperandSize <= operands[i + 1].at
          /\ operands[i + 1].at - (operands[i].at + OperandSize) < Bank
      BY <1>4, <3>1 DEF Spaced
    <3>3. q.j = operands[i].at + OperandSize
      BY <1>5, <1>18 DEF OperandSize
    <3> QED BY <3>1, <3>2, <3>3
  <2>3. Reading(funcs, used, newaddr, operands, pc, q)
    BY <1>19 DEF Reading
  <2> QED BY <1>18, <1>20, <2>1, <2>2, <2>3 DEF Copied
<1>22. SourceInv'
  BY <1>1 DEF source, SourceInv
<1>23. StageInv'
  BY <1>1, <1>2, <1>13, <1>21 DEF source, StageInv
<1> QED
  BY <1>22, <1>23

\* The code is as long as announced.
LEMMA OutputEndKeeps ==
  ASSUME SourceInv, StageInv, OutputEnd
  PROVE  SourceInv' /\ StageInv'
<1>1. /\ stage = "output" /\ out.patch > Len(operands) /\ out.j >= pc
      /\ err' = err \cup {e \in {"length"} : out.size # total.after}
      /\ stage' = "done" /\ UNCHANGED <<source, used, todo, newaddr, total, out>>
  BY DEF OutputEnd
<1>2. /\ Tiled(funcs, pc) /\ used \in SUBSET Nat /\ used \subseteq 1 .. Len(funcs)
      /\ newaddr \in Seq(Nat) /\ Len(newaddr) = Len(funcs)
      /\ Measured(glulx, funcs, used, newaddr, total)
      /\ Copied(sym, funcs, used, newaddr, operands, pc, out)
  BY <1>1, OutputFacts
<1>3. /\ Len(funcs) \in Nat \ {0} /\ pc \in Nat /\ pc > 0
      /\ \A k \in 1 .. Len(funcs) : funcs[k].at \in Nat /\ funcs[k].len \in Nat \ {0}
  BY <1>2, TiledFacts, SourceFacts
<1>4. out.j = pc /\ out.j \in Nat
  BY <1>1, <1>2, <1>3 DEF Copied, OutRecord
<1>11. out.patch = Len(operands) + 1
  <2>1. out.patch \in 1 .. Len(operands) + 1 /\ Len(operands) \in Nat
    BY <1>2, SourceFacts DEF Copied
  <2> QED BY <1>1, <2>1
<1>5. SizeAt(funcs, used, newaddr, Len(funcs), out.size)
  <2>1. CASE out = StartOut
    BY <1>3, <1>4, <2>1 DEF StartOut
  <2>2. ASSUME NEW k \in 1 .. Len(funcs), Within(funcs, used, newaddr, out, k)
        PROVE  SizeAt(funcs, used, newaddr, Len(funcs), out.size)
    <3>1. out.j <= out.next /\ out.next = funcs[k].at + funcs[k].len /\ funcs[k].at + funcs[k].len <= pc
      BY <1>2, <2>2 DEF Within, Tiled
    <3>2. out.next = pc
      <4>1. funcs[k].at \in Nat /\ funcs[k].len \in Nat
        BY <1>3
      <4>2. out.j = pc /\ pc \in Nat
        BY <1>3, <1>4
      <4> QED BY ONLY <3>1, <4>1, <4>2
    <3>3. k = Len(funcs)
      <4>1. SUFFICES ASSUME k < Len(funcs) PROVE FALSE
        BY <1>3
      <4> DEFINE m == Len(funcs)
      <4>2. m \in 1 .. Len(funcs)
        BY <1>3
      <4>3. funcs[k].at + funcs[k].len <= funcs[m].at /\ funcs[m].at + funcs[m].len <= pc
        BY <1>2, <4>1, <4>2 DEF Tiled
      <4>4. funcs[m].at \in Nat /\ funcs[m].len \in Nat \ {0} /\ funcs[k].at \in Nat /\ funcs[k].len \in Nat
        BY <1>3, <4>2
      <4> HIDE DEF m
      <4>5. out.next = funcs[k].at + funcs[k].len /\ out.next = pc
        BY <3>1, <3>2
      <4> QED BY ONLY <4>3, <4>4, <4>5
    <3>4. k \in Nat /\ funcs[k].at \in Nat /\ funcs[k].len \in Nat /\ newaddr[k] \in Nat
      BY <1>2, <1>3, ElementOfSeq
    <3> QED BY <1>2, <1>4, <2>2, <3>2, <3>3, <3>4, SizeBehind
  <2>3. \/ out = StartOut
        \/ \E k \in 1 .. Len(funcs) : Within(funcs, used, newaddr, out, k)
        \/ SizeAt(funcs, used, newaddr, Len(funcs), out.size)
    BY <1>2 DEF Copied, Reading
  <2> QED BY <2>1, <2>2, <2>3
<1>6. SizeAt(funcs, used, newaddr, Len(funcs), total.after)
  BY <1>2, <1>3 DEF Measured
<1>7. out.size = total.after
  BY <1>2, <1>3, <1>5, <1>6, SizeAtUnique
<1>8. err' = err
  BY <1>1, <1>7
<1>9. SourceInv'
  BY <1>1 DEF source, SourceInv
<1>10. StageInv'
  BY <1>1, <1>8, <1>11 DEF source, StageInv
<1> QED
  BY <1>9, <1>10

-----------------------------------------------------------------------------
(* The invariant holds of the specification.                               *)

\* The code area begins with Main__, which calls MainSym.
LEMMA Beginning ==
  ASSUME DeadInit
  PROVE  DeadInv
<1> DEFINE f == [at |-> 0, len |-> Align(HeaderLength + CallLength), refs |-> {},
                 embedded |-> FALSE, name |-> NoSym]
           o == [at |-> HeaderLength + MarkerAt, marker |-> "main", value |-> MainSym, of |-> MainSym]
           n == Align(HeaderLength + CallLength)
<1>1. /\ glulx \in BOOLEAN /\ funcs = <<f>> /\ globals = {} /\ current = Closed /\ pc = n
      /\ operands = <<o>> /\ data = <<>> /\ tokens = <<>> /\ asked = {}
      /\ stage = "parse" /\ err = {} /\ Fresh /\ out = StartOut
      /\ sym = [s \in Syms |-> [type |-> "unknown", value |-> 0, replaced |-> FALSE, orig |-> NoSym]]
  BY DeadAssumption DEF DeadInit, Fresh, StartOut
<1>2. n \in Nat /\ n >= 5 /\ (glulx \/ n % Scale = 0) /\ Scale \in Nat \ {0}
  <2>1. HeaderLength + CallLength = 5 /\ 5 \in Nat
    BY DEF HeaderLength, CallLength
  <2> QED BY <1>1, <2>1, AlignFacts, DeadAssumption
<1>3. o.at = 3 /\ o.of = MainSym /\ MainSym \in Syms /\ 3 < Bank /\ Bank \in Nat
      /\ o.marker = "main" /\ o.value = MainSym
  BY DeadAssumption DEF HeaderLength, MarkerAt
<1>4. f \in FuncRecord /\ f.at = 0 /\ f.len = n /\ f.name = NoSym /\ f.embedded = FALSE
  BY <1>2 DEF FuncRecord
<1>5. o \in CodeOperand
  BY <1>3 DEF CodeOperand
<1> HIDE DEF f, o, n
<1>6. funcs \in Seq(FuncRecord) /\ Len(funcs) = 1 /\ funcs[1] = f /\ 1 .. Len(funcs) = {1}
  BY <1>1, <1>4
<1>7. operands \in Seq(CodeOperand) /\ Len(operands) = 1 /\ operands[1] = o /\ 1 .. Len(operands) = {1}
  BY <1>1, <1>5
<1>8. current.at = 0 /\ End(current, pc) = n /\ current \in CurrentRecord
  BY <1>1 DEF Closed, End, CurrentRecord, Aheads
<1>9. Tiled(funcs, n)
  BY <1>2, <1>4, <1>6 DEF Tiled
<1>10. ~glulx => Packed(funcs, n)
  <2>1. 0 % Scale = 0
    BY <1>2
  <2> QED BY <1>2, <1>4, <1>6, <2>1 DEF Packed
<1>11. Symbols(sym, funcs)
  <2>1. sym \in [Syms -> SymRecord]
    BY <1>1 DEF SymRecord
  <2>2. \A s \in Syms : sym[s].type = "unknown" /\ sym[s].value = 0 /\ sym[s].orig = NoSym
    BY <1>1
  <2>3. \A s \in Syms : ~Defined(funcs, s)
    BY <1>4, <1>6, DeadAssumption DEF Defined
  <2> QED BY <2>1, <2>2, <2>3 DEF Symbols
<1>12. Open(sym, current, pc)
  BY <1>1, <1>2, <1>8 DEF Open
<1>13. Inside(f, o)
  BY <1>2, <1>3, <1>4 DEF Inside, OperandSize
<1>14. Placed(operands, funcs, current, pc)
  BY <1>6, <1>7, <1>13 DEF Placed
<1>15. Spaced(operands, pc)
  BY <1>1, <1>2, <1>3, <1>7 DEF Spaced, OperandSize
<1>16. Standing(sym, operands)
  BY <1>3, <1>7 DEF Standing, Stands
<1>17. Statics(sym, funcs, globals, data, tokens)
  BY <1>1 DEF Statics
<1>18. SourceInv
  BY <1>1, <1>8, <1>9, <1>10, <1>11, <1>12, <1>14, <1>15, <1>16, <1>17 DEF SourceInv, Parsed
<1>19. StageInv
  BY <1>1 DEF StageInv
<1> QED
  BY <1>18, <1>19 DEF DeadInv

\* A step of another component.
LEMMA DeadStutters ==
  ASSUME DeadInv, UNCHANGED deadVars
  PROVE  DeadInv'
<1>1. UNCHANGED <<glulx, sym, funcs, globals, current, pc, operands, data, tokens, asked>>
  BY DEF deadVars
<1>2. UNCHANGED <<stage, err, used, todo, newaddr, total, out>>
  BY DEF deadVars
<1>3. SourceInv'
  BY <1>1 DEF DeadInv, SourceInv
<1>4. StageInv'
  BY <1>1, <1>2 DEF DeadInv, StageInv, Fresh
<1> QED
  BY <1>3, <1>4 DEF DeadInv

\* Every step keeps the invariant.
LEMMA DeadSteps ==
  ASSUME DeadInv, DeadNext, Strip, ~ParenCases, ~TokensOfReplaced
  PROVE  DeadInv'
<1>1. SourceInv /\ StageInv
  BY DEF DeadInv
<1> SUFFICES SourceInv' /\ StageInv'
  BY DEF DeadInv
<1>2. CASE BeginEmbedded
  BY <1>1, <1>2, BeginKeeps
<1>3. CASE Directive
  <2>1. PICK s \in Syms : \/ BeginRoutine(s) \/ DataEntry(s) \/ RoutineToken(s) \/ Action(s)
                          \/ \E y \in Syms \cup {NoSym} : ReplaceDirective(s, y)
    BY <1>3 DEF Directive
  <2>2. CASE BeginRoutine(s)
    BY <1>1, <2>2, BeginKeeps
  <2>3. CASE DataEntry(s)
    BY <1>1, <2>3, DataKeeps
  <2>4. CASE RoutineToken(s)
    BY <1>1, <2>4, TokenKeeps
  <2>5. CASE Action(s)
    BY <1>1, <2>5, ActionKeeps
  <2>6. ASSUME NEW y \in Syms \cup {NoSym}, ReplaceDirective(s, y) PROVE SourceInv' /\ StageInv'
    BY <1>1, <2>6, ReplaceKeeps
  <2> QED BY <2>1, <2>2, <2>3, <2>4, <2>5, <2>6
<1>4. CASE AnyStatement
  <2>1. PICK s \in Syms : \/ CallStatement(s) \/ IfReturnStatement(s) \/ ForStatement(s)
                          \/ \E paren \in BOOLEAN : CaseClause(s, paren)
    BY <1>4 DEF AnyStatement
  <2>2. CASE CallStatement(s)
    BY <1>1, <2>2, CallKeeps
  <2>3. CASE IfReturnStatement(s)
    BY <1>1, <2>3, IfReturnKeeps
  <2>4. CASE ForStatement(s)
    BY <1>1, <2>4, ForKeeps
  <2>5. ASSUME NEW paren \in BOOLEAN, CaseClause(s, paren) PROVE SourceInv' /\ StageInv'
    BY <1>1, <2>5, CaseKeeps
  <2> QED BY <2>1, <2>2, <2>3, <2>4, <2>5
<1>5. CASE ReturnStatement
  BY <1>1, <1>5, ReturnKeeps
<1>6. CASE CloseRoutine
  BY <1>1, <1>6, CloseKeeps
<1>7. CASE FindTheActions
  BY <1>1, <1>7, FindKeeps
<1>8. CASE MarkRoots
  BY <1>1, <1>8, MarkKeeps
<1>9. CASE Search
  BY <1>1, <1>9, SearchKeeps
<1>10. CASE Measure
  BY <1>1, <1>10, MeasureKeeps
<1>11. CASE PatchTables
  BY <1>1, <1>11, PatchTablesKeeps
<1>12. CASE OutputCode
  BY <1>1, <1>12, OutputCodeKeeps
<1>13. CASE OutputPatch
  BY <1>1, <1>13, OutputPatchKeeps
<1>14. CASE OutputEnd
  BY <1>1, <1>14, OutputEndKeeps
<1> QED
  BY <1>2, <1>3, <1>4, <1>5, <1>6, <1>7, <1>8, <1>9, <1>10, <1>11, <1>12, <1>13, <1>14 DEF DeadNext

\* DeadInv is an inductive invariant.
THEOREM DeadInvariant ==
  ASSUME Strip, ~ParenCases, ~TokensOfReplaced
  PROVE  DeadSpec => []DeadInv
<1>1. DeadInit => DeadInv
  BY Beginning
<1>2. DeadInv /\ [DeadNext]_deadVars => DeadInv'
  BY DeadSteps, DeadStutters
<1> QED
  BY <1>1, <1>2, PTL DEF DeadSpec

\* The type invariant is part of it.
LEMMA InvTypes ==
  ASSUME DeadInv
  PROVE  DeadTypeOK
<1> DEFINE e == End(current, pc)
<1>1. SourceInv /\ StageInv
  BY DEF DeadInv
<1>2. /\ Tiled(funcs, e) /\ (~glulx => Packed(funcs, e)) /\ glulx \in BOOLEAN
      /\ Statics(sym, funcs, globals, data, tokens) /\ current \in CurrentRecord
      /\ sym \in [Syms -> SymRecord]
  BY <1>1, SourceFacts DEF SourceInv, Parsed
<1> HIDE DEF e
<1>3. /\ DOMAIN funcs = 1 .. Len(funcs) /\ Len(funcs) \in Nat
      /\ \A i \in 1 .. Len(funcs) : funcs[i] \in FuncRecord /\ funcs[i].len > 0
  BY <1>2, TiledFacts DEF Tiled
<1>4. ASSUME NEW i \in 1 .. Len(funcs)
      PROVE  funcs[i].at = IF i = 1 THEN 0 ELSE funcs[i - 1].at + funcs[i - 1].len
  <2>1. CASE i = 1
    BY <1>2, <2>1 DEF Tiled
  <2>2. CASE i # 1
    <3>1. i - 1 \in 1 .. Len(funcs) - 1 /\ (i - 1) + 1 = i
      BY <1>3, <2>2
    <3>2. funcs[(i - 1) + 1].at = funcs[i - 1].at + funcs[i - 1].len
      BY <1>2, <3>1 DEF Tiled
    <3> QED BY <2>2, <3>1, <3>2
  <2> QED BY <2>1, <2>2
<1>5. \A i \in 1 .. Len(funcs) : funcs[i].refs \subseteq Syms /\ (glulx \/ funcs[i].at % Scale = 0)
  BY <1>2, <1>3 DEF FuncRecord, Packed
<1>6. globals \subseteq Syms /\ current.refs \subseteq Syms /\ \A d \in Range(data) : d \in OperandRecord
  BY <1>2 DEF Statics, CurrentRecord, Range
<1>7. stage \in {"parse", "mark", "search", "output", "done"}
  BY <1>1 DEF StageInv
<1>8. used \subseteq DOMAIN funcs /\ todo \subseteq used
  BY <1>1, <1>3, <1>7 DEF StageInv, Fresh, Marked
<1> QED
  BY <1>2, <1>3, <1>4, <1>5, <1>6, <1>7, <1>8 DEF DeadTypeOK

-----------------------------------------------------------------------------
(* Every address is that of the routine meant.                             *)

\* The largest number of a set ...
LEMMA MaxIs ==
  ASSUME NEW S \in SUBSET Nat, NEW k \in S, \A m \in S : m <= k
  PROVE  Max(S) = k
<1> DEFINE P(x) == \A y \in S : x >= y
<1>1. P(k)
  OBVIOUS
<1>2. \A x \in S : P(x) => x = k
  OBVIOUS
<1> HIDE DEF P
<1>3. (CHOOSE x \in S : P(x)) = k
  BY <1>1, <1>2
<1> QED
  BY <1>3 DEF Max, P

\* ... and the least.
LEMMA MinIs ==
  ASSUME NEW S \in SUBSET Nat, NEW k \in S, \A m \in S : k <= m
  PROVE  Min(S) = k
<1> DEFINE P(x) == \A y \in S : x <= y
<1>1. P(k)
  OBVIOUS
<1>2. \A x \in S : P(x) => x = k
  OBVIOUS
<1> HIDE DEF P
<1>3. (CHOOSE x \in S : P(x)) = k
  BY <1>1, <1>2
<1> QED
  BY <1>3 DEF Min, P

\* The value of a name is the address of the function it means.
LEMMA MeaningAddress ==
  ASSUME NEW e, Tiled(funcs, e), Symbols(sym, funcs), NEW s \in Syms, NEW f \in Meanings(s)
  PROVE  f \in 1 .. Len(funcs) /\ sym[s].type = "routine" /\ funcs[f].at = sym[s].value
<1>1. DOMAIN funcs = 1 .. Len(funcs) /\ Len(funcs) \in Nat
  BY TiledFacts DEF Tiled
<1>2. \A x : DefinitionsOf(x) \in SUBSET Nat /\ DefinitionsOf(x) \subseteq 1 .. Len(funcs)
  BY <1>1 DEF DefinitionsOf
<1>3. \A x : DefinitionsOf(x) # {} <=> Defined(funcs, x)
  BY <1>1 DEF DefinitionsOf, Defined
<1>4. CASE DefinitionsOf(s) # {}
  <2>1. Defined(funcs, s)
    BY <1>3, <1>4
  <2>2. PICK k \in 1 .. Len(funcs) : IsLast(funcs, s, k) /\ funcs[k].at = sym[s].value
    BY <2>1 DEF Symbols
  <2>3. k \in DefinitionsOf(s) /\ \A m \in DefinitionsOf(s) : m <= k
    BY <1>1, <2>2 DEF IsLast, DefinitionsOf
  <2>4. Max(DefinitionsOf(s)) = k
    BY <1>2, <2>3, MaxIs
  <2>5. f = k
    BY <1>4, <2>4 DEF Meanings
  <2>6. sym[s].type = "routine"
    BY <2>1, NameAddress
  <2> QED BY <2>2, <2>5, <2>6
<1>5. CASE DefinitionsOf(s) = {}
  <2>1. PICK x \in Syms : sym[x].orig = s /\ DefinitionsOf(x) # {} /\ f = Min(DefinitionsOf(x))
    BY <1>5 DEF Meanings
  <2>2. sym[x].orig # NoSym /\ Defined(funcs, x) /\ ~Defined(funcs, s)
    BY <1>3, <1>5, <2>1, DeadAssumption
  <2>3. /\ sym[s].type # "unknown"
        /\ \E k \in 1 .. Len(funcs) : IsFirst(funcs, x, k) /\ funcs[k].at = sym[s].value
    BY <2>1, <2>2 DEF Symbols
  <2>4. PICK k \in 1 .. Len(funcs) : IsFirst(funcs, x, k) /\ funcs[k].at = sym[s].value
    BY <2>3
  <2>5. k \in DefinitionsOf(x) /\ \A m \in DefinitionsOf(x) : k <= m
    BY <1>1, <2>4 DEF IsFirst, DefinitionsOf
  <2>6. f = k
    BY <1>2, <2>1, <2>5, MinIs
  <2>7. funcs[k].at > 0
    <3>1. funcs[k].name # NoSym
      BY <2>4, DeadAssumption DEF IsFirst
    <3> QED BY <3>1, TiledFacts
  <2>8. sym[s].type = "routine"
    <3>1. SUFFICES ASSUME sym[s].type # "routine" PROVE FALSE
      OBVIOUS
    <3>2. sym[s].value = 0
      BY <3>1 DEF Symbols
    <3> QED BY <2>4, <2>7, <3>2
  <2> QED BY <2>4, <2>6, <2>8
<1> QED
  BY <1>4, <1>5

Address(o) == IF o.marker = "routine" THEN o.value ELSE sym[o.value].value

\* A covered mention of s that holds the address of s leads to what s means.
LEMMA LinkRight ==
  ASSUME NEW e, Tiled(funcs, e), Symbols(sym, funcs), NEW s \in Syms,
         NEW refs, s \in refs, Covers(sym, funcs, refs, used),
         NEW o, sym[s].type = "routine" => Address(o) = sym[s].value,
         NEW v, Final(sym, funcs, newaddr, o, v), NEW f \in Meanings(s)
  PROVE  f \in used /\ v = newaddr[f]
<1>1. f \in 1 .. Len(funcs) /\ sym[s].type = "routine" /\ funcs[f].at = sym[s].value
  BY MeaningAddress
<1>2. f \in used
  BY <1>1 DEF Covers
<1>3. v = newaddr[f]
  BY <1>1 DEF Final, Address
<1> QED
  BY <1>2, <1>3

\* What stands for s has the address of s.
LEMMA StandsAt ==
  ASSUME NEW o, NEW s, Stands(sym, o, s)
  PROVE  Address(o) = sym[s].value
BY DEF Stands, Fixed, Address

\* What is known when the story file is written.
LEMMA DoneFacts ==
  ASSUME DeadInv, stage = "done"
  PROVE  /\ SourceInv /\ StageInv /\ out.patch = Len(operands) + 1 /\ out \in OutRecord
         /\ Written1(sym, funcs, used, newaddr, operands, out)
         /\ DOMAIN out.placed = 1 .. Len(out.placed) /\ Len(operands) \in Nat
         /\ DOMAIN operands = 1 .. Len(operands) /\ DOMAIN funcs = 1 .. Len(funcs)
<1>1. SourceInv /\ StageInv
  BY DEF DeadInv
<1>2. Copied(sym, funcs, used, newaddr, operands, pc, out) /\ out.patch = Len(operands) + 1
  BY <1>1 DEF StageInv
<1>3. out \in OutRecord /\ Written1(sym, funcs, used, newaddr, operands, out)
  BY <1>2 DEF Copied
<1>4. out.placed \in Seq([at : Nat, patch : Nat, value : Nat])
  BY <1>3 DEF OutRecord
<1>5. DOMAIN out.placed = 1 .. Len(out.placed)
  BY <1>4
<1>6. operands \in Seq(CodeOperand) /\ funcs \in Seq(FuncRecord)
  BY <1>1, SourceFacts
<1> QED
  BY <1>1, <1>2, <1>3, <1>5, <1>6

\* The addresses in code, in tables and in the action table.
LEMMA InvLinks ==
  ASSUME DeadInv
  PROVE  LinksRight
<1> SUFFICES ASSUME stage = "done"
             PROVE  /\ \A p \in Range(out.placed) : \A f \in Meanings(operands[p.patch].of) :
                         f \in used /\ p.value = newaddr[f]
                    /\ \A d \in Range(data) : \A f \in Meanings(d.of) :
                         d.of # NoSym => f \in used /\ Patched(d) = newaddr[f]
                    /\ \A t \in Range(tokens) : \A f \in Meanings(t.of) :
                         f \in used /\ Patched(Token(t)) = newaddr[f]
                    /\ \A s \in asked : \A f \in Meanings(s) :
                         f \in used /\ Patched(ActionOf(s)) = newaddr[f]
  BY DEF LinksRight, Written
<1>1. /\ Tiled(funcs, pc) /\ Standing(sym, operands)
      /\ \A i \in 1 .. Len(operands) : \E f \in 1 .. Len(funcs) : Inside(funcs[f], operands[i])
      /\ Marked(sym, funcs, globals, used, todo) /\ todo = {}
  BY DoneFacts, OutputFacts
<1>2. Symbols(sym, funcs) /\ \A i \in 1 .. Len(operands) : operands[i].of \in Syms
  BY DoneFacts, SourceFacts
<1>3. /\ Statics(sym, funcs, globals, data, tokens) /\ globals \subseteq Syms /\ asked \subseteq Syms
      /\ Noted(sym, globals, asked)
  BY DoneFacts DEF SourceInv, Parsed, Statics, StageInv
<1>4. /\ Covers(sym, funcs, globals \cup {MainSym}, used)
      /\ \A f \in used : Covers(sym, funcs, funcs[f].refs, used)
  BY <1>1 DEF Marked
<1>5. ASSUME NEW p \in Range(out.placed), NEW f \in Meanings(operands[p.patch].of)
      PROVE  f \in used /\ p.value = newaddr[f]
  <2> DEFINE o == operands[p.patch]
             s == operands[p.patch].of
             v == p.value
  <2>1. PICK x \in 1 .. Len(out.placed) : out.placed[x] = p
    BY DoneFacts DEF Range
  <2>2. /\ p.patch \in 1 .. out.patch - 1 /\ Final(sym, funcs, newaddr, o, v)
        /\ \A g \in 1 .. Len(funcs) : Inside(funcs[g], o) => g \in used
    BY <2>1, DoneFacts DEF Written1
  <2>3. p.patch \in 1 .. Len(operands)
    BY <2>2, DoneFacts
  <2>4. s \in Syms /\ Stands(sym, o, s)
    BY <1>1, <1>2, <2>3 DEF Standing
  <2>5. PICK g \in 1 .. Len(funcs) : Inside(funcs[g], o)
    BY <1>1, <2>3
  <2>6. g \in used /\ (s \in funcs[g].refs \/ s = MainSym)
    BY <2>2, <2>5 DEF Inside
  <2>7. Address(o) = sym[s].value
    BY <2>4, StandsAt
  <2>8. f \in Meanings(s)
    BY <1>5
  <2> HIDE DEF o, s, v
  <2>9. CASE s \in funcs[g].refs
    <3>1. f \in used /\ v = newaddr[f]
      BY <1>1, <1>2, <1>4, <2>2, <2>4, <2>6, <2>7, <2>8, <2>9, LinkRight
    <3> QED BY <3>1 DEF v
  <2>10. CASE s = MainSym
    <3>0. s \in globals \cup {MainSym}
      BY <2>10
    <3>1. f \in used /\ v = newaddr[f]
      BY <1>1, <1>2, <1>4, <2>2, <2>4, <2>7, <2>8, <3>0, LinkRight
    <3> QED BY <3>1 DEF v
  <2> QED BY <2>6, <2>9, <2>10
<1>6. ASSUME NEW d \in Range(data), NEW f \in Meanings(d.of), d.of # NoSym
      PROVE  f \in used /\ Patched(d) = newaddr[f]
  <2> DEFINE s == d.of
             v == Patched(d)
  <2>1. PICK i \in 1 .. Len(data) : data[i] = d
    BY <1>3 DEF Range, Statics
  <2>2. s \in globals /\ Stands(sym, d, s)
    BY <1>3, <1>6, <2>1 DEF Statics
  <2>3. s \in Syms /\ s \in globals \cup {MainSym} /\ Address(d) = sym[s].value
    BY <1>3, <2>2, StandsAt
  <2>4. Final(sym, funcs, newaddr, d, v)
    BY <1>1, PatchedRight
  <2>5. f \in Meanings(s)
    BY <1>6
  <2> HIDE DEF s, v
  <2>6. f \in used /\ v = newaddr[f]
    BY <1>1, <1>2, <1>4, <2>3, <2>4, <2>5, LinkRight
  <2> QED BY <2>6 DEF v
<1>7. ASSUME NEW t \in Range(tokens), NEW f \in Meanings(t.of)
      PROVE  f \in used /\ Patched(Token(t)) = newaddr[f]
  <2> DEFINE s == t.of
             o == Token(t)
             v == Patched(o)
  <2>1. PICK i \in 1 .. Len(tokens) : tokens[i] = t
    BY <1>3 DEF Range, Statics
  <2>2. s \in globals /\ Fixed(sym, s, t.value)
    BY <1>3, <2>1 DEF Statics
  <2>3. s \in Syms /\ s \in globals \cup {MainSym} /\ Address(o) = sym[s].value
    BY <1>3, <2>2 DEF Fixed, Address, Token
  <2>4. Final(sym, funcs, newaddr, o, v)
    BY <1>1, PatchedRight
  <2>5. f \in Meanings(s)
    BY <1>7
  <2> HIDE DEF s, o, v
  <2>6. f \in used /\ v = newaddr[f]
    BY <1>1, <1>2, <1>4, <2>3, <2>4, <2>5, LinkRight
  <2> QED BY <2>6 DEF v, o
<1>8. ASSUME NEW s \in asked, NEW f \in Meanings(s)
      PROVE  f \in used /\ Patched(ActionOf(s)) = newaddr[f]
  <2> DEFINE o == ActionOf(s)
             v == Patched(o)
  <2>1. s \in globals \cup {MainSym} /\ s \in Syms
    BY <1>3 DEF Noted
  <2>2. Address(o) = sym[s].value
    BY DEF Address, ActionOf
  <2>3. Final(sym, funcs, newaddr, o, v)
    BY <1>1, PatchedRight
  <2> HIDE DEF o, v
  <2>4. f \in used /\ v = newaddr[f]
    BY <1>1, <1>2, <1>4, <1>8, <2>1, <2>2, <2>3, LinkRight
  <2> QED BY <2>4 DEF v, o
<1> QED
  BY <1>5, <1>6, <1>7, <1>8

\* The function an operand lies in is the last that begins before it.
LEMMA OwnerIs ==
  ASSUME NEW e, Tiled(funcs, e), NEW i \in 1 .. Len(operands), operands[i].at \in Nat,
         NEW g \in 1 .. Len(funcs), Inside(funcs[g], operands[i])
  PROVE  Owner(i) = g
<1> DEFINE S == {f \in DOMAIN funcs : funcs[f].at <= operands[i].at}
           a == operands[i].at
<1>1. DOMAIN funcs = 1 .. Len(funcs) /\ Len(funcs) \in Nat
  BY TiledFacts DEF Tiled
<1>2. funcs[g].at < a /\ a + OperandSize <= funcs[g].at + funcs[g].len
  BY DEF Inside
<1>3. \A f \in 1 .. Len(funcs) : funcs[f].at \in Nat /\ funcs[f].len \in Nat
  BY TiledFacts
<1>4. S \in SUBSET Nat
  BY <1>1
<1>5. g \in S
  BY <1>1, <1>2, <1>3
<1>6. ASSUME NEW m \in S PROVE m <= g
  <2>1. m \in 1 .. Len(funcs) /\ funcs[m].at <= a
    BY <1>1
  <2>2. SUFFICES ASSUME g < m PROVE FALSE
    BY <2>1
  <2>3. funcs[g].at + funcs[g].len <= funcs[m].at
    BY <2>1, <2>2 DEF Tiled
  <2>4. funcs[g].at \in Nat /\ funcs[g].len \in Nat /\ funcs[m].at \in Nat
    BY <1>3, <2>1
  <2>5. funcs[g].at + funcs[g].len <= a
    <3>1. a \in Nat
      OBVIOUS
    <3> HIDE DEF a
    <3> QED BY ONLY <2>1, <2>3, <2>4, <3>1
  <2>6. a + 2 <= funcs[g].at + funcs[g].len
    <3>1. a + OperandSize <= funcs[g].at + funcs[g].len
      BY <1>2
    <3>2. OperandSize = 2
      BY DEF OperandSize
    <3> QED BY <3>1, <3>2
  <2>7. a \in Nat
    OBVIOUS
  <2> HIDE DEF a, S
  <2> QED BY ONLY <2>4, <2>5, <2>6, <2>7
<1>7. Max(S) = g
  <2> HIDE DEF S
  <2> QED BY <1>4, <1>5, <1>6, MaxIs
<1> QED
  BY <1>7 DEF Owner

\* What the output pass has written, and where.
LEMMA InvPlaced ==
  ASSUME DeadInv
  PROVE  PlacedRight
<1>1. err \subseteq {"undefined"}
  BY DEF DeadInv, StageInv
<1> DEFINE O == {p.patch : p \in Range(out.placed)}
           U == {i \in DOMAIN operands : Owner(i) \in used}
<1>2. ASSUME stage = "done"
      PROVE  /\ O = U
             /\ \A p \in Range(out.placed) :
                  p.at = newaddr[Owner(p.patch)] + (operands[p.patch].at - funcs[Owner(p.patch)].at)
  <2>1. /\ Tiled(funcs, pc) /\ used \subseteq 1 .. Len(funcs)
        /\ \A i \in 1 .. Len(operands) : \E f \in 1 .. Len(funcs) : Inside(funcs[f], operands[i])
    BY <1>2, DoneFacts, OutputFacts
  <2>2. \A i \in 1 .. Len(operands) : operands[i].at \in Nat
    BY <1>2, DoneFacts, SourceFacts
  <2>3. \A i \in 1 .. Len(operands) : Owner(i) \in 1 .. Len(funcs) /\ Inside(funcs[Owner(i)], operands[i])
    BY <2>1, <2>2, OwnerIs
  <2>4. 1 .. out.patch - 1 = 1 .. Len(operands) /\ DOMAIN operands = 1 .. Len(operands)
    BY <1>2, DoneFacts
  <2>5. /\ DOMAIN out.placed = 1 .. Len(out.placed)
        /\ Written1(sym, funcs, used, newaddr, operands, out)
    BY <1>2, DoneFacts
  <2>6. ASSUME NEW p \in Range(out.placed)
        PROVE  /\ p.patch \in 1 .. Len(operands) /\ Owner(p.patch) \in used
               /\ p.at = newaddr[Owner(p.patch)] + (operands[p.patch].at - funcs[Owner(p.patch)].at)
    <3>1. PICK x \in 1 .. Len(out.placed) : out.placed[x] = p
      BY <2>5 DEF Range
    <3>2. p.patch \in 1 .. Len(operands)
      BY <2>4, <2>5, <3>1 DEF Written1
    <3> QED BY <2>3, <2>5, <3>1, <3>2 DEF Written1
  <2>7. ASSUME NEW i \in 1 .. Len(operands), Owner(i) \in used
        PROVE  i \in O
    <3>1. PICK x \in 1 .. Len(out.placed) : out.placed[x].patch = i
      BY <2>3, <2>4, <2>5, <2>7 DEF Written1
    <3>2. out.placed[x] \in Range(out.placed)
      BY <2>5 DEF Range
    <3> QED BY <3>1, <3>2
  <2> QED BY <2>4, <2>6, <2>7
<1> QED
  BY <1>1, <1>2 DEF PlacedRight, Written

\* The functions tile the code area from 0, at packed addresses on the
\* Z-machine, and the search only queues functions it has marked.
THEOREM DeadTyped ==
  ASSUME Strip, ~ParenCases, ~TokensOfReplaced
  PROVE  DeadSpec => []DeadTypeOK
<1>1. DeadInv => DeadTypeOK
  BY InvTypes
<1> QED
  BY <1>1, DeadInvariant, PTL

\* Every routine address in the story file is the address the routine the
\* author named was moved to, which was therefore kept (output_file_z and _g,
\* df_stripped_address_for_address, locate_dead_functions).  The hypotheses
\* leave out the three cases in which the code loses a mention.
THEOREM DeadLinks ==
  ASSUME Strip, ~ParenCases, ~TokensOfReplaced
  PROVE  DeadSpec => []LinksRight
<1>1. DeadInv => LinksRight
  BY InvLinks
<1> QED
  BY <1>1, DeadInvariant, PTL

\* The output pass writes exactly the operands of the routines in use, each
\* where it stands in its moved routine, and reports no internal error.
THEOREM DeadPlaced ==
  ASSUME Strip, ~ParenCases, ~TokensOfReplaced
  PROVE  DeadSpec => []PlacedRight
<1>1. DeadInv => PlacedRight
  BY InvPlaced
<1> QED
  BY <1>1, DeadInvariant, PTL
=============================================================================
