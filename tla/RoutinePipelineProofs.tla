------------------------ MODULE RoutinePipelineProofs ------------------------
(***************************************************************************)
(* Proofs about RoutinePipeline, for any set of names, any replacements    *)
(* and any bounds: every routine is emitted once and in order, none loses  *)
(* instructions without an error, and symbols and tables end up with the   *)
(* addresses the source gives them.                                        *)
(*                                                                         *)
(* The argument follows a routine from its definition to the code area.    *)
(* Ended counts the routines that are defined and closed; under the latch  *)
(* they stand in the stash, and the code area holds the first next - 1 of  *)
(* them, without it they are the code area (InOrder).  What the symbols    *)
(* hold is a matter of the routines in the code area alone (Resolved), so  *)
(* that one invariant serves the parse, the emission and the end.          *)
(***************************************************************************)
EXTENDS RoutinePipeline, SequenceTheorems, TLAPS

Ended == IF open THEN Len(defs) - 1 ELSE Len(defs)

Deferred == [ id : Nat, name : Names, also : SUBSET Renamed, shadow : BOOLEAN,
              handle : BOOLEAN, kept : Nat, asked : Nat ]
Emitted  == [ id : Nat, how : {"lowered", "whole", "part"} ]
Current  == [ capturing : BOOLEAN, shadow : BOOLEAN, started : BOOLEAN,
              errors0 : Nat, asked : Nat, kept : Nat ]
Token    == [ name : Names, addr : Nat, at : Nat ]

Types ==
  /\ mode \in Modes
  /\ {infix, latch, open} \subseteq BOOLEAN
  /\ phase \in {"parse", "emit", "done", "fatal"}
  /\ direct \in {"inactive", "building", "rejected"}
  /\ cur \in Current
  /\ stash \in Seq(Deferred) /\ code \in Seq(Emitted) /\ defs \in Seq(Names)
  /\ grammar \in Seq(Token)
  /\ next \in Nat \ {0} /\ errors \in Nat
  /\ value \in [Symbols -> Nat]
  /\ actions \in [Names -> Nat]
  /\ Len(defs) <= MaxRoutines

\* Whether the pass defers lowering is settled before the first routine.
Latched ==
  /\ phase # "fatal" => latch = DeferredLoweringWanted
  /\ phase = "emit" => latch
  /\ open => phase = "parse" /\ defs # <<>> /\ cur.capturing = Captures
  /\ ~open => direct = "inactive" /\ cur = Idle

\* Where the routines that have ended are.
InOrder ==
  /\ latch => Len(stash) = Ended /\ Len(code) = next - 1 /\ next <= Len(stash) + 1
  /\ ~latch => stash = <<>> /\ Len(code) = Ended /\ next = 1
  /\ phase = "parse" => next = 1
  /\ phase = "done" /\ latch => next = Len(stash) + 1
  /\ \A i \in 1 .. Len(code) : code[i].id = i
  /\ \A i \in 1 .. Len(stash) : stash[i].id = i /\ stash[i].name = defs[i]

\* A stream with holes is only ever kept where there are errors.
Accounted ==
  /\ cur.capturing /\ cur.shadow /\ mode.flipped => errors > 0
  /\ cur.shadow /\ cur.kept # cur.asked => errors > 0
  /\ ~cur.capturing => cur.kept = cur.asked
  /\ \A i \in 1 .. Len(stash) : stash[i].shadow /\ stash[i].kept # stash[i].asked => errors > 0
  /\ \A i \in 1 .. Len(code) : code[i].how = "part" => errors > 0

First(x, i, n) == defs[i] = x /\ \A j \in 1 .. n : defs[j] = x => i <= j
Last(x, i, n)  == defs[i] = x /\ \A j \in 1 .. n : defs[j] = x => j <= i

\* The symbols have the values v and the first n routines are in the code area.
Resolved(n, v) ==
  /\ \A x \in Names : (\E i \in 1 .. n : defs[i] = x) =>
       \E i \in 1 .. n : Last(x, i, n) /\ v[x] = i - 1
  /\ \A x \in DOMAIN Rename :
       /\ (\E i \in 1 .. n : defs[i] = x) =>
            \E i \in 1 .. n : First(x, i, n) /\ v[Rename[x]] = i - 1
       /\ (\A i \in 1 .. n : defs[i] # x) => v[Rename[x]] = 0

\* Main__ comes first, so no other routine has address 0; and in the stash
\* the first definition of X, and it alone, is Y's too.
Replacing ==
  /\ \A i \in 1 .. Len(defs) : defs[i] = Main <=> i = 1
  /\ \A i \in 1 .. Len(stash) : \A x \in DOMAIN Rename :
       Rename[x] \in stash[i].also <=> First(x, i, i)
  /\ \A x \in DOMAIN Rename : (\E i \in 1 .. Len(stash) : defs[i] = x) =>
       \E i \in 1 .. Len(stash) : Rename[x] \in stash[i].also

Refreshed ==
  phase = "done" =>
    /\ \A x \in Names : actions[x] = value[x]
    /\ latch => \A i \in 1 .. Len(grammar) : grammar[i].addr = value[grammar[i].name]

IInv ==
  /\ Types /\ Latched /\ InOrder /\ Accounted
  /\ Resolved(Len(code), value) /\ Replacing /\ Refreshed

-----------------------------------------------------------------------------
LEMMA Lengths ==
  ASSUME Types
  PROVE  /\ Len(defs) \in Nat /\ Len(stash) \in Nat /\ Len(code) \in Nat /\ Len(grammar) \in Nat
         /\ DOMAIN defs = 1 .. Len(defs) /\ DOMAIN stash = 1 .. Len(stash)
         /\ DOMAIN code = 1 .. Len(code) /\ DOMAIN grammar = 1 .. Len(grammar)
         /\ defs = <<>> <=> Len(defs) = 0
         /\ \A i \in 1 .. Len(defs) : defs[i] \in Names
BY LenProperties, EmptySeq, ElementOfSeq DEF Types

LEMMA SymbolFacts ==
  /\ Names \subseteq Symbols /\ Renamed \subseteq Symbols
  /\ \A x \in DOMAIN Rename : x \in Names /\ x # Main /\ Rename[x] \in Renamed /\ Rename[x] \notin Names
  /\ \A x, y \in DOMAIN Rename : Rename[x] = Rename[y] => x = y
BY NamesAssumption DEF NamesAssumption, Symbols, Renamed

\* The next routine reaches the code area, at address n: its name and, if it
\* is the first of that name, the name for the original get that address.
LEMMA ResolvedNext ==
  ASSUME NEW n \in Nat, NEW v, NEW w,
         Resolved(n, v),
         \A i \in 1 .. n + 1 : defs[i] \in Names,
         \A s \in Symbols :
           w[s] = IF s = defs[n + 1] \/ \E x \in DOMAIN Rename : s = Rename[x] /\ First(x, n + 1, n + 1)
                    THEN n ELSE v[s]
  PROVE  Resolved(n + 1, w)
<1>0. n + 1 \in 1 .. n + 1 /\ 1 .. n + 1 = 1 .. n \cup {n + 1} /\ n + 1 - 1 = n
      /\ \A i \in 1 .. n : i \in Nat /\ i <= n + 1 /\ i # n + 1
  OBVIOUS
<1>1. ASSUME NEW x \in Names, \E i \in 1 .. n + 1 : defs[i] = x
      PROVE  \E i \in 1 .. n + 1 : Last(x, i, n + 1) /\ w[x] = i - 1
  <2>1. CASE defs[n + 1] = x
    <3>1. w[x] = n
      BY <2>1, SymbolFacts
    <3>2. Last(x, n + 1, n + 1)
      BY <2>1 DEF Last
    <3> QED BY <3>1, <3>2, <1>0
  <2>2. CASE defs[n + 1] # x
    <3>1. PICK i \in 1 .. n : Last(x, i, n) /\ v[x] = i - 1
      BY <1>1, <2>2, <1>0 DEF Resolved
    <3>2. w[x] = v[x]
      BY <2>2, SymbolFacts
    <3>3. Last(x, i, n + 1)
      BY <3>1, <2>2, <1>0 DEF Last
    <3> QED BY <3>1, <3>2, <3>3, <1>0
  <2> QED BY <2>1, <2>2
<1>2. ASSUME NEW x \in DOMAIN Rename, \E i \in 1 .. n + 1 : defs[i] = x
      PROVE  \E i \in 1 .. n + 1 : First(x, i, n + 1) /\ w[Rename[x]] = i - 1
  <2>0. Rename[x] \in Symbols /\ Rename[x] # defs[n + 1]
    BY SymbolFacts, <1>0
  <2>1. CASE \E i \in 1 .. n : defs[i] = x
    <3>1. PICK i \in 1 .. n : First(x, i, n) /\ v[Rename[x]] = i - 1
      BY <2>1 DEF Resolved
    <3>2. ~First(x, n + 1, n + 1)
      BY <3>1, <1>0 DEF First
    <3>3. w[Rename[x]] = v[Rename[x]]
      BY <2>0, <3>2, SymbolFacts
    <3>4. First(x, i, n + 1)
      BY <3>1, <1>0 DEF First
    <3> QED BY <3>1, <3>3, <3>4, <1>0
  <2>2. CASE \A i \in 1 .. n : defs[i] # x
    <3>1. First(x, n + 1, n + 1)
      BY <1>2, <2>2, <1>0 DEF First
    <3>2. w[Rename[x]] = n
      BY <2>0, <3>1
    <3> QED BY <3>1, <3>2, <1>0
  <2> QED BY <2>1, <2>2
<1>3. ASSUME NEW x \in DOMAIN Rename, \A i \in 1 .. n + 1 : defs[i] # x
      PROVE  w[Rename[x]] = 0
  <2>1. Rename[x] \in Symbols /\ Rename[x] # defs[n + 1]
    BY SymbolFacts, <1>0
  <2>2. ~First(x, n + 1, n + 1)
    BY <1>3, <1>0 DEF First
  <2>3. w[Rename[x]] = v[Rename[x]]
    BY <2>1, <2>2, SymbolFacts
  <2> QED BY <2>3, <1>3, <1>0 DEF Resolved
<1> QED
  BY <1>1, <1>2, <1>3 DEF Resolved

-----------------------------------------------------------------------------
(* The invariant holds at the start.                                       *)
LEMMA InitInv == Init => IInv
<1> SUFFICES ASSUME Init PROVE IInv
  OBVIOUS
<1> USE DEF Init
<1>1. Types
  <2>1. Main \in Names /\ MaxRoutines \in Nat
    BY NamesAssumption DEF NamesAssumption
  <2>2. latch \in BOOLEAN
    BY DEF DeferredLoweringWanted, Modes
  <2>3. cur \in Current
    BY DEF Idle, Current
  <2>4. stash \in Seq(Deferred) /\ code \in Seq(Emitted) /\ defs \in Seq(Names)
        /\ grammar \in Seq(Token) /\ Len(defs) = 0
    BY EmptySeq
  <2>5. value \in [Symbols -> Nat] /\ actions \in [Names -> Nat] /\ errors \in Nat
        /\ next \in Nat \ {0}
    OBVIOUS
  <2>6. mode \in Modes /\ {infix, latch, open} \subseteq BOOLEAN
    BY <2>2
  <2> QED
    BY <2>1, <2>3, <2>4, <2>5, <2>6 DEF Types
<1>2. Latched
  BY DEF Latched
<1>3. InOrder
  BY DEF InOrder, Ended
<1>4. Accounted
  BY DEF Accounted, Idle
<1>5. Resolved(Len(code), value)
  BY SymbolFacts DEF Resolved
<1>6. Replacing
  BY DEF Replacing
<1>7. Refreshed
  BY DEF Refreshed
<1> QED
  BY <1>1, <1>2, <1>3, <1>4, <1>5, <1>6, <1>7 DEF IInv

-----------------------------------------------------------------------------
(* While a routine is open.                                                *)
LEMMA HeaderInv ==
  ASSUME IInv, NEW n \in Names, AssembleRoutineHeader(n)
  PROVE  IInv'
<1> USE DEF IInv
<1>0. /\ phase = "parse" /\ ~open /\ open' /\ defs' = Append(defs, n)
      /\ Len(defs) < MaxRoutines /\ MayDefine(n)
      /\ UNCHANGED <<mode, infix, latch, phase, stash, next, code, value, errors, grammar, actions>>
  BY DEF AssembleRoutineHeader
<1>1. /\ defs' \in Seq(Names) /\ Len(defs') = Len(defs) + 1
      /\ defs'[Len(defs) + 1] = n
      /\ \A i \in 1 .. Len(defs) : defs'[i] = defs[i]
  BY <1>0, AppendProperties DEF Types
<1>2. cur' \in Current /\ cur'.capturing = Captures
      /\ cur'.kept = cur'.asked
      /\ (cur'.capturing /\ cur'.shadow /\ mode.flipped => errors > 0)
  <2>1. errors \in Nat /\ mode \in Modes /\ infix \in BOOLEAN /\ ShadowStore \in BOOLEAN /\ Captures \in BOOLEAN
    BY DEF Types, ShadowStore, Captures, Modes
  <2>2. ShadowStore /\ mode.flipped => errors > 0
    BY <2>1 DEF ShadowStore
  <2>3. CASE Captures
    <3>1. cur' = [Idle EXCEPT !.capturing = TRUE, !.shadow = ShadowStore,
                              !.started = (errors = 0), !.errors0 = errors]
      BY <2>3 DEF AssembleRoutineHeader
    <3>2. cur'.capturing = TRUE /\ cur'.shadow = ShadowStore /\ cur'.kept = 0 /\ cur'.asked = 0
          /\ cur' \in Current
      BY <3>1, <2>1 DEF Idle, Current
    <3> QED BY <3>2, <2>2, <2>3
  <2>4. CASE ~Captures
    <3>1. cur' = Idle /\ Captures = FALSE
      BY <2>4, <2>1 DEF AssembleRoutineHeader
    <3>2. Idle \in Current /\ Idle.capturing = FALSE /\ Idle.kept = Idle.asked
      BY DEF Idle, Current
    <3> QED BY <3>1, <3>2
  <2> QED BY <2>3, <2>4
<1>3. direct' \in {"inactive", "building", "rejected"}
  BY DEF AssembleRoutineHeader, Types
<1>4. Len(defs) \in Nat /\ Len(code) <= Len(defs) /\ Len(stash) <= Len(defs) /\ Len(code) \in Nat
      /\ Len(stash) \in Nat
  BY <1>0, Lengths DEF InOrder, Ended, Types
<1>5. Types'
  BY <1>0, <1>1, <1>2, <1>3, <1>4, NamesAssumption DEF Types, NamesAssumption
<1>6. Latched'
  <2>1. defs' # <<>>
    BY <1>1, <1>4
  <2> QED
    BY <1>0, <1>2, <2>1 DEF Latched, DeferredLoweringWanted, Captures
<1>7. InOrder'
  <2>1. Ended' = Ended
    BY <1>0, <1>1, <1>4 DEF Ended
  <2>2. \A i \in 1 .. Len(stash) : defs'[i] = defs[i]
    BY <1>1, <1>4
  <2> QED
    BY <1>0, <2>1, <2>2 DEF InOrder
<1>8. Accounted'
  BY <1>0, <1>2 DEF Accounted
<1>9. Resolved(Len(code), value)'
  <2>1. \A i \in 1 .. Len(code) : defs'[i] = defs[i]
    BY <1>1, <1>4
  <2>2. \A x \in Names : \A i \in 1 .. Len(code) :
          /\ (defs'[i] = x) = (defs[i] = x)
          /\ First(x, i, Len(code))' = First(x, i, Len(code))
          /\ Last(x, i, Len(code))' = Last(x, i, Len(code))
    BY <1>0, <2>1 DEF First, Last
  <2>3. Len(code)' = Len(code) /\ value' = value /\ Resolved(Len(code), value)
    BY <1>0
  <2>4. DOMAIN Rename \subseteq Names
    BY SymbolFacts
  <2> QED
    BY <2>2, <2>3, <2>4 DEF Resolved
<1>10. Replacing'
  <2>1. \A i \in 1 .. Len(stash) : i \in 1 .. Len(defs) /\ \A j \in 1 .. i : j \in 1 .. Len(defs)
    BY <1>4
  <2>2. \A i \in 1 .. Len(stash) : \A x \in DOMAIN Rename : First(x, i, i)' <=> First(x, i, i)
    BY <1>1, <2>1 DEF First
  <2>3. n = Main <=> Len(defs) + 1 = 1
    BY <1>0, <1>4, Lengths DEF MayDefine
  <2>4. \A i \in 1 .. Len(defs') : defs'[i] = Main <=> i = 1
    <3>1. \A i \in 1 .. Len(defs') : i \in 1 .. Len(defs) \/ i = Len(defs) + 1
      BY <1>1, <1>4
    <3> QED
      BY <1>1, <1>4, <2>3, <3>1 DEF Replacing
  <2> QED
    BY <1>0, <1>1, <2>1, <2>2, <2>4 DEF Replacing
<1>11. Refreshed'
  BY <1>0 DEF Refreshed
<1> QED
  BY <1>5, <1>6, <1>7, <1>8, <1>9, <1>10, <1>11

LEMMA InstructionInv ==
  ASSUME IInv, AssembleInstruction
  PROVE  IInv'
<1> USE DEF IInv
<1>0. /\ open /\ cur' = [cur EXCEPT !.asked = @ + 1, !.kept = IF Keeps THEN @ + 1 ELSE @]
      /\ UNCHANGED <<mode, infix, latch, phase, open, direct, stash, next, code,
                     value, errors, grammar, actions, defs>>
  BY DEF AssembleInstruction
<1>1. /\ cur \in Current
      /\ cur' \in Current /\ cur'.capturing = cur.capturing /\ cur'.shadow = cur.shadow
      /\ cur'.asked = cur.asked + 1
      /\ cur'.kept = IF Keeps THEN cur.kept + 1 ELSE cur.kept
  <2> DEFINE k == IF Keeps THEN cur.kept + 1 ELSE cur.kept
             a == cur.asked + 1
  <2>1. cur \in Current
    BY DEF Types
  <2>2. k \in Nat /\ a \in Nat
    BY <2>1 DEF Current
  <2>3. cur' = [cur EXCEPT !.asked = a, !.kept = k]
    BY <1>0, <2>1 DEF Current
  <2> HIDE DEF a, k
  <2>4. cur' \in Current /\ cur'.capturing = cur.capturing /\ cur'.shadow = cur.shadow
        /\ cur'.asked = a /\ cur'.kept = k
    BY <2>1, <2>2, <2>3 DEF Current
  <2> QED
    BY <2>1, <2>4 DEF a, k
<1>2. Types'
  BY <1>0, <1>1 DEF Types
<1>3. Latched'
  BY <1>0, <1>1 DEF Latched, DeferredLoweringWanted, Captures
<1>4. InOrder'
  BY <1>0 DEF InOrder, Ended
<1>5. Accounted'
  <2>1. cur.kept \in Nat /\ cur.asked \in Nat
    BY <1>1 DEF Current
  <2>2. ~cur.capturing => Keeps
    BY DEF Keeps
  <2>3. cur.capturing /\ cur.shadow /\ ~Keeps => mode.flipped
    BY DEF Keeps, IsParserWriter
  <2>4. cur'.shadow /\ cur'.kept # cur'.asked => errors' > 0
    BY <1>0, <1>1, <2>1, <2>2, <2>3 DEF Accounted
  <2>5. ~cur'.capturing => cur'.kept = cur'.asked
    BY <1>0, <1>1, <2>1, <2>2 DEF Accounted
  <2> QED
    BY <1>0, <1>1, <2>4, <2>5 DEF Accounted
<1>6. Resolved(Len(code), value)' /\ Replacing' /\ Refreshed'
  BY <1>0 DEF Resolved, First, Last, Replacing, Refreshed
<1> QED
  BY <1>2, <1>3, <1>4, <1>5, <1>6

LEMMA RejectInv ==
  ASSUME IInv, DirectReject
  PROVE  IInv'
<1> USE DEF IInv
<1>0. /\ open /\ direct' = "rejected"
      /\ UNCHANGED <<mode, infix, latch, phase, open, cur, stash, next, code,
                     value, errors, grammar, actions, defs>>
  BY DEF DirectReject
<1>1. Types' /\ Latched' /\ InOrder' /\ Accounted'
  BY <1>0 DEF Types, Latched, DeferredLoweringWanted, Captures, InOrder, Ended, Accounted
<1>2. Resolved(Len(code), value)' /\ Replacing' /\ Refreshed'
  BY <1>0 DEF Resolved, First, Last, Replacing, Refreshed
<1> QED
  BY <1>1, <1>2

LEMMA ErrorInv ==
  ASSUME IInv, SourceError
  PROVE  IInv'
<1> USE DEF IInv
<1>0. /\ phase = "parse" /\ errors' = errors + 1 /\ errors \in Nat
      /\ UNCHANGED <<mode, infix, latch, phase, open, cur, direct, stash, next, code,
                     value, grammar, actions, defs>>
  BY DEF SourceError, Types
<1>1. errors' \in Nat /\ errors' > 0
  BY <1>0
<1>2. Types' /\ Latched' /\ InOrder' /\ Accounted'
  BY <1>0, <1>1 DEF Types, Latched, DeferredLoweringWanted, Captures, InOrder, Ended, Accounted
<1>3. Resolved(Len(code), value)' /\ Replacing' /\ Refreshed'
  BY <1>0 DEF Resolved, First, Last, Replacing, Refreshed
<1> QED
  BY <1>2, <1>3

-----------------------------------------------------------------------------
(* The rest of the pass.                                                   *)
LEMMA SwitchesInv ==
  ASSUME IInv, NEW x \in BOOLEAN, SwitchesDirective(x)
  PROVE  IInv'
<1> USE DEF IInv
<1>0. /\ phase = "parse" /\ ~open /\ infix' = x
      /\ phase' = IF LatchConflict(x) THEN "fatal" ELSE phase
      /\ UNCHANGED <<mode, latch, open, cur, direct, stash, next, code, value,
                     errors, grammar, actions, defs>>
  BY DEF SwitchesDirective
<1>1. Types'
  BY <1>0 DEF Types
<1>2. Latched'
  BY <1>0 DEF Latched, LatchConflict, DeferredLoweringWanted, Captures, Types, Modes
<1>3. InOrder' /\ Accounted'
  BY <1>0 DEF InOrder, Ended, Accounted
<1>4. Resolved(Len(code), value)' /\ Replacing' /\ Refreshed'
  BY <1>0 DEF Resolved, First, Last, Replacing, Refreshed
<1> QED
  BY <1>1, <1>2, <1>3, <1>4

LEMMA GrammarInv ==
  ASSUME IInv, NEW n \in Names, GrammarToken(n)
  PROVE  IInv'
<1> USE DEF IInv
<1>0. /\ phase = "parse"
      /\ grammar' = Append(grammar, [name |-> n, addr |-> value[n], at |-> Len(defs)])
      /\ UNCHANGED <<mode, infix, latch, phase, open, cur, direct, stash, next,
                     code, value, errors, actions, defs>>
  BY DEF GrammarToken
<1>1. [name |-> n, addr |-> value[n], at |-> Len(defs)] \in Token
  BY Lengths, SymbolFacts DEF Types, Token
<1>2. grammar' \in Seq(Token)
  BY <1>0, <1>1, AppendProperties DEF Types
<1>3. Types'
  BY <1>0, <1>2 DEF Types
<1>4. Latched' /\ InOrder' /\ Accounted'
  BY <1>0 DEF Latched, DeferredLoweringWanted, Captures, InOrder, Ended, Accounted
<1>5. Resolved(Len(code), value)' /\ Replacing' /\ Refreshed'
  BY <1>0 DEF Resolved, First, Last, Replacing, Refreshed
<1> QED
  BY <1>3, <1>4, <1>5

LEMMA EndParseInv ==
  ASSUME IInv, EndParse
  PROVE  IInv'
<1> USE DEF IInv
<1>0. /\ phase = "parse" /\ ~open /\ phase' = IF latch THEN "emit" ELSE "done"
      /\ actions' = [s \in Names |-> value[s]]
      /\ UNCHANGED <<mode, infix, latch, open, cur, direct, stash, next, code,
                     value, errors, grammar, defs>>
  BY DEF EndParse
<1>1. actions' \in [Names -> Nat] /\ \A x \in Names : actions'[x] = value[x]
  BY <1>0, SymbolFacts DEF Types
<1>2. Types'
  BY <1>0, <1>1 DEF Types
<1>3. Latched' /\ InOrder' /\ Accounted'
  BY <1>0 DEF Latched, DeferredLoweringWanted, Captures, InOrder, Ended, Accounted
<1>4. Resolved(Len(code), value)' /\ Replacing'
  BY <1>0 DEF Resolved, First, Last, Replacing
<1>5. Refreshed'
  BY <1>0, <1>1 DEF Refreshed
<1> QED
  BY <1>2, <1>3, <1>4, <1>5

LEMMA RefreshInv ==
  ASSUME IInv, RefreshTables
  PROVE  IInv'
<1> USE DEF IInv
<1>0. /\ phase = "emit" /\ next \notin DOMAIN stash /\ phase' = "done"
      /\ actions' = [s \in Names |-> value[s]] /\ grammar' = BackpatchGrammar
      /\ UNCHANGED <<mode, infix, latch, open, cur, direct, stash, next, code,
                     value, errors, defs>>
  BY DEF RefreshTables
<1>1. actions' \in [Names -> Nat] /\ \A x \in Names : actions'[x] = value[x]
  BY <1>0, SymbolFacts DEF Types
<1>2. /\ grammar' \in Seq(Token)
      /\ Len(grammar') = Len(grammar)
      /\ \A i \in 1 .. Len(grammar') : grammar'[i].addr = value[grammar'[i].name]
  <2> DEFINE e(i) == [grammar[i] EXCEPT !.addr = value[grammar[i].name]]
  <2>1. \A i \in 1 .. Len(grammar) : grammar[i] \in Token
    BY ElementOfSeq DEF Types
  <2>2. \A i \in 1 .. Len(grammar) : e(i) \in Token /\ e(i).addr = value[e(i).name]
    BY <2>1, SymbolFacts DEF Token, Types
  <2>3. grammar' = [i \in 1 .. Len(grammar) |-> e(i)] /\ Len(grammar) \in Nat
    BY <1>0, Lengths DEF BackpatchGrammar
  <2> HIDE DEF e
  <2>4. grammar' \in Seq(Token) /\ Len(grammar') = Len(grammar)
    <3>1. [i \in 1 .. Len(grammar) |-> e(i)] \in Seq(Token)
      BY <2>2, <2>3, IsASeq
    <3> QED BY <3>1, <2>3, LenProperties
  <2> QED
    BY <2>2, <2>3, <2>4
<1>3. Types'
  BY <1>0, <1>1, <1>2 DEF Types
<1>4. Latched'
  BY <1>0 DEF Latched, DeferredLoweringWanted, Captures
<1>5. InOrder'
  <2>1. latch /\ next = Len(stash) + 1
    BY <1>0, Lengths DEF InOrder, Latched, Types
  <2> QED
    BY <1>0, <2>1 DEF InOrder, Ended
<1>6. Accounted'
  BY <1>0 DEF Accounted
<1>7. Resolved(Len(code), value)' /\ Replacing'
  BY <1>0 DEF Resolved, First, Last, Replacing
<1>8. Refreshed'
  BY <1>0, <1>1, <1>2 DEF Refreshed
<1> QED
  BY <1>3, <1>4, <1>5, <1>6, <1>7, <1>8

-----------------------------------------------------------------------------
(* The end of a routine, at once or by way of the stash.                   *)

\* Emitting a routine appends it to the code area, and a hole in it is an error.
LEMMA EmitFacts ==
  ASSUME NEW id \in Nat, NEW lowered \in BOOLEAN, NEW shadow \in BOOLEAN,
         NEW kept \in Nat, NEW asked \in Nat,
         code \in Seq(Emitted), errors \in Nat,
         shadow /\ kept # asked => errors > 0,
         Emit(id, lowered, shadow, kept, asked)
  PROVE  /\ code' \in Seq(Emitted) /\ Len(code') = Len(code) + 1
         /\ \A i \in 1 .. Len(code) : code'[i] = code[i]
         /\ code'[Len(code) + 1].id = id
         /\ code'[Len(code) + 1].how = "part" => errors' > 0
         /\ errors' \in Nat /\ errors' >= errors
<1> DEFINE k == IF NothingToReplay(lowered, shadow) THEN 0 ELSE kept
           e == [id |-> id, how |-> IF lowered THEN "lowered"
                                    ELSE IF k = asked THEN "whole" ELSE "part"]
<1>1. /\ code' = Append(code, e)
      /\ errors' = IF NothingToReplay(lowered, shadow) THEN errors + 1 ELSE errors
  BY DEF Emit, Transferred
<1>2. e \in Emitted /\ e.id = id /\ (e.how = "part" => ~lowered /\ k # asked)
  BY DEF Emitted
<1>3. e.how = "part" => errors' > 0
  BY <1>1, <1>2 DEF NothingToReplay
<1>4. errors' \in Nat /\ errors' >= errors
  BY <1>1
<1> HIDE DEF e
<1> QED
  BY <1>1, <1>2, <1>3, <1>4, AppendProperties

\* The routine that ends is the last one defined, and it is neither in the
\* stash nor in the code area yet.
LEMMA EndFacts ==
  ASSUME IInv, open
  PROVE  /\ phase = "parse" /\ next = 1 /\ Len(defs) \in Nat \ {0}
         /\ defs[Len(defs)] \in Names
         /\ latch <=> latch /\ cur.capturing
         /\ latch => Len(stash) = Len(defs) - 1 /\ Len(code) = 0 /\ code = <<>>
         /\ ~latch => stash = <<>> /\ Len(stash) = 0 /\ Len(code) = Len(defs) - 1
         /\ \A x \in DOMAIN Rename :
              First(x, Len(defs), Len(defs)) <=>
                defs[Len(defs)] = x /\ \A i \in 1 .. Len(defs) - 1 : defs[i] # x
<1> USE DEF IInv
<1>1. /\ phase = "parse" /\ next = 1 /\ Len(defs) \in Nat /\ Len(defs) # 0
      /\ \A i \in 1 .. Len(defs) : defs[i] \in Names
      /\ Len(code) \in Nat
  BY Lengths DEF Latched, InOrder
<1>2. Ended = Len(defs) - 1
  BY DEF Ended
<1>3. latch <=> latch /\ cur.capturing
  BY <1>1 DEF Latched, DeferredLoweringWanted, Captures
<1>4. /\ latch => Len(stash) = Len(defs) - 1 /\ Len(code) = 0
      /\ ~latch => stash = <<>> /\ Len(stash) = 0 /\ Len(code) = Len(defs) - 1
  BY <1>1, <1>2 DEF InOrder
<1>5. latch => code = <<>>
  BY <1>4, EmptySeq DEF Types
<1>6. ASSUME NEW x \in DOMAIN Rename
      PROVE First(x, Len(defs), Len(defs)) <=>
              defs[Len(defs)] = x /\ \A i \in 1 .. Len(defs) - 1 : defs[i] # x
  <2>1. 1 .. Len(defs) = 1 .. Len(defs) - 1 \cup {Len(defs)}
        /\ \A i \in 1 .. Len(defs) - 1 : i < Len(defs)
    BY <1>1
  <2> QED
    BY <1>1, <2>1 DEF First
<1>7. Len(defs) \in 1 .. Len(defs)
  BY <1>1
<1> QED
  BY <1>1, <1>3, <1>4, <1>5, <1>6, <1>7

\* Stashing: the routine's stash entry, and whether it names the original too.
LEMMA StashFacts ==
  ASSUME IInv, open, latch, NEW ready \in BOOLEAN,
         StashDeferred(defs[Len(defs)], ready)
  PROVE  /\ stash' \in Seq(Deferred) /\ Len(stash') = Len(defs)
         /\ \A i \in 1 .. Len(stash) : stash'[i] = stash[i]
         /\ stash'[Len(defs)].id = Len(defs) /\ stash'[Len(defs)].name = defs[Len(defs)]
         /\ stash'[Len(defs)].shadow = cur.shadow
         /\ stash'[Len(defs)].kept = cur.kept /\ stash'[Len(defs)].asked = cur.asked
         /\ \A x \in DOMAIN Rename :
              Rename[x] \in stash'[Len(defs)].also <=> First(x, Len(defs), Len(defs))
<1> USE DEF IInv
<1> DEFINE L == Len(defs)
           n == defs[L]
           d == [ id |-> L, name |-> n, also |-> {}, shadow |-> cur.shadow,
                  handle |-> ready, kept |-> cur.kept, asked |-> cur.asked ]
           stashed == Append(stash, d)
<1>1. L \in Nat \ {0} /\ n \in Names /\ Len(stash) = L - 1 /\ Len(code) = 0
      /\ \A x \in DOMAIN Rename : First(x, L, L) <=> n = x /\ \A i \in 1 .. L - 1 : defs[i] # x
  BY EndFacts
<1>2. stash' = IF n \in DOMAIN Rename THEN Also(Rename[n], stashed) ELSE stashed
  BY DEF StashDeferred
<1>3. d \in Deferred
  BY <1>1 DEF Deferred, Types, Current
<1>4. d.id = L /\ d.name = n /\ d.also = {} /\ d.shadow = cur.shadow
      /\ d.kept = cur.kept /\ d.asked = cur.asked
  OBVIOUS
<1> HIDE DEF d
<1>5. /\ stashed \in Seq(Deferred) /\ Len(stashed) = L /\ DOMAIN stashed = 1 .. L
      /\ \A i \in 1 .. L - 1 : stashed[i] = stash[i]
      /\ stashed[L] = d
  BY <1>1, <1>3, AppendProperties, LenProperties DEF Types
<1> HIDE DEF stashed
<1>6. ASSUME NEW x \in DOMAIN Rename
      PROVE  (\E i \in 1 .. L - 1 : Rename[x] \in stash[i].also) <=> \E i \in 1 .. L - 1 : defs[i] = x
  BY <1>1 DEF Replacing, First
<1>7. CASE n \in DOMAIN Rename /\ First(n, L, L)
  <2> DEFINE a == {Rename[n]}
             e == [d EXCEPT !.also = a]
  <2>1. value[Rename[n]] = 0
    BY <1>1, <1>7 DEF Resolved
  <2>2. \A i \in 1 .. L : Rename[n] \notin stashed[i].also
    BY <1>1, <1>4, <1>5, <1>6, <1>7
  <2>3. stash' = [stashed EXCEPT ![L].also = a]
    BY <1>2, <1>5, <1>7, <2>1, <2>2 DEF Also
  <2>4. stash' = [stashed EXCEPT ![L] = e]
    BY <2>3, <1>5
  <2>5. a \subseteq Renamed
    BY <1>7, SymbolFacts
  <2>6. e \in Deferred /\ e.also = a /\ e.id = d.id /\ e.name = d.name /\ e.shadow = d.shadow
        /\ e.kept = d.kept /\ e.asked = d.asked
    <3> HIDE DEF a
    <3> QED BY <1>3, <2>5 DEF Deferred
  <2> HIDE DEF e
  <2>7. stash' \in Seq(Deferred) /\ Len(stash') = L /\ stash'[L] = e
        /\ \A i \in 1 .. L - 1 : stash'[i] = stashed[i]
    BY <1>1, <1>5, <2>4, <2>6, ExceptSeq
  <2>8. \A x \in DOMAIN Rename : Rename[x] \in e.also <=> First(x, L, L)
    BY <1>1, <1>7, <2>6, SymbolFacts
  <2> QED
    BY <1>1, <1>4, <1>5, <2>6, <2>7, <2>8
<1>8. CASE ~(n \in DOMAIN Rename /\ First(n, L, L))
  <2>1. stash' = stashed
    <3>1. CASE n \in DOMAIN Rename
      <4>1. \E i \in 1 .. L - 1 : Rename[n] \in stash[i].also
        BY <1>1, <1>6, <1>8, <3>1
      <4>2. \E i \in 1 .. L : Rename[n] \in stashed[i].also
        <5>1. PICK i \in 1 .. L - 1 : Rename[n] \in stash[i].also
          BY <4>1
        <5>2. i \in 1 .. L
          BY <1>1
        <5> QED BY <5>1, <5>2, <1>5
      <4> QED
        BY <1>2, <1>5, <3>1, <4>2 DEF Also
    <3> QED BY <1>2, <3>1
  <2>2. \A x \in DOMAIN Rename : ~First(x, L, L)
    BY <1>1, <1>8
  <2> QED
    BY <1>1, <1>4, <1>5, <2>1, <2>2
<1> QED
  BY <1>7, <1>8

LEMMA FinishedFacts ==
  ASSUME IInv
  PROVE  \A d \in Finished : (d = "ready") \in BOOLEAN
OBVIOUS

LEMMA StashedInv ==
  ASSUME IInv, AssembleRoutineEnd, latch
  PROVE  IInv'
<1> USE DEF IInv
<1> DEFINE L == Len(defs)
           n == defs[L]
<1>0. /\ open /\ ~open' /\ open' = FALSE /\ cur' = Idle /\ direct' = "inactive"
      /\ UNCHANGED <<mode, infix, latch, phase, next, grammar, actions, defs>>
  BY DEF AssembleRoutineEnd, Left
<1>1. PICK ready \in BOOLEAN : StashDeferred(n, ready)
  BY <1>0, EndFacts DEF AssembleRoutineEnd
<1>2. value' = [value EXCEPT ![n] = PC] /\ code' = code /\ errors' = errors
  BY <1>1 DEF StashDeferred
<1>3. /\ phase = "parse" /\ next = 1 /\ L \in Nat \ {0} /\ n \in Names
      /\ Len(stash) = L - 1 /\ Len(code) = 0
  BY <1>0, EndFacts
<1>4. /\ stash' \in Seq(Deferred) /\ Len(stash') = L
      /\ \A i \in 1 .. L - 1 : stash'[i] = stash[i]
      /\ stash'[L].id = L /\ stash'[L].name = n
      /\ stash'[L].shadow = cur.shadow
      /\ stash'[L].kept = cur.kept /\ stash'[L].asked = cur.asked
      /\ \A x \in DOMAIN Rename : Rename[x] \in stash'[L].also <=> First(x, L, L)
  BY <1>0, <1>1, <1>3, StashFacts
<1>5. 1 .. L = 1 .. L - 1 \cup {L} /\ L \notin 1 .. L - 1
  BY <1>3
<1>6. Types'
  <2>1. cur' \in Current
    BY <1>0 DEF Idle, Current
  <2>2. value' \in [Symbols -> Nat]
    <3>1. value \in [Symbols -> Nat] /\ PC \in Nat
      BY <1>3 DEF Types, PC
    <3> QED BY <1>2, <3>1
  <2> QED
    BY <1>0, <1>2, <1>4, <2>1, <2>2 DEF Types
<1>7. Latched'
  BY <1>0, <1>3 DEF Latched, DeferredLoweringWanted, Captures
<1>8. InOrder'
  <2>1. Ended' = L
    BY <1>0 DEF Ended
  <2>2. \A i \in 1 .. Len(stash') : stash'[i].id = i /\ stash'[i].name = defs[i]
    BY <1>3, <1>4, <1>5 DEF InOrder
  <2> QED
    BY <1>0, <1>2, <1>3, <1>4, <2>1, <2>2 DEF InOrder
<1>9. Accounted'
  <2>1. ~cur'.capturing /\ cur'.kept = cur'.asked
    BY <1>0 DEF Idle
  <2>2. \A i \in 1 .. Len(stash') : stash'[i].shadow /\ stash'[i].kept # stash'[i].asked => errors' > 0
    BY <1>2, <1>3, <1>4, <1>5 DEF Accounted
  <2> QED
    BY <1>0, <1>2, <2>1, <2>2 DEF Accounted
<1>10. Resolved(Len(code), value)'
  <2>1. \A x \in DOMAIN Rename : value'[Rename[x]] = value[Rename[x]]
    BY <1>2, <1>3, SymbolFacts DEF Types
  <2> QED
    BY <1>0, <1>2, <1>3, <2>1 DEF Resolved
<1>11. Replacing'
  <2>1. \A i \in 1 .. L : \A x \in DOMAIN Rename : Rename[x] \in stash'[i].also <=> First(x, i, i)
    BY <1>3, <1>4, <1>5 DEF Replacing
  <2>2. ASSUME NEW x \in DOMAIN Rename, \E i \in 1 .. L : defs[i] = x
        PROVE  \E i \in 1 .. L : Rename[x] \in stash'[i].also
    <3>1. CASE \E i \in 1 .. L - 1 : defs[i] = x
      BY <3>1, <1>3, <1>4, <1>5 DEF Replacing
    <3>2. CASE \A i \in 1 .. L - 1 : defs[i] # x
      <4>1. First(x, L, L)
        BY <1>0, <1>3, <1>5, <2>2, <3>2, EndFacts
      <4> QED BY <4>1, <1>4, <1>5
    <3> QED BY <3>1, <3>2
  <2>3. \A i \in 1 .. L : defs[i] = Main <=> i = 1
    BY DEF Replacing
  <2> QED
    BY <1>0, <1>4, <2>1, <2>2, <2>3 DEF Replacing, First
<1>12. Refreshed'
  BY <1>0, <1>3 DEF Refreshed
<1> QED
  BY <1>6, <1>7, <1>8, <1>9, <1>10, <1>11, <1>12

LEMMA EmittedNowInv ==
  ASSUME IInv, AssembleRoutineEnd, ~latch
  PROVE  IInv'
<1> USE DEF IInv
<1> DEFINE L == Len(defs)
           n == defs[L]
<1>0. /\ open /\ ~open' /\ open' = FALSE /\ cur' = Idle /\ direct' = "inactive"
      /\ UNCHANGED <<mode, infix, latch, phase, next, grammar, actions, defs>>
  BY DEF AssembleRoutineEnd, Left
<1>1. PICK ready \in BOOLEAN : EmitNow(n, ready)
  BY <1>0, EndFacts DEF AssembleRoutineEnd
<1>2. PICK lowered \in MayLower(cur.capturing /\ ready) :
        Emit(L, lowered, ~cur.capturing \/ cur.shadow, cur.kept, cur.asked)
  BY <1>1 DEF EmitNow
<1>3. /\ phase = "parse" /\ next = 1 /\ L \in Nat \ {0} /\ n \in Names
      /\ stash = <<>> /\ Len(stash) = 0 /\ Len(code) = L - 1
      /\ \A x \in DOMAIN Rename : First(x, L, L) <=> n = x /\ \A i \in 1 .. L - 1 : defs[i] # x
  BY <1>0, EndFacts
<1>4. /\ code' \in Seq(Emitted) /\ Len(code') = L
      /\ \A i \in 1 .. L - 1 : code'[i] = code[i]
      /\ code'[L].id = L
      /\ code'[L].how = "part" => errors' > 0
      /\ errors' \in Nat /\ errors' >= errors
  <2>1. lowered \in BOOLEAN
    BY <1>2 DEF MayLower
  <2>2. cur \in Current /\ code \in Seq(Emitted) /\ errors \in Nat
    BY DEF Types
  <2>3. cur.kept \in Nat /\ cur.asked \in Nat /\ (~cur.capturing \/ cur.shadow) \in BOOLEAN
    BY <2>2 DEF Current
  <2>4. (~cur.capturing \/ cur.shadow) /\ cur.kept # cur.asked => errors > 0
    BY DEF Accounted
  <2>5. L \in Nat
    BY <1>3
  <2> DEFINE w == ~cur.capturing \/ cur.shadow
             k == cur.kept
             a == cur.asked
             l == L
  <2>6. Emit(l, lowered, w, k, a) /\ k \in Nat /\ a \in Nat /\ w \in BOOLEAN
        /\ (w /\ k # a => errors > 0) /\ l \in Nat
    BY <1>2, <2>3, <2>4, <2>5
  <2> HIDE DEF w, k, a, l
  <2>7. /\ code' \in Seq(Emitted) /\ Len(code') = Len(code) + 1
        /\ \A i \in 1 .. Len(code) : code'[i] = code[i]
        /\ code'[Len(code) + 1].id = l
        /\ code'[Len(code) + 1].how = "part" => errors' > 0
        /\ errors' \in Nat /\ errors' >= errors
    BY <2>1, <2>2, <2>6, EmitFacts
  <2> QED
    BY <1>3, <2>7 DEF l
<1>5. 1 .. L = 1 .. L - 1 \cup {L} /\ L \notin 1 .. L - 1
  BY <1>3
<1>6. stash' = stash
  BY <1>1 DEF EmitNow
<1>7. /\ value' \in [Symbols -> Nat]
      /\ \A s \in Symbols :
           value'[s] = IF s = n \/ \E x \in DOMAIN Rename : s = Rename[x] /\ First(x, L, L)
                         THEN L - 1 ELSE value[s]
  <2>1. PC = L - 1 /\ L - 1 \in Nat
    BY <1>3 DEF PC
  <2>2. value \in [Symbols -> Nat]
    BY DEF Types
  <2>3. CASE n \notin DOMAIN Rename
    <3>1. value' = [value EXCEPT ![n] = PC]
      BY <1>1, <2>3 DEF EmitNow
    <3> QED
      BY <1>3, <2>1, <2>2, <2>3, <3>1
  <2>4. CASE n \in DOMAIN Rename
    <3>1. value' = AssignEager(n) /\ Rename[n] \in Symbols /\ n \in Symbols
      BY <1>1, <2>4, SymbolFacts DEF EmitNow
    <3>2. value[Rename[n]] = 0 <=> First(n, L, L)
      <4>1. ASSUME NEW i \in 1 .. L - 1, defs[i] = n PROVE value[Rename[n]] # 0
        <5>1. PICK k \in 1 .. L - 1 : First(n, k, L - 1) /\ value[Rename[n]] = k - 1
          BY <4>1, <1>3, <2>4 DEF Resolved
        <5>2. k # 1
          <6>1. defs[1] = Main
            BY <1>3 DEF Replacing
          <6> QED BY <5>1, <6>1, <2>4, SymbolFacts DEF First
        <5> QED BY <5>1, <5>2
      <4>2. (\A i \in 1 .. L - 1 : defs[i] # n) => value[Rename[n]] = 0
        BY <1>3, <2>4 DEF Resolved
      <4> QED BY <4>1, <4>2, <1>3, <2>4
    <3>3. \A x \in DOMAIN Rename : First(x, L, L) => x = n
      BY <1>3
    <3>4. \A s \in Symbols :
            (\E x \in DOMAIN Rename : s = Rename[x] /\ First(x, L, L)) <=>
              s = Rename[n] /\ value[Rename[n]] = 0
      BY <2>4, <3>2, <3>3
    <3>5. \A s \in Symbols :
            value'[s] = IF s = n \/ (s = Rename[n] /\ value[Rename[n]] = 0)
                          THEN L - 1 ELSE value[s]
      BY <2>1, <2>2, <3>1 DEF AssignEager
    <3>6. value' \in [Symbols -> Nat]
      BY <2>1, <2>2, <3>1 DEF AssignEager
    <3> QED
      BY <3>4, <3>5, <3>6
  <2> QED BY <2>3, <2>4
<1>8. Resolved(Len(code), value)'
  <2> DEFINE m == L - 1
  <2>1. m \in Nat /\ m + 1 = L /\ Resolved(m, value)
    BY <1>3
  <2>2. /\ \A i \in 1 .. m + 1 : defs[i] \in Names
        /\ \A s \in Symbols :
             value'[s] = IF s = defs[m + 1] \/ \E x \in DOMAIN Rename :
                                                 s = Rename[x] /\ First(x, m + 1, m + 1)
                           THEN m ELSE value[s]
    BY <1>7, <2>1, Lengths
  <2> HIDE DEF m
  <2>3. Resolved(m + 1, value')
    BY <2>1, <2>2, ResolvedNext
  <2>4. Resolved(L, value')
    BY <2>1, <2>3
  <2> QED
    BY <1>0, <1>4, <2>4 DEF Resolved, First, Last
<1>9. Types'
  <2>1. cur' \in Current
    BY <1>0 DEF Idle, Current
  <2> QED
    BY <1>0, <1>4, <1>6, <1>7, <2>1 DEF Types
<1>10. Latched'
  BY <1>0, <1>3 DEF Latched, DeferredLoweringWanted, Captures
<1>11. InOrder'
  <2>1. Ended' = L
    BY <1>0 DEF Ended
  <2>2. \A i \in 1 .. Len(code') : code'[i].id = i
    BY <1>3, <1>4, <1>5 DEF InOrder
  <2> QED
    BY <1>0, <1>3, <1>4, <1>6, <2>1, <2>2 DEF InOrder
<1>12. Accounted'
  <2>1. ~cur'.capturing /\ cur'.kept = cur'.asked
    BY <1>0 DEF Idle
  <2>2. errors > 0 => errors' > 0
    BY <1>4 DEF Types
  <2>3. \A i \in 1 .. Len(code') : code'[i].how = "part" => errors' > 0
    BY <1>3, <1>4, <1>5, <2>2 DEF Accounted
  <2> QED
    BY <1>0, <1>3, <1>6, <2>1, <2>2, <2>3 DEF Accounted
<1>13. Replacing'
  BY <1>0, <1>3, <1>6 DEF Replacing
<1>14. Refreshed'
  BY <1>0, <1>3 DEF Refreshed
<1> QED
  BY <1>8, <1>9, <1>10, <1>11, <1>12, <1>13, <1>14

LEMMA DeferredInv ==
  ASSUME IInv, EmitDeferredRoutine
  PROVE  IInv'
<1> USE DEF IInv
<1> DEFINE d == stash[next]
<1>0. /\ phase = "emit" /\ next \in DOMAIN stash /\ next' = next + 1
      /\ value' = [s \in Symbols |-> IF s = d.name \/ s \in d.also THEN PC ELSE value[s]]
      /\ UNCHANGED <<mode, infix, latch, phase, open, cur, direct, stash,
                     grammar, actions, defs>>
  BY DEF EmitDeferredRoutine
<1>1. PICK lowered \in MayLower(d.handle) :
        Emit(d.id, lowered, d.shadow, d.kept, d.asked)
  BY DEF EmitDeferredRoutine
<1>2. /\ ~open /\ latch /\ next \in 1 .. Len(stash) /\ Len(stash) = Len(defs)
      /\ Len(code) = next - 1 /\ Len(stash) \in Nat /\ next \in Nat
  <2>1. ~open /\ latch /\ DOMAIN stash = 1 .. Len(stash) /\ Len(stash) \in Nat
    BY <1>0, Lengths DEF Latched
  <2> QED
    BY <1>0, <2>1 DEF InOrder, Ended
<1>3. /\ d \in Deferred /\ d.id = next /\ d.name = defs[next] /\ d.also \subseteq Renamed
      /\ d.shadow /\ d.kept # d.asked => errors > 0
      /\ \A x \in DOMAIN Rename : Rename[x] \in d.also <=> First(x, next, next)
  <2>1. d \in Deferred
    BY <1>2, ElementOfSeq DEF Types
  <2> QED
    BY <1>2, <2>1 DEF InOrder, Accounted, Replacing, Deferred
<1>4. /\ code' \in Seq(Emitted) /\ Len(code') = next
      /\ \A i \in 1 .. next - 1 : code'[i] = code[i]
      /\ code'[next].id = next
      /\ code'[next].how = "part" => errors' > 0
      /\ errors' \in Nat /\ errors' >= errors
  <2>1. lowered \in BOOLEAN
    BY <1>1, <1>3 DEF MayLower, Deferred
  <2>2. d.kept \in Nat /\ d.asked \in Nat /\ d.shadow \in BOOLEAN /\ d.id \in Nat
    BY <1>3 DEF Deferred
  <2>3. code \in Seq(Emitted) /\ errors \in Nat
    BY DEF Types
  <2> HIDE DEF d
  <2>4. /\ code' \in Seq(Emitted) /\ Len(code') = Len(code) + 1
        /\ \A i \in 1 .. Len(code) : code'[i] = code[i]
        /\ code'[Len(code) + 1].id = d.id
        /\ code'[Len(code) + 1].how = "part" => errors' > 0
        /\ errors' \in Nat /\ errors' >= errors
    BY <1>1, <1>3, <2>1, <2>2, <2>3, EmitFacts
  <2> QED
    BY <1>2, <1>3, <2>4
<1>5. /\ value' \in [Symbols -> Nat]
      /\ \A s \in Symbols :
           value'[s] = IF s = defs[next] \/ \E x \in DOMAIN Rename : s = Rename[x] /\ First(x, next, next)
                         THEN next - 1 ELSE value[s]
  <2>1. PC = next - 1 /\ next - 1 \in Nat /\ value \in [Symbols -> Nat]
    BY <1>2 DEF PC, Types
  <2>2. \A s : s \in d.also <=> \E x \in DOMAIN Rename : s = Rename[x] /\ First(x, next, next)
    BY <1>3 DEF Renamed
  <2> QED
    BY <1>0, <1>3, <2>1, <2>2
<1>6. Resolved(Len(code), value)'
  <2> DEFINE m == next - 1
  <2>1. m \in Nat /\ m + 1 = next /\ Resolved(m, value)
    BY <1>2
  <2>2. /\ \A i \in 1 .. m + 1 : defs[i] \in Names
        /\ \A s \in Symbols :
             value'[s] = IF s = defs[m + 1] \/ \E x \in DOMAIN Rename :
                                                 s = Rename[x] /\ First(x, m + 1, m + 1)
                           THEN m ELSE value[s]
    <3>1. 1 .. next \subseteq 1 .. Len(defs)
      BY <1>2
    <3> QED BY <1>5, <2>1, <3>1, Lengths
  <2> HIDE DEF m
  <2>3. Resolved(m + 1, value')
    BY <2>1, <2>2, ResolvedNext
  <2>4. Resolved(next, value') /\ Len(code') = next /\ defs' = defs
    BY <1>0, <1>4, <2>1, <2>3
  <2> QED
    BY <2>4 DEF Resolved, First, Last
<1>7. Types'
  BY <1>0, <1>2, <1>4, <1>5 DEF Types
<1>8. Latched'
  BY <1>0 DEF Latched, DeferredLoweringWanted, Captures
<1>9. 1 .. next = 1 .. next - 1 \cup {next} /\ next \notin 1 .. next - 1
  BY <1>2
<1>10. InOrder'
  <2>1. \A i \in 1 .. Len(code') : code'[i].id = i
    BY <1>2, <1>4, <1>9 DEF InOrder
  <2>2. next' <= Len(stash) + 1 /\ Len(code') = next' - 1
    BY <1>0, <1>2, <1>4
  <2> QED
    BY <1>0, <1>2, <2>1, <2>2 DEF InOrder, Ended
<1>11. Accounted'
  <2>1. errors > 0 => errors' > 0
    BY <1>4 DEF Types
  <2>2. \A i \in 1 .. Len(code') : code'[i].how = "part" => errors' > 0
    BY <1>2, <1>4, <1>9, <2>1 DEF Accounted
  <2> QED
    BY <1>0, <2>1, <2>2 DEF Accounted
<1>12. Replacing' /\ Refreshed'
  BY <1>0 DEF Replacing, First, Refreshed
<1> QED
  BY <1>6, <1>7, <1>8, <1>10, <1>11, <1>12

LEMMA StutterInv ==
  ASSUME IInv, UNCHANGED vars
  PROVE  IInv'
BY DEF IInv, vars, Types, Latched, DeferredLoweringWanted, Captures, InOrder, Ended,
       Accounted, Resolved, First, Last, Replacing, Refreshed

THEOREM PipelineInv == Spec => []IInv
<1>1. IInv /\ [Next]_vars => IInv'
  <2> SUFFICES ASSUME IInv, [Next]_vars PROVE IInv'
    OBVIOUS
  <2>1. ASSUME NEW n \in Names, AssembleRoutineHeader(n) PROVE IInv'
    BY <2>1, HeaderInv
  <2>2. CASE AssembleInstruction
    BY <2>2, InstructionInv
  <2>3. CASE DirectReject
    BY <2>3, RejectInv
  <2>4. CASE SourceError
    BY <2>4, ErrorInv
  <2>5. CASE AssembleRoutineEnd
    BY <2>5, StashedInv, EmittedNowInv
  <2>6. ASSUME NEW x \in BOOLEAN, SwitchesDirective(x) PROVE IInv'
    BY <2>6, SwitchesInv
  <2>7. ASSUME NEW n \in Names, GrammarToken(n) PROVE IInv'
    BY <2>7, GrammarInv
  <2>8. CASE EndParse
    BY <2>8, EndParseInv
  <2>9. CASE EmitDeferredRoutine
    BY <2>9, DeferredInv
  <2>10. CASE RefreshTables
    BY <2>10, RefreshInv
  <2>11. CASE UNCHANGED vars
    BY <2>11, StutterInv
  <2> QED
    BY <2>1, <2>2, <2>3, <2>4, <2>5, <2>6, <2>7, <2>8, <2>9, <2>10, <2>11 DEF Next
<1> QED
  BY <1>1, InitInv, PTL DEF Spec

-----------------------------------------------------------------------------
(* The properties.                                                         *)

InRange == value \in [Symbols -> Addresses] /\ actions \in [Names -> Addresses]

\* Whatever the names, replacements and bounds, every variable stays in its
\* range, and no direct build outlives its routine.
THEOREM PipelineTypes == Spec => []TypeOK
<1>1. Init => InRange
  BY SymbolFacts, NamesAssumption DEF Init, InRange, Addresses, NamesAssumption
<1>2. IInv /\ InRange /\ [Next]_vars => InRange'
  <2> SUFFICES ASSUME IInv, InRange, [Next]_vars PROVE InRange'
    OBVIOUS
  <2>1. PC \in Addresses
    <3>1. Len(code) \in Nat /\ Len(code) <= Len(defs) /\ Len(defs) <= MaxRoutines /\ MaxRoutines \in Nat
      BY Lengths, NamesAssumption DEF IInv, InOrder, Ended, Latched, Types, NamesAssumption
    <3> QED BY <3>1 DEF PC, Addresses
  <2>2. CASE UNCHANGED <<value, actions>>
    BY <2>2 DEF InRange
  <2>3. CASE AssembleRoutineEnd
    <3> DEFINE n == defs[Len(defs)]
    <3>1. actions' = actions
          /\ \E ready \in BOOLEAN : StashDeferred(n, ready) \/ EmitNow(n, ready)
      BY <2>3 DEF AssembleRoutineEnd
    <3>2. \/ value' = [value EXCEPT ![n] = PC]
          \/ value' = [value EXCEPT ![n] = PC, ![Rename[n]] = PC]
      BY <3>1 DEF StashDeferred, EmitNow, AssignEager
    <3> QED BY <2>1, <3>1, <3>2 DEF InRange
  <2>4. CASE EndParse
    BY <2>4, SymbolFacts DEF EndParse, InRange
  <2>5. CASE EmitDeferredRoutine
    BY <2>1, <2>5 DEF EmitDeferredRoutine, InRange
  <2>6. CASE RefreshTables
    BY <2>6, SymbolFacts DEF RefreshTables, InRange
  <2> QED
    BY <2>2, <2>3, <2>4, <2>5, <2>6
       DEF Next, vars, AssembleRoutineHeader, AssembleInstruction, DirectReject, SourceError,
           SwitchesDirective, GrammarToken
<1>3. IInv /\ InRange => TypeOK
  BY Lengths DEF IInv, InRange, Types, Latched, InOrder, TypeOK
<1> QED
  BY <1>1, <1>2, <1>3, PipelineInv, PTL DEF Spec

\* Every routine of the source reaches the code area once, in source order.
THEOREM PipelineOrder == Spec => []RoutinesInSourceOrder
<1>1. IInv => RoutinesInSourceOrder
  BY Lengths DEF IInv, InOrder, Ended, Latched, RoutinesInSourceOrder, Types
<1> QED
  BY <1>1, PipelineInv, PTL

\* A routine with instructions missing is in the code area only beside an
\* error message.
THEOREM PipelineLosesNothing == Spec => []NothingLostSilently
<1>1. IInv => NothingLostSilently
  BY Lengths DEF IInv, Accounted, NothingLostSilently
<1> QED
  BY <1>1, PipelineInv, PTL

\* Once the pass is over a routine's name is its last definition, and the name
\* Replace gives the original its first.
THEOREM PipelineResolves == Spec => []SymbolsResolve
<1>1. IInv => SymbolsResolve
  <2> SUFFICES ASSUME IInv, phase = "done", NEW x \in Names, DefsOf(x) # {}
               PROVE  /\ value[x] = AddressOf(LastDef(x))
                      /\ x \in DOMAIN Rename => value[Rename[x]] = AddressOf(FirstDef(x))
    BY DEF SymbolsResolve
  <2> USE DEF IInv
  <2>1. Len(code) = Len(defs) /\ DOMAIN defs = 1 .. Len(defs) /\ Len(defs) \in Nat
    BY Lengths DEF InOrder, Ended, Latched, Types
  <2>2. \E i \in 1 .. Len(defs) : defs[i] = x
    BY <2>1 DEF DefsOf
  <2>3. PICK i \in 1 .. Len(defs) : Last(x, i, Len(defs)) /\ value[x] = i - 1
    BY <2>1, <2>2 DEF Resolved
  <2>4. LastDef(x) = i
    <3>1. i \in DefsOf(x) /\ \A j \in DefsOf(x) : j <= i
      BY <2>1, <2>3 DEF Last, DefsOf
    <3>2. \A k \in DefsOf(x) : (\A j \in DefsOf(x) : j <= k) => k = i
      BY <3>1, <2>1 DEF DefsOf
    <3> QED BY <3>1, <3>2 DEF LastDef
  <2>5. ASSUME x \in DOMAIN Rename PROVE value[Rename[x]] = AddressOf(FirstDef(x))
    <3>1. PICK k \in 1 .. Len(defs) : First(x, k, Len(defs)) /\ value[Rename[x]] = k - 1
      BY <2>1, <2>2, <2>5 DEF Resolved
    <3>2. k \in DefsOf(x) /\ \A j \in DefsOf(x) : k <= j
      BY <2>1, <3>1 DEF First, DefsOf
    <3>3. \A l \in DefsOf(x) : (\A j \in DefsOf(x) : l <= j) => l = k
      BY <3>2, <2>1 DEF DefsOf
    <3>4. FirstDef(x) = k
      BY <3>2, <3>3 DEF FirstDef
    <3> QED BY <3>1, <3>4 DEF AddressOf
  <2> QED
    BY <2>3, <2>4, <2>5 DEF AddressOf
<1> QED
  BY <1>1, PipelineInv, PTL

\* No table that copied an address during the parse keeps a placeholder.
THEOREM PipelineRefreshes == Spec => []TablesFresh
<1>1. IInv => TablesFresh
  BY Lengths DEF IInv, Refreshed, TablesFresh
<1> QED
  BY <1>1, PipelineInv, PTL

=============================================================================
