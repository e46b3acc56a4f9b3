-------------------------- MODULE ShadowReplayProofs --------------------------
(***************************************************************************)
(* Proofs about ShadowReplay, for any number of routines, instructions and *)
(* labels: a compile that captures and replays reads to the parser, and    *)
(* encodes, as one that encodes at once.                                   *)
(*                                                                         *)
(* The events of a routine are a log.  A log has a history h: what the     *)
(* code, the label counts and the label offsets are after each of its      *)
(* events (IsLog).  During the parse the eager encoder stands at the end   *)
(* of the history of the captured events (Twin); a replay walks along the  *)
(* same history (Replaying), so it ends where the eager encoder was when   *)
(* it transferred the routine.                                             *)
(***************************************************************************)
EXTENDS ShadowReplay, SequenceTheorems, TLAPS

Ops   == {"plain", "return", "jump", "branch"}
Instr == [ op : Ops, label : 0 .. MaxLabels ]
Event == [ kind : {"instruction", "label"}, op : Ops, label : 0 .. MaxLabels,
           exec : SUBSET Flags ]
Place == Nat \cup {-1}
Enc   == [ mode : {"encode", "capture", "replay"}, exec : SUBSET Flags,
           next : 0 .. MaxLabels, offset : [Labels -> Place], use : [Labels -> Nat],
           code : Seq(Instr), events : Seq(Event), fatal : BOOLEAN ]
Output == [ code : Seq([op : Ops, target : Place]), use : [Labels -> Nat],
            errors : SUBSET Nat ]

-----------------------------------------------------------------------------
(* Logs.                                                                   *)
Snapshot == [ code : Seq(Instr), use : [Labels -> Nat], off : [Labels -> Place] ]

Start == [ code |-> <<>>, use |-> [l \in Labels |-> 0], off |-> [l \in Labels |-> -1] ]

Apply(s, ev) ==
  IF ev.kind = "label"
    THEN [s EXCEPT !.off = [s.off EXCEPT ![ev.label] = Len(s.code)]]
    ELSE [s EXCEPT !.code = Append(s.code, [op |-> ev.op, label |-> ev.label]),
                   !.use = CountUse(s.use, ev.label)]

\* An event whose labels are allocated, and which a replay does not skip.
Good(ev, next) ==
  /\ ev \in Event /\ ev.label <= next
  /\ IF ev.kind = "label" THEN ev.label # NoLabel /\ "ENTIRE" \notin ev.exec
                          ELSE ev.exec = {}

IsLog(events, next, h) ==
  /\ events \in Seq(Event) /\ next \in 0 .. MaxLabels
  /\ \A k \in 1 .. Len(events) : Good(events[k], next)
  /\ h \in [0 .. Len(events) -> Snapshot]
  /\ h[0] = Start
  /\ \A k \in 1 .. Len(events) : h[k] = Apply(h[k - 1], events[k])
  /\ \A i \in 1 .. Len(h[Len(events)].code) : h[Len(events)].code[i].label <= next

TargetIn(s, i) == IF s.code[i].label = NoLabel THEN 0 ELSE s.off[s.code[i].label]

\* What a transfer makes of a snapshot.
Result(s) ==
  [ code   |-> [i \in 1 .. Len(s.code) |-> [op |-> s.code[i].op, target |-> TargetIn(s, i)]],
    use    |-> s.use,
    errors |-> {i \in 1 .. Len(s.code) : TargetIn(s, i) < 0} ]

-----------------------------------------------------------------------------
(* The invariant.                                                          *)

\* The encoder e and the capturing encoder c have read the same source.
Twin(e, c) ==
  /\ e \in Enc /\ c \in Enc /\ e.mode = "encode" /\ c.mode = "capture"
  /\ c.exec = e.exec /\ c.use = e.use /\ c.next = e.next
  /\ ~e.fatal /\ ~c.fatal
  /\ c.code = <<>>
  /\ \A l \in 1 .. c.next : c.offset[l] = -1
  /\ \E h : /\ IsLog(c.events, c.next, h)
            /\ h[Len(c.events)].code = e.code /\ h[Len(c.events)].use = e.use
            /\ \A l \in Labels : h[Len(c.events)].off[l] =
                                   IF l <= e.next THEN e.offset[l] ELSE -1

\* The encoder c has replayed the first k - 1 of its events, of a routine that
\* encodes to res.
Replaying(c, k, res, atonce) ==
  /\ c \in Enc /\ c.mode = "replay" /\ ~c.fatal
  /\ k \in 1 .. Len(c.events) + 1
  /\ \E h : /\ IsLog(c.events, c.next, h)
            /\ res = Result(h[Len(c.events)])
            /\ c.code = h[k - 1].code /\ c.use = h[k - 1].use
            /\ \A l \in Labels : h[k - 1].off[l] # -1 => c.offset[l] = h[k - 1].off[l]
            /\ atonce => \A l \in 1 .. c.next : h[k - 1].off[l] = -1 => c.offset[l] = -1

Recorded(events, next, res) ==
  \E h : IsLog(events, next, h) /\ res = Result(h[Len(events)])

Frame  == [ label : Labels, stmt : BOOLEAN, block : BOOLEAN ]
Stream == [ events : Seq(Event), next : 0 .. MaxLabels ]

ReplayTypes ==
  /\ deferred \in BOOLEAN /\ ended \in BOOLEAN
  /\ eager \in Enc /\ cap \in Enc /\ ~cap.fatal
  /\ cap.mode \in {"capture", "replay"}
  /\ frames \in Seq(Frame)
  /\ user \subseteq Labels /\ placed \subseteq user
  /\ streams \in Seq(Stream)
  /\ outE \in Seq(Output) /\ outC \in Seq(Output)

\* The labels that are still to be set have no offset, and an "if" has a label
\* of its own.
Unplaced ==
  /\ \A l \in user : l <= eager.next
  /\ \A l \in user \ placed : eager.offset[l] = -1
  /\ \A i \in 1 .. Len(frames) :
       /\ frames[i].label <= eager.next /\ frames[i].label \notin user
       /\ eager.offset[frames[i].label] = -1
  /\ \A i, j \in 1 .. Len(frames) : frames[i].label = frames[j].label => i = j

\* Between two routines.
Fresh(e) ==
  /\ e.mode = "encode" /\ e.exec = {} /\ e.next = 0 /\ e.use = [l \in Labels |-> 0]
  /\ e.code = <<>> /\ ~e.fatal

Reading ==
  ~ended => IF cap.mode = "capture" THEN Twin(eager, cap) /\ Unplaced
            ELSE Fresh(eager) /\ frames = <<>> /\ user = {}

Counted ==
  /\ deferred => Len(streams) = Len(outE) /\ (cap.mode = "replay" => Len(outC) < Len(outE))
                 /\ Len(outC) <= Len(outE) /\ (~ended => cap.mode = "capture")
  /\ ~deferred => streams = <<>> /\ Len(outE) = IF cap.mode = "replay" THEN Len(outC) + 1 ELSE Len(outC)

Written ==
  /\ \A i \in 1 .. Len(streams) : Recorded(streams[i].events, streams[i].next, outE[i])
  /\ cap.mode = "replay" => Replaying(cap, at, outE[Len(outC) + 1], ~deferred)
  /\ \A i \in 1 .. Len(outC) :
       /\ outE[i].errors = {} => outC[i] = outE[i]
       /\ ~deferred => outC[i].errors = outE[i].errors

ReplayInv == ReplayTypes /\ Reading /\ Counted /\ Written

-----------------------------------------------------------------------------
(* Logs: a longer one, and what its snapshots are transferred as.          *)
LEMMA LabelFacts == MaxLabels \in Nat /\ Labels = 1 .. MaxLabels /\ NoLabel = 0
BY ReplayAssumption DEF ReplayAssumption, Labels, NoLabel

LEMMA CountUseType ==
  ASSUME NEW use \in [Labels -> Nat], NEW l \in 0 .. MaxLabels
  PROVE  CountUse(use, l) \in [Labels -> Nat]
BY LabelFacts DEF CountUse

LEMMA StartFacts == Start \in Snapshot
BY LabelFacts, EmptySeq DEF Start, Snapshot, Place

LEMMA ApplyLabel ==
  ASSUME NEW s \in Snapshot, NEW ev \in Event, ev.kind = "label", ev.label \in Labels
  PROVE  /\ Apply(s, ev) \in Snapshot
         /\ Apply(s, ev).code = s.code /\ Apply(s, ev).use = s.use
         /\ Apply(s, ev).off = [s.off EXCEPT ![ev.label] = Len(s.code)]
<1>1. Len(s.code) \in Nat
  BY LenProperties DEF Snapshot
<1> DEFINE o == [s.off EXCEPT ![ev.label] = Len(s.code)]
<1>2. o \in [Labels -> Place]
  BY <1>1 DEF Snapshot, Place
<1>3. Apply(s, ev) = [s EXCEPT !.off = o]
  BY DEF Apply, Snapshot
<1> HIDE DEF o
<1>4. Apply(s, ev) \in Snapshot /\ Apply(s, ev).code = s.code /\ Apply(s, ev).use = s.use
      /\ Apply(s, ev).off = o
  BY <1>2, <1>3 DEF Snapshot
<1> QED
  BY <1>4 DEF o

LEMMA ApplyInstruction ==
  ASSUME NEW s \in Snapshot, NEW ev \in Event, ev.kind = "instruction"
  PROVE  /\ Apply(s, ev) \in Snapshot
         /\ Apply(s, ev).code = Append(s.code, [op |-> ev.op, label |-> ev.label])
         /\ Apply(s, ev).use = CountUse(s.use, ev.label)
         /\ Apply(s, ev).off = s.off
<1> DEFINE i == [op |-> ev.op, label |-> ev.label]
           d == Append(s.code, i)
           u == CountUse(s.use, ev.label)
<1>1. s.code \in Seq(Instr) /\ s.use \in [Labels -> Nat] /\ i \in Instr
  BY DEF Snapshot, Event, Instr
<1>2. d \in Seq(Instr)
  BY <1>1, AppendProperties
<1>3. u \in [Labels -> Nat]
  BY <1>1, CountUseType DEF Event
<1>4. Apply(s, ev) = [s EXCEPT !.code = d, !.use = u]
  BY DEF Apply, Snapshot
<1> HIDE DEF d, u
<1>5. Apply(s, ev) \in Snapshot /\ Apply(s, ev).code = d /\ Apply(s, ev).use = u
      /\ Apply(s, ev).off = s.off
  BY <1>2, <1>3, <1>4 DEF Snapshot
<1> QED
  BY <1>5 DEF d, u

\* A log grows by an event; only an allocated label may be used in it.
LEMMA LogAppend ==
  ASSUME NEW events, NEW next, NEW h, IsLog(events, next, h),
         NEW ev, Good(ev, next)
  PROVE  \E g : /\ IsLog(Append(events, ev), next, g)
                /\ g[Len(Append(events, ev))] = Apply(h[Len(events)], ev)
<1> DEFINE n == Len(events)
           s == Apply(h[n], ev)
           es == Append(events, ev)
           g == [k \in 0 .. n + 1 |-> IF k = n + 1 THEN s ELSE h[k]]
<1>1. events \in Seq(Event) /\ n \in Nat /\ ev \in Event /\ next \in 0 .. MaxLabels
      /\ h \in [0 .. n -> Snapshot] /\ h[n] \in Snapshot /\ h[0] = Start
  BY LenProperties DEF IsLog, Good
<1>2. s \in Snapshot /\ \A i \in 1 .. Len(s.code) : s.code[i].label <= next
  <2>1. \A i \in 1 .. Len(h[n].code) : h[n].code[i].label <= next
    BY DEF IsLog
  <2>2. CASE ev.kind = "label"
    <3>1. ev.label \in Labels
      BY <1>1, <2>2, LabelFacts DEF Good, Event
    <3> QED BY <1>1, <2>1, <2>2, <3>1, ApplyLabel
  <2>3. CASE ev.kind = "instruction"
    <3> DEFINE i == [op |-> ev.op, label |-> ev.label]
    <3>1. s \in Snapshot /\ s.code = Append(h[n].code, i)
      BY <1>1, <2>3, ApplyInstruction
    <3>2. h[n].code \in Seq(Instr) /\ i \in Instr /\ i.label <= next
      BY <1>1 DEF Snapshot, Good, Event, Instr
    <3> HIDE DEF i, s
    <3>3. Len(s.code) = Len(h[n].code) + 1 /\ Len(h[n].code) \in Nat
          /\ s.code[Len(h[n].code) + 1] = i
          /\ \A j \in 1 .. Len(h[n].code) : s.code[j] = h[n].code[j]
      BY <3>1, <3>2, AppendProperties, LenProperties
    <3>4. ASSUME NEW j \in 1 .. Len(s.code) PROVE s.code[j].label <= next
      <4> DEFINE c == h[n].code
      <4>1. Len(s.code) = Len(c) + 1 /\ Len(c) \in Nat /\ s.code[Len(c) + 1] = i
            /\ \A m \in 1 .. Len(c) : s.code[m] = c[m]
        BY <3>3
      <4>2. \A m \in 1 .. Len(c) : c[m].label <= next
        BY <2>1
      <4> HIDE DEF c
      <4>3. j \in 1 .. Len(c) \/ j = Len(c) + 1
        BY ONLY <4>1, j \in 1 .. Len(s.code)
      <4>4. CASE j \in 1 .. Len(c)
        BY ONLY <4>1, <4>2, <4>4, Zenon
      <4>5. CASE j = Len(c) + 1
        BY ONLY <3>2, <4>1, <4>5, Zenon
      <4> QED BY ONLY <4>3, <4>4, <4>5
    <3> QED BY <3>1, <3>4
  <2> QED BY <1>1, <2>2, <2>3 DEF Event
<1>3. es \in Seq(Event) /\ Len(es) = n + 1 /\ es[n + 1] = ev
      /\ \A k \in 1 .. n : es[k] = events[k]
  BY <1>1, AppendProperties
<1> HIDE DEF es, s
<1>4. /\ g \in [0 .. n + 1 -> Snapshot] /\ g[0] = Start /\ g[n + 1] = s
      /\ \A k \in 0 .. n : g[k] = h[k]
  BY <1>1, <1>2
<1> HIDE DEF g
<1>5. ASSUME NEW k \in 1 .. n + 1
      PROVE  Good(es[k], next) /\ g[k] = Apply(g[k - 1], es[k])
  <2>1. CASE k = n + 1
    BY <1>1, <1>3, <1>4, <2>1 DEF s
  <2>2. CASE k # n + 1
    <3>1. k \in 1 .. n /\ k - 1 \in 0 .. n /\ k \in 0 .. n
      BY <1>1, <2>2
    <3> QED BY <1>3, <1>4, <3>1 DEF IsLog
  <2> QED BY <2>1, <2>2
<1>6. IsLog(es, next, g)
  BY <1>1, <1>2, <1>3, <1>4, <1>5 DEF IsLog
<1> QED
  BY <1>3, <1>4, <1>6 DEF es, s

\* A log of a routine with next labels is one of a routine with more.
LEMMA LogWiden ==
  ASSUME NEW events, NEW next, NEW h, IsLog(events, next, h),
         next + 1 \in 0 .. MaxLabels
  PROVE  IsLog(events, next + 1, h)
<1>1. \A k \in 1 .. Len(events) : events[k].label \in Int
  BY DEF IsLog, Good, Event
<1>2. Len(events) \in Nat /\ h[Len(events)] \in Snapshot
  BY LenProperties DEF IsLog
<1>3. \A i \in 1 .. Len(h[Len(events)].code) : h[Len(events)].code[i].label \in Int
  <2> DEFINE c == h[Len(events)].code
  <2>1. c \in Seq(Instr)
    BY <1>2 DEF Snapshot
  <2> HIDE DEF c
  <2>2. \A i \in 1 .. Len(c) : c[i] \in Instr
    BY <2>1, ElementOfSeq
  <2> QED BY <2>2 DEF Instr, c
<1>4. next \in Int /\ \A i \in Int : i <= next => i <= next + 1
  BY DEF IsLog
<1>5. \A k \in 1 .. Len(events) : Good(events[k], next + 1)
  BY <1>1, <1>4 DEF IsLog, Good
<1> QED
  BY <1>3, <1>4, <1>5 DEF IsLog

-----------------------------------------------------------------------------
(* What each step of the parser does to the two encoders.                  *)

\* The fields of the encoders that have read the same source.
LEMMA TwinFields ==
  ASSUME NEW e, NEW c, Twin(e, c)
  PROVE  /\ e \in Enc /\ c \in Enc /\ e.mode = "encode" /\ c.mode = "capture"
         /\ c.exec = e.exec /\ c.use = e.use /\ c.next = e.next
         /\ ~e.fatal /\ ~c.fatal /\ c.code = <<>>
         /\ e.exec \subseteq Flags /\ e.next \in 0 .. MaxLabels
         /\ e.use \in [Labels -> Nat] /\ e.offset \in [Labels -> Place]
         /\ c.offset \in [Labels -> Place]
         /\ e.code \in Seq(Instr) /\ c.events \in Seq(Event)
         /\ \A l \in 1 .. c.next : c.offset[l] = -1
BY DEF Twin, Enc

\* Only the reachability differs.
LEMMA TwinExec ==
  ASSUME NEW e, NEW c, Twin(e, c), NEW x \in SUBSET Flags
  PROVE  Twin([e EXCEPT !.exec = x], [c EXCEPT !.exec = x])
<1> DEFINE e1 == [e EXCEPT !.exec = x]
           c1 == [c EXCEPT !.exec = x]
<1>0. e \in Enc /\ c \in Enc
  BY TwinFields
<1>1. /\ e1 \in Enc /\ e1.mode = e.mode /\ e1.exec = x /\ e1.next = e.next /\ e1.use = e.use
      /\ e1.fatal = e.fatal /\ e1.code = e.code /\ e1.offset = e.offset
  BY <1>0 DEF Enc
<1>2. /\ c1 \in Enc /\ c1.mode = c.mode /\ c1.exec = x /\ c1.next = c.next /\ c1.use = c.use
      /\ c1.fatal = c.fatal /\ c1.code = c.code /\ c1.offset = c.offset /\ c1.events = c.events
  BY <1>0 DEF Enc
<1> HIDE DEF e1, c1
<1>3. Twin(e1, c1)
  BY <1>1, <1>2 DEF Twin
<1> QED
  BY <1>3 DEF e1, c1

LEMMA TwinEnter ==
  ASSUME NEW e, NEW c, Twin(e, c)
  PROVE  /\ Twin(Enter(e), Enter(c))
         /\ Enter(e).next = e.next /\ Enter(e).offset = e.offset
<1>1. e \in Enc /\ c \in Enc /\ c.exec = e.exec /\ e.exec \subseteq Flags
  BY TwinFields
<1>2. CASE e.exec = {}
  BY <1>1, <1>2 DEF Enter
<1>3. CASE e.exec # {}
  <2> DEFINE x == e.exec \cup {"ENTIRE"}
  <2>1. x \in SUBSET Flags
    BY <1>1 DEF Flags
  <2>2. Enter(e) = [e EXCEPT !.exec = x] /\ Enter(c) = [c EXCEPT !.exec = x]
    BY <1>1, <1>3 DEF Enter, Enc
  <2> HIDE DEF x
  <2>3. Twin(Enter(e), Enter(c))
    BY <2>1, <2>2, TwinExec
  <2> QED BY <1>1, <2>2, <2>3 DEF Enc
<1> QED
  BY <1>2, <1>3

LEMMA TwinLeave ==
  ASSUME NEW e, NEW c, Twin(e, c), NEW saved
  PROVE  /\ Twin(Leave(e, saved), Leave(c, saved))
         /\ Leave(e, saved).next = e.next /\ Leave(e, saved).offset = e.offset
<1> DEFINE x == IF saved THEN e.exec \cup {"ENTIRE"} ELSE e.exec \ {"ENTIRE"}
<1>1. e \in Enc /\ c \in Enc /\ c.exec = e.exec /\ e.exec \subseteq Flags
  BY TwinFields
<1>2. x \in SUBSET Flags
  BY <1>1 DEF Flags
<1>3. Leave(e, saved) = [e EXCEPT !.exec = x] /\ Leave(c, saved) = [c EXCEPT !.exec = x]
  BY <1>1 DEF Leave, Enc
<1> HIDE DEF x
<1>4. Twin(Leave(e, saved), Leave(c, saved))
  BY <1>2, <1>3, TwinExec
<1> QED
  BY <1>1, <1>3, <1>4 DEF Enc

LEMMA TwinAlloc ==
  ASSUME NEW e, NEW c, Twin(e, c), e.next + 1 \in Labels
  PROVE  /\ Twin(AllocLabel(e), AllocLabel(c))
         /\ AllocLabel(e).next = e.next + 1
         /\ AllocLabel(e).offset = [e.offset EXCEPT ![e.next + 1] = -1]
<1> DEFINE n == e.next + 1
           oe == [e.offset EXCEPT ![n] = -1]
           oc == [c.offset EXCEPT ![n] = -1]
           e1 == AllocLabel(e)
           c1 == AllocLabel(c)
<1>1. n \in 0 .. MaxLabels /\ n \in 1 .. MaxLabels /\ e.next \in 0 .. MaxLabels
      /\ c.next = e.next /\ n \in Labels
  BY LabelFacts, TwinFields
<1>2. oe \in [Labels -> Place] /\ oc \in [Labels -> Place]
  BY TwinFields DEF Place
<1>3. e1 = [e EXCEPT !.next = n, !.offset = oe] /\ c1 = [c EXCEPT !.next = n, !.offset = oc]
  BY <1>1, TwinFields DEF AllocLabel, Enc
<1>4. /\ oe[n] = -1 /\ oc[n] = -1
      /\ \A l \in Labels \ {n} : oe[l] = e.offset[l] /\ oc[l] = c.offset[l]
  BY <1>1, TwinFields
<1> HIDE DEF oe, oc, e1, c1
<1>41. e \in Enc /\ c \in Enc
  BY TwinFields
<1>5. /\ e1 \in Enc /\ e1.mode = e.mode /\ e1.exec = e.exec /\ e1.next = n /\ e1.use = e.use
      /\ e1.fatal = e.fatal /\ e1.code = e.code /\ e1.offset = oe
  BY <1>1, <1>2, <1>3, <1>41 DEF Enc
<1>6. /\ c1 \in Enc /\ c1.mode = c.mode /\ c1.exec = c.exec /\ c1.next = n /\ c1.use = c.use
      /\ c1.fatal = c.fatal /\ c1.code = c.code /\ c1.offset = oc /\ c1.events = c.events
  BY <1>1, <1>2, <1>3, <1>41 DEF Enc
<1>7. \A l \in 1 .. c1.next : c1.offset[l] = -1
  <2>1. \A l \in 1 .. n : l \in Labels /\ (l # n => l \in 1 .. c.next)
    BY <1>1, LabelFacts
  <2> QED BY <1>4, <1>6, <2>1, TwinFields
<1>8. \E h : /\ IsLog(c1.events, c1.next, h)
             /\ h[Len(c1.events)].code = e1.code /\ h[Len(c1.events)].use = e1.use
             /\ \A l \in Labels : h[Len(c1.events)].off[l] =
                                    IF l <= e1.next THEN e1.offset[l] ELSE -1
  <2>1. PICK h : /\ IsLog(c.events, c.next, h)
                 /\ h[Len(c.events)].code = e.code /\ h[Len(c.events)].use = e.use
                 /\ \A l \in Labels : h[Len(c.events)].off[l] =
                                        IF l <= e.next THEN e.offset[l] ELSE -1
    BY DEF Twin
  <2>2. IsLog(c1.events, c1.next, h)
    BY <1>1, <1>6, <2>1, LogWiden
  <2>3. \A l \in Labels : (l <= n <=> l <= e.next \/ l = n)
    BY <1>1, LabelFacts
  <2>4. \A l \in Labels : h[Len(c.events)].off[l] = IF l <= n THEN oe[l] ELSE -1
    <3>1. ~(n <= e.next)
      BY <1>1
    <3> QED BY <1>1, <1>4, <2>1, <2>3, <3>1
  <2> QED BY <1>5, <1>6, <2>1, <2>2, <2>4
<1>9. Twin(e1, c1)
  BY <1>5, <1>6, <1>7, <1>8, TwinFields DEF Twin
<1> QED
  BY <1>5, <1>9 DEF e1, c1, oe

\* The events stay a log when another is appended, and the eager encoder moves
\* to the snapshot after it.
LEMMA TwinGrow ==
  ASSUME NEW e, NEW c, Twin(e, c), NEW ev, Good(ev, e.next),
         NEW e1 \in Enc, NEW c1 \in Enc,
         e1.mode = "encode", c1.mode = "capture", ~e1.fatal, ~c1.fatal, c1.code = <<>>,
         c1.exec = e1.exec, c1.use = e1.use, c1.next = e.next, e1.next = e.next,
         c1.offset = c.offset, c1.events = Append(c.events, ev),
         \A s \in Snapshot :
           s.code = e.code /\ s.use = e.use => Apply(s, ev).code = e1.code /\ Apply(s, ev).use = e1.use,
         \A s \in Snapshot :
           (\A l \in Labels : s.off[l] = IF l <= e.next THEN e.offset[l] ELSE -1) /\ s.code = e.code =>
             \A l \in Labels : Apply(s, ev).off[l] = IF l <= e.next THEN e1.offset[l] ELSE -1
  PROVE  Twin(e1, c1)
<1>1. PICK h : /\ IsLog(c.events, c.next, h)
               /\ h[Len(c.events)].code = e.code /\ h[Len(c.events)].use = e.use
               /\ \A l \in Labels : h[Len(c.events)].off[l] =
                                      IF l <= e.next THEN e.offset[l] ELSE -1
  BY DEF Twin
<1>2. PICK g : /\ IsLog(Append(c.events, ev), e.next, g)
               /\ g[Len(Append(c.events, ev))] = Apply(h[Len(c.events)], ev)
  BY <1>1, LogAppend, TwinFields
<1>3. h[Len(c.events)] \in Snapshot
  BY <1>1, LenProperties DEF IsLog
<1>4. /\ g[Len(c1.events)].code = e1.code /\ g[Len(c1.events)].use = e1.use
      /\ \A l \in Labels : g[Len(c1.events)].off[l] = IF l <= e1.next THEN e1.offset[l] ELSE -1
  BY <1>1, <1>2, <1>3
<1>5. IsLog(c1.events, c1.next, g)
  BY <1>2
<1>6. \A l \in 1 .. c1.next : c1.offset[l] = -1
  BY TwinFields
<1> QED
  BY <1>4, <1>5, <1>6 DEF Twin

LEMMA TwinAssemble ==
  ASSUME NEW e, NEW c, Twin(e, c), NEW op \in Ops, NEW l \in 0 .. e.next
  PROVE  /\ Twin(Assemble(e, op, l), Assemble(c, op, l))
         /\ Assemble(e, op, l).next = e.next /\ Assemble(e, op, l).offset = e.offset
<1>0. e \in Enc /\ c \in Enc /\ l \in 0 .. MaxLabels /\ e.next \in 0 .. MaxLabels
      /\ c.exec = e.exec /\ e.exec \subseteq Flags /\ c.mode = "capture" /\ e.mode = "encode"
      /\ e.use = c.use
  BY TwinFields, LabelFacts
<1>1. CASE e.exec # {}
  <2> DEFINE x == e.exec \cup {"NOWARN"}
  <2>1. x \in SUBSET Flags
    BY <1>0 DEF Flags
  <2>2. Assemble(e, op, l) = [e EXCEPT !.exec = x] /\ Assemble(c, op, l) = [c EXCEPT !.exec = x]
    BY <1>0, <1>1 DEF Assemble, Enc
  <2> HIDE DEF x
  <2>3. Twin(Assemble(e, op, l), Assemble(c, op, l))
    BY <2>1, <2>2, TwinExec
  <2> QED BY <1>0, <2>2, <2>3 DEF Enc
<1>2. CASE e.exec = {}
  <2> DEFINE x == IF op \in {"return", "jump"} THEN {"UNREACHABLE"} ELSE {}
             u == CountUse(e.use, l)
             d == Append(e.code, [op |-> op, label |-> l])
             ev == [kind |-> "instruction", op |-> op, label |-> l, exec |-> c.exec]
             es == Append(c.events, ev)
             e1 == Assemble(e, op, l)
             c1 == Assemble(c, op, l)
  <2>1. x \in SUBSET Flags /\ u \in [Labels -> Nat]
    BY <1>0, TwinFields, CountUseType DEF Flags
  <2>2. [op |-> op, label |-> l] \in Instr /\ ev \in Event /\ ev.kind = "instruction"
        /\ ev.label = l /\ ev.op = op /\ ev.exec = {}
    BY <1>0, <1>2 DEF Instr, Event
  <2>3. Good(ev, e.next)
    BY <2>2 DEF Good
  <2>4. d \in Seq(Instr)
    BY <2>2, TwinFields, AppendProperties
  <2> HIDE DEF ev
  <2>5. es \in Seq(Event)
    BY <2>2, TwinFields, AppendProperties
  <2>6. NoteInstruction(e, op, l) = [e EXCEPT !.exec = x, !.use = u]
    BY <1>0 DEF NoteInstruction
  <2>7. e1 = [NoteInstruction(e, op, l) EXCEPT !.code = Append(@, [op |-> op, label |-> l])]
    BY <1>0, <1>2 DEF Assemble, Capturing
  <2>8. CaptureInstruction(c, op, l) = [c EXCEPT !.events = es]
    BY <1>0 DEF CaptureInstruction, ev, Enc
  <2>9. c1 = NoteInstruction([c EXCEPT !.events = es], op, l)
    BY <1>0, <1>2, <2>8 DEF Assemble, Capturing
  <2> HIDE DEF x, u, d, es, e1, c1
  <2>10. e1 = [e EXCEPT !.exec = x, !.use = u, !.code = d]
    BY <1>0, <2>6, <2>7 DEF Enc, d
  <2>11. c1 = [c EXCEPT !.exec = x, !.use = u, !.events = es]
    BY <1>0, <2>9 DEF Enc, NoteInstruction, x, u
  <2>12. /\ e1 \in Enc /\ e1.mode = e.mode /\ e1.exec = x /\ e1.next = e.next /\ e1.use = u
         /\ e1.fatal = e.fatal /\ e1.code = d /\ e1.offset = e.offset
    BY <1>0, <2>1, <2>4, <2>10 DEF Enc
  <2>13. /\ c1 \in Enc /\ c1.mode = c.mode /\ c1.exec = x /\ c1.next = c.next /\ c1.use = u
         /\ c1.fatal = c.fatal /\ c1.code = c.code /\ c1.offset = c.offset /\ c1.events = es
    BY <1>0, <2>1, <2>5, <2>11 DEF Enc
  <2>14. \A s \in Snapshot :
           /\ s.code = e.code /\ s.use = e.use => Apply(s, ev).code = d /\ Apply(s, ev).use = u
           /\ Apply(s, ev).off = s.off
    BY <2>2, ApplyInstruction DEF d, u
  <2>15. Twin(e1, c1)
    <3>1. /\ e1 \in Enc /\ c1 \in Enc /\ e1.mode = "encode" /\ c1.mode = "capture"
          /\ ~e1.fatal /\ ~c1.fatal /\ c1.code = <<>> /\ c1.exec = e1.exec /\ c1.use = e1.use
          /\ c1.next = e.next /\ e1.next = e.next /\ c1.offset = c.offset
          /\ c1.events = Append(c.events, ev) /\ e1.offset = e.offset
      BY <2>12, <2>13, TwinFields DEF es
    <3>2. \A s \in Snapshot :
            s.code = e.code /\ s.use = e.use => Apply(s, ev).code = e1.code /\ Apply(s, ev).use = e1.use
      BY <2>12, <2>14
    <3>3. \A s \in Snapshot :
            (\A k \in Labels : s.off[k] = IF k <= e.next THEN e.offset[k] ELSE -1) /\ s.code = e.code =>
              \A k \in Labels : Apply(s, ev).off[k] = IF k <= e.next THEN e1.offset[k] ELSE -1
      BY <2>14, <3>1
    <3> QED BY <2>3, <3>1, <3>2, <3>3, TwinGrow, SMTT(60)
  <2> QED
    BY <2>12, <2>15 DEF e1, c1
<1> QED
  BY <1>1, <1>2

LEMMA TwinLabel ==
  ASSUME NEW e, NEW c, Twin(e, c), NEW l \in 1 .. e.next, e.offset[l] = -1
  PROVE  /\ Twin(AssembleLabel(e, l), AssembleLabel(c, l))
         /\ AssembleLabel(e, l).next = e.next
         /\ AssembleLabel(e, l).offset \in [Labels -> Place]
         /\ \A k \in Labels \ {l} : AssembleLabel(e, l).offset[k] = e.offset[k]
<1>0. e \in Enc /\ c \in Enc /\ l \in Labels /\ e.next \in 0 .. MaxLabels /\ l \in 0 .. MaxLabels
      /\ c.exec = e.exec /\ e.exec \subseteq Flags /\ c.mode = "capture" /\ e.mode = "encode"
      /\ e.use = c.use /\ c.next = e.next /\ c.offset[l] = -1 /\ ~(l > e.next) /\ l # NoLabel
      /\ e.offset \in [Labels -> Place] /\ c.offset \in [Labels -> Place]
  BY TwinFields, LabelFacts
<1>1. Stripped(c, l) = Stripped(e, l)
  BY <1>0 DEF Stripped
<1>2. CASE Stripped(e, l)
  <2>1. AssembleLabel(e, l) = [e EXCEPT !.offset[l] = -1]
        /\ AssembleLabel(c, l) = [c EXCEPT !.offset[l] = -1]
    BY <1>0, <1>1, <1>2 DEF AssembleLabel, SetLabelOffset
  <2>2. AssembleLabel(e, l) = e /\ AssembleLabel(c, l) = c
    BY <1>0, <2>1 DEF Enc
  <2> QED BY <1>0, <2>2
<1>3. CASE ~Stripped(e, l)
  <2> DEFINE n == Len(e.code)
             o == [e.offset EXCEPT ![l] = n]
             x == c.exec \ {"ENTIRE"}
             ev == [kind |-> "label", op |-> "plain", label |-> l, exec |-> x]
             es == Append(c.events, ev)
             e1 == AssembleLabel(e, l)
             c1 == AssembleLabel(c, l)
  <2>1. n \in Nat /\ o \in [Labels -> Place] /\ o[l] = n
        /\ \A k \in Labels \ {l} : o[k] = e.offset[k]
    BY <1>0, TwinFields, LenProperties DEF Place
  <2>2. x \in SUBSET Flags /\ "ENTIRE" \notin x
    BY <1>0
  <2> HIDE DEF x
  <2>3. ev \in Event /\ ev.kind = "label" /\ ev.label = l /\ ev.exec = x
    BY <1>0, <2>2 DEF Event, Ops
  <2>4. Good(ev, e.next)
    BY <1>0, <2>2, <2>3 DEF Good
  <2> HIDE DEF ev
  <2>5. es \in Seq(Event)
    BY <2>3, TwinFields, AppendProperties
  <2>6. e1 = [[e EXCEPT !.offset[l] = n] EXCEPT !.exec = {}]
    BY <1>0, <1>3 DEF AssembleLabel, Capturing, SetLabelOffset
  <2>7. CaptureLabel(c, l) = [c EXCEPT !.events = es]
    BY <1>0 DEF CaptureLabel, ev, x, Enc
  <2>8. c1 = [[c EXCEPT !.events = es] EXCEPT !.exec = {}]
    BY <1>0, <1>1, <1>3, <2>7 DEF AssembleLabel, Capturing
  <2> HIDE DEF o, es, e1, c1, n
  <2>9. e1 = [e EXCEPT !.offset = o, !.exec = {}]
    BY <1>0, <2>6 DEF Enc, o
  <2>10. c1 = [c EXCEPT !.events = es, !.exec = {}]
    BY <1>0, <2>8 DEF Enc
  <2>11. /\ e1 \in Enc /\ e1.mode = e.mode /\ e1.exec = {} /\ e1.next = e.next /\ e1.use = e.use
         /\ e1.fatal = e.fatal /\ e1.code = e.code /\ e1.offset = o
    BY <1>0, <2>1, <2>9 DEF Enc
  <2>12. /\ c1 \in Enc /\ c1.mode = c.mode /\ c1.exec = {} /\ c1.next = c.next /\ c1.use = c.use
         /\ c1.fatal = c.fatal /\ c1.code = c.code /\ c1.offset = c.offset /\ c1.events = es
    BY <1>0, <2>5, <2>10 DEF Enc
  <2>13. ASSUME NEW s \in Snapshot
         PROVE  /\ Apply(s, ev).code = s.code /\ Apply(s, ev).use = s.use
                /\ s.code = e.code => Apply(s, ev).off = [s.off EXCEPT ![l] = n]
                /\ s.off \in [Labels -> Place]
    <3>1. /\ Apply(s, ev).code = s.code /\ Apply(s, ev).use = s.use
          /\ Apply(s, ev).off = [s.off EXCEPT ![l] = Len(s.code)]
      BY <1>0, <2>3, ApplyLabel
    <3> QED BY <3>1 DEF n, Snapshot
  <2>14. ASSUME NEW s \in Snapshot, s.code = e.code,
                \A k \in Labels : s.off[k] = IF k <= e.next THEN e.offset[k] ELSE -1,
                NEW k \in Labels
         PROVE  Apply(s, ev).off[k] = IF k <= e.next THEN o[k] ELSE -1
    <3>1. Apply(s, ev).off = [s.off EXCEPT ![l] = n] /\ s.off \in [Labels -> Place]
      BY <2>13, <2>14
    <3>2. CASE k = l
      BY <1>0, <2>1, <3>1, <3>2
    <3>3. CASE k # l
      BY <1>0, <2>1, <2>14, <3>1, <3>3
    <3> QED BY <3>2, <3>3
  <2>15. Twin(e1, c1)
    <3>1. /\ e1 \in Enc /\ c1 \in Enc /\ e1.mode = "encode" /\ c1.mode = "capture"
          /\ ~e1.fatal /\ ~c1.fatal /\ c1.code = <<>> /\ c1.exec = e1.exec /\ c1.use = e1.use
          /\ c1.next = e.next /\ e1.next = e.next /\ c1.offset = c.offset
          /\ c1.events = Append(c.events, ev) /\ e1.offset = o
      BY <2>11, <2>12, TwinFields DEF es
    <3>2. \A s \in Snapshot :
            s.code = e.code /\ s.use = e.use => Apply(s, ev).code = e1.code /\ Apply(s, ev).use = e1.use
      BY <2>11, <2>13
    <3>3. \A s \in Snapshot :
            (\A k \in Labels : s.off[k] = IF k <= e.next THEN e.offset[k] ELSE -1) /\ s.code = e.code =>
              \A k \in Labels : Apply(s, ev).off[k] = IF k <= e.next THEN e1.offset[k] ELSE -1
      BY <2>14, <3>1
    <3> QED BY <2>4, <3>1, <3>2, <3>3, TwinGrow
  <2> QED
    BY <2>1, <2>11, <2>15 DEF e1, c1
<1> QED
  BY <1>2, <1>3

LEMMA TwinForward ==
  ASSUME NEW e, NEW c, Twin(e, c), NEW l \in 1 .. e.next, e.offset[l] = -1
  PROVE  /\ Twin(AssembleForwardLabel(e, l), AssembleForwardLabel(c, l))
         /\ AssembleForwardLabel(e, l).next = e.next
         /\ AssembleForwardLabel(e, l).offset \in [Labels -> Place]
         /\ \A k \in Labels \ {l} : AssembleForwardLabel(e, l).offset[k] = e.offset[k]
<1>0. e \in Enc /\ c \in Enc /\ l \in Labels /\ e.use = c.use /\ c.next = e.next
      /\ c.offset[l] = -1 /\ ~(l > e.next)
      /\ e.offset \in [Labels -> Place] /\ c.offset \in [Labels -> Place]
  <2>1. l \in 1 .. MaxLabels /\ e.next \in 0 .. MaxLabels
    BY TwinFields, LabelFacts
  <2> QED BY <2>1, TwinFields, LabelFacts
<1>1. CASE e.use[l] > 0
  BY <1>0, <1>1, TwinLabel DEF AssembleForwardLabel
<1>2. CASE ~(e.use[l] > 0)
  <2>1. AssembleForwardLabel(e, l) = [e EXCEPT !.offset[l] = -1]
        /\ AssembleForwardLabel(c, l) = [c EXCEPT !.offset[l] = -1]
    BY <1>0, <1>2 DEF AssembleForwardLabel, SetLabelOffset
  <2>2. AssembleForwardLabel(e, l) = e /\ AssembleForwardLabel(c, l) = c
    BY <1>0, <2>1 DEF Enc
  <2> QED BY <1>0, <2>2
<1> QED
  BY <1>1, <1>2

LEMMA TwinStatement ==
  ASSUME NEW e, NEW c, Twin(e, c), NEW op \in Ops, NEW l \in 0 .. e.next
  PROVE  /\ Twin(Statement(e, op, l), Statement(c, op, l))
         /\ Statement(e, op, l).next = e.next /\ Statement(e, op, l).offset = e.offset
<1> DEFINE saved == "ENTIRE" \in e.exec
           e1 == Enter(e)
           c1 == Enter(c)
           e2 == Assemble(e1, op, l)
           c2 == Assemble(c1, op, l)
<1>1. Twin(e1, c1) /\ e1.next = e.next /\ e1.offset = e.offset
  BY TwinEnter
<1> HIDE DEF e1, c1
<1>2. l \in 0 .. e1.next
  BY <1>1
<1>3. Twin(e2, c2) /\ e2.next = e.next /\ e2.offset = e.offset
  BY <1>1, <1>2, TwinAssemble
<1> HIDE DEF e2, c2
<1>4. Statement(e, op, l) = Leave(e2, saved) /\ Statement(c, op, l) = Leave(c2, saved)
  BY TwinFields DEF Statement, e1, c1, e2, c2
<1> HIDE DEF saved
<1>5. Twin(Leave(e2, saved), Leave(c2, saved)) /\ Leave(e2, saved).next = e2.next
      /\ Leave(e2, saved).offset = e2.offset
  BY <1>3, TwinLeave
<1> QED
  BY <1>3, <1>4, <1>5

LEMMA TwinReturn ==
  ASSUME NEW e, NEW c, Twin(e, c)
  PROVE  Twin(ImplicitReturn(e), ImplicitReturn(c))
<1>1. c.exec = e.exec /\ e.next \in 0 .. MaxLabels
  BY TwinFields
<1>2. "return" \in Ops /\ NoLabel \in 0 .. e.next
  BY <1>1, LabelFacts DEF Ops
<1> QED
  BY <1>1, <1>2, TwinAssemble DEF ImplicitReturn

-----------------------------------------------------------------------------
(* Transferring a routine.                                                 *)
LEMMA TransferType ==
  ASSUME NEW e \in Enc
  PROVE  TransferredCode(e) \in Output
<1>1. e.code \in Seq(Instr) /\ e.offset \in [Labels -> Place] /\ e.use \in [Labels -> Nat]
  BY DEF Enc
<1>2. Len(e.code) \in Nat /\ DOMAIN e.code = 1 .. Len(e.code)
      /\ \A i \in 1 .. Len(e.code) : e.code[i] \in Instr
  BY <1>1, LenProperties, ElementOfSeq
<1> DEFINE w(i) == [op |-> e.code[i].op, target |-> Target(e, i)]
           code == [i \in 1 .. Len(e.code) |-> w(i)]
           errs == {i \in 1 .. Len(e.code) : Target(e, i) < 0}
<1>3. ASSUME NEW i \in 1 .. Len(e.code)
      PROVE  w(i) \in [op : Ops, target : Place]
  <2>1. e.code[i].op \in Ops /\ e.code[i].label \in 0 .. MaxLabels
    BY <1>2 DEF Instr
  <2>2. Target(e, i) \in Place
    BY <1>1, <2>1, LabelFacts DEF Target, Place
  <2> QED BY <2>1, <2>2
<1>4. code \in Seq([op : Ops, target : Place])
  <2> HIDE DEF w
  <2> QED BY <1>2, <1>3, IsASeq
<1>5. errs \in SUBSET Nat
  BY <1>2
<1>6. TransferredCode(e) = [code |-> code, use |-> e.use, errors |-> errs]
  BY <1>2 DEF TransferredCode
<1> HIDE DEF code, errs
<1> QED
  BY <1>1, <1>4, <1>5, <1>6 DEF Output

LEMMA TransferSame ==
  ASSUME NEW e \in Enc, NEW s \in Snapshot, s.code = e.code, s.use = e.use,
         \A i \in 1 .. Len(e.code) : e.code[i].label # NoLabel => s.off[e.code[i].label] = e.offset[e.code[i].label]
  PROVE  TransferredCode(e) = Result(s)
<1>1. DOMAIN e.code = 1 .. Len(e.code)
  BY LenProperties DEF Enc
<1>2. \A i \in 1 .. Len(e.code) : Target(e, i) = TargetIn(s, i)
  BY DEF Target, TargetIn
<1>3. [i \in 1 .. Len(e.code) |-> [op |-> e.code[i].op, target |-> Target(e, i)]]
        = [i \in 1 .. Len(s.code) |-> [op |-> s.code[i].op, target |-> TargetIn(s, i)]]
  BY <1>2
<1>4. {i \in 1 .. Len(e.code) : Target(e, i) < 0} = {i \in 1 .. Len(s.code) : TargetIn(s, i) < 0}
  BY <1>2
<1> QED
  BY <1>1, <1>3, <1>4 DEF TransferredCode, Result

\* The eager encoder transfers what the log of the captured routine comes to.
LEMMA TwinTransfer ==
  ASSUME NEW e, NEW c, Twin(e, c)
  PROVE  Recorded(c.events, c.next, TransferredCode(e))
<1>1. PICK h : /\ IsLog(c.events, c.next, h)
               /\ h[Len(c.events)].code = e.code /\ h[Len(c.events)].use = e.use
               /\ \A l \in Labels : h[Len(c.events)].off[l] =
                                      IF l <= e.next THEN e.offset[l] ELSE -1
  BY DEF Twin
<1> DEFINE s == h[Len(c.events)]
<1>2. s \in Snapshot /\ s.code = e.code /\ s.use = e.use /\ e \in Enc /\ c.next = e.next
  BY <1>1, LenProperties, TwinFields DEF IsLog
<1>3. \A i \in 1 .. Len(e.code) : e.code[i].label <= e.next /\ e.code[i].label \in 0 .. MaxLabels
  <2>1. e.code \in Seq(Instr)
    BY TwinFields
  <2>2. \A i \in 1 .. Len(e.code) : e.code[i] \in Instr
    BY <2>1, ElementOfSeq
  <2>3. \A i \in 1 .. Len(e.code) : e.code[i].label \in 0 .. MaxLabels
    BY <2>2 DEF Instr
  <2> QED BY <1>1, <1>2, <2>3 DEF IsLog
<1>4. \A i \in 1 .. Len(e.code) :
        e.code[i].label # NoLabel => s.off[e.code[i].label] = e.offset[e.code[i].label]
  <2>1. \A l \in Labels : s.off[l] = IF l <= e.next THEN e.offset[l] ELSE -1
    BY <1>1
  <2> HIDE DEF s
  <2> QED BY <1>3, <2>1, LabelFacts
<1>5. TransferredCode(e) = Result(s)
  <2> HIDE DEF s
  <2> QED BY <1>2, <1>4, TransferSame
<1> QED
  BY <1>1, <1>5 DEF Recorded

\* So does the replay, if nothing is wrong with the routine; replayed at once,
\* also if something is.
LEMMA ReplayTransfer ==
  ASSUME NEW c, NEW res, NEW atonce, Replaying(c, Len(c.events) + 1, res, atonce)
  PROVE  res.errors = {} \/ atonce => TransferredCode(c) = res
<1>1. PICK h : /\ IsLog(c.events, c.next, h)
               /\ res = Result(h[Len(c.events)])
               /\ c.code = h[Len(c.events) + 1 - 1].code /\ c.use = h[Len(c.events) + 1 - 1].use
               /\ \A l \in Labels : h[Len(c.events) + 1 - 1].off[l] # -1 =>
                                      c.offset[l] = h[Len(c.events) + 1 - 1].off[l]
               /\ atonce => \A l \in 1 .. c.next : h[Len(c.events) + 1 - 1].off[l] = -1 => c.offset[l] = -1
  BY DEF Replaying
<1> DEFINE s == h[Len(c.events)]
<1>2. Len(c.events) \in Nat /\ s \in Snapshot /\ c \in Enc /\ c.next \in 0 .. MaxLabels
  BY <1>1, LenProperties DEF IsLog, Replaying
<1>3. Len(c.events) + 1 - 1 = Len(c.events)
  BY <1>2
<1>4. /\ c.code = s.code /\ c.use = s.use /\ res = Result(s)
      /\ \A l \in Labels : s.off[l] # -1 => c.offset[l] = s.off[l]
      /\ atonce => \A l \in 1 .. c.next : s.off[l] = -1 => c.offset[l] = -1
      /\ \A i \in 1 .. Len(s.code) : s.code[i].label <= c.next
  BY <1>1, <1>3 DEF IsLog
<1> HIDE DEF s
<1>5. \A i \in 1 .. Len(s.code) : s.code[i].label \in 0 .. MaxLabels
  <2>1. s.code \in Seq(Instr)
    BY <1>2 DEF Snapshot
  <2>2. \A i \in 1 .. Len(s.code) : s.code[i] \in Instr
    BY <2>1, ElementOfSeq
  <2> QED BY <2>2 DEF Instr
<1>6. s.off \in [Labels -> Place]
  BY <1>2 DEF Snapshot
<1>7. ASSUME res.errors = {} \/ atonce, NEW i \in 1 .. Len(s.code), s.code[i].label # NoLabel
      PROVE  s.off[s.code[i].label] = c.offset[s.code[i].label]
  <2> DEFINE l == s.code[i].label
  <2>1. l \in Labels /\ l \in 1 .. c.next
    BY <1>2, <1>4, <1>5, <1>7, LabelFacts
  <2>2. CASE s.off[l] # -1
    BY <1>4, <2>1, <2>2
  <2>3. CASE s.off[l] = -1
    <3>1. TargetIn(s, i) = -1
      BY <1>7, <2>3 DEF TargetIn
    <3>2. i \in res.errors
      BY <1>4, <3>1 DEF Result
    <3>3. atonce
      BY <1>7, <3>2
    <3> QED BY <1>4, <2>1, <2>3, <3>3
  <2> QED BY <2>2, <2>3
<1> QED
  BY <1>2, <1>4, <1>7, TransferSame

-----------------------------------------------------------------------------
(* The start, and the steps of the parser.                                 *)
LEMMA EncFacts ==
  /\ InitEnc("encode") \in Enc /\ InitEnc("capture") \in Enc
  /\ \A e \in Enc : /\ Reset(e) \in Enc /\ Reset(e).mode = e.mode /\ Reset(e).exec = {}
                    /\ Reset(e).next = 0 /\ Reset(e).use = [l \in Labels |-> 0]
                    /\ Reset(e).code = <<>> /\ Reset(e).events = <<>>
                    /\ Reset(e).fatal = e.fatal /\ Reset(e).offset = e.offset
<1>1. [l \in Labels |-> 0] \in [Labels -> Nat] /\ [l \in Labels |-> -1] \in [Labels -> Place]
      /\ 0 \in 0 .. MaxLabels /\ {} \in SUBSET Flags
  BY LabelFacts DEF Place
<1>2. <<>> \in Seq(Instr) /\ <<>> \in Seq(Event)
  BY EmptySeq
<1>3. InitEnc("encode") \in Enc /\ InitEnc("capture") \in Enc
  BY <1>1, <1>2 DEF InitEnc, Enc
<1>4. ASSUME NEW e \in Enc
      PROVE  /\ Reset(e) \in Enc /\ Reset(e).mode = e.mode /\ Reset(e).exec = {}
             /\ Reset(e).next = 0 /\ Reset(e).use = [l \in Labels |-> 0]
             /\ Reset(e).code = <<>> /\ Reset(e).events = <<>>
             /\ Reset(e).fatal = e.fatal /\ Reset(e).offset = e.offset
  <2> DEFINE u == [l \in Labels |-> 0]
  <2>1. u \in [Labels -> Nat]
    BY <1>1
  <2>2. Reset(e) = [e EXCEPT !.exec = {}, !.next = 0, !.use = u, !.code = <<>>, !.events = <<>>]
    BY DEF Reset
  <2> HIDE DEF u
  <2>3. /\ Reset(e) \in Enc /\ Reset(e).mode = e.mode /\ Reset(e).exec = {}
        /\ Reset(e).next = 0 /\ Reset(e).use = u
        /\ Reset(e).code = <<>> /\ Reset(e).events = <<>>
        /\ Reset(e).fatal = e.fatal /\ Reset(e).offset = e.offset
    BY <1>1, <1>2, <2>1, <2>2 DEF Enc
  <2> QED BY <2>3 DEF u
<1> QED
  BY <1>3, <1>4

\* Between two routines the encoders agree.
LEMMA TwinFresh ==
  ASSUME NEW e \in Enc, NEW c \in Enc, Fresh(e), Fresh([c EXCEPT !.mode = "encode"]),
         c.mode = "capture", c.events = <<>>
  PROVE  Twin(e, c)
<1> DEFINE h == [k \in {0} |-> Start]
<1>1. Len(c.events) = 0 /\ c.events \in Seq(Event)
  BY EmptySeq
<1>2. 0 .. 0 = {0} /\ 1 .. 0 = {}
  OBVIOUS
<1>3. Start.code = <<>> /\ Start.use = [l \in Labels |-> 0] /\ Start.off = [l \in Labels |-> -1]
      /\ Len(Start.code) = 0
  BY DEF Start
<1>4. e.next = 0 /\ c.next = 0 /\ e.code = <<>> /\ c.code = <<>> /\ e.exec = {} /\ c.exec = {}
      /\ e.use = [l \in Labels |-> 0] /\ c.use = e.use /\ ~e.fatal /\ ~c.fatal /\ e.mode = "encode"
  BY DEF Fresh, Enc
<1>5. IsLog(c.events, c.next, h)
  BY <1>1, <1>2, <1>3, <1>4, StartFacts, LabelFacts DEF IsLog
<1>6. \A l \in Labels : ~(l <= 0)
  BY LabelFacts
<1>7. h[Len(c.events)] = Start
  BY <1>1
<1> HIDE DEF h
<1> QED
  BY <1>2, <1>3, <1>4, <1>5, <1>6, <1>7 DEF Twin

LEMMA ReplayInitInv == ReplayInit => ReplayInv
<1> SUFFICES ASSUME ReplayInit PROVE ReplayInv
  OBVIOUS
<1>1. /\ deferred \in BOOLEAN /\ eager = InitEnc("encode") /\ cap = InitEnc("capture")
      /\ frames = <<>> /\ user = {} /\ placed = {} /\ streams = <<>>
      /\ outE = <<>> /\ outC = <<>> /\ ended = FALSE
  BY DEF ReplayInit
<1>2. eager \in Enc /\ cap \in Enc
  BY <1>1, EncFacts
<1>3. Fresh(eager) /\ Fresh([cap EXCEPT !.mode = "encode"]) /\ cap.mode = "capture"
      /\ cap.events = <<>> /\ ~cap.fatal
  BY <1>1 DEF Fresh, InitEnc
<1>4. Twin(eager, cap)
  BY <1>2, <1>3, TwinFresh
<1>5. ReplayTypes
  BY <1>1, <1>2, <1>3, EmptySeq DEF ReplayTypes
<1>6. Unplaced
  BY <1>1 DEF Unplaced
<1>7. Reading /\ Counted /\ Written
  BY <1>1, <1>3, <1>4, <1>6 DEF Reading, Counted, Written
<1> QED
  BY <1>5, <1>7 DEF ReplayInv

LEMMA ReadStep ==
  ASSUME ReplayInv, ~ended, cap.mode = "capture",
         UNCHANGED <<deferred, streams, at, outE, outC, ended>>,
         Twin(eager', cap'), Unplaced', frames' \in Seq(Frame),
         user' \subseteq Labels, placed' \subseteq user'
  PROVE  ReplayInv'
<1>1. eager' \in Enc /\ cap' \in Enc /\ ~cap'.fatal /\ cap'.mode = "capture"
  BY TwinFields
<1> QED
  BY <1>1 DEF ReplayInv, ReplayTypes, Reading, Counted, Written

\* What a step of the parser starts from.
LEMMA ReadFacts ==
  ASSUME ReplayInv, Step
  PROVE  /\ ~ended /\ cap.mode = "capture" /\ Twin(eager, cap) /\ Unplaced
         /\ eager.next \in 0 .. MaxLabels /\ eager.offset \in [Labels -> Place]
         /\ cap.exec = eager.exec /\ cap.next = eager.next
         /\ frames \in Seq(Frame) /\ user \subseteq Labels /\ placed \subseteq user
         /\ Len(frames) \in Nat /\ \A i \in 1 .. Len(frames) : frames[i] \in Frame
<1>1. ~ended /\ cap.mode = "capture"
  BY DEF Step, Capturing
<1>2. Twin(eager, cap) /\ Unplaced
  BY <1>1 DEF ReplayInv, Reading
<1>3. frames \in Seq(Frame) /\ user \subseteq Labels /\ placed \subseteq user
  BY DEF ReplayInv, ReplayTypes
<1> QED
  BY <1>1, <1>2, <1>3, TwinFields, LenProperties, ElementOfSeq

LEMMA PlainInv ==
  ASSUME ReplayInv, NEW op \in Kinds, PlainStatement(op)
  PROVE  ReplayInv'
<1>0. /\ Step /\ op \in Ops
      /\ eager' = Statement(eager, op, NoLabel) /\ cap' = Statement(cap, op, NoLabel)
      /\ UNCHANGED <<deferred, frames, user, placed, streams, at, outE, outC, ended>>
  BY DEF PlainStatement, Both, Ops
<1>1. NoLabel \in 0 .. eager.next
  BY <1>0, ReadFacts, LabelFacts
<1>2. Twin(eager', cap') /\ eager'.next = eager.next /\ eager'.offset = eager.offset
  BY <1>0, <1>1, ReadFacts, TwinStatement
<1>3. Unplaced'
  BY <1>0, <1>2, ReadFacts DEF Unplaced
<1> QED
  BY <1>0, <1>2, <1>3, ReadFacts, ReadStep

LEMMA BranchInv ==
  ASSUME ReplayInv, NEW op \in Kinds, NEW l \in Labels, BranchStatement(op, l)
  PROVE  ReplayInv'
<1>0. /\ Step /\ op \in Ops
      /\ l \in user \/ l = eager.next + 1
      /\ eager' = IF l \in user THEN Statement(eager, op, l) ELSE Statement(AllocLabel(eager), op, l)
      /\ cap' = IF l \in user THEN Statement(cap, op, l) ELSE Statement(AllocLabel(cap), op, l)
      /\ user' = user \cup {l}
      /\ UNCHANGED <<deferred, frames, placed, streams, at, outE, outC, ended>>
  BY DEF BranchStatement, Both, Ops
<1>1. Twin(eager, cap) /\ Unplaced /\ eager.next \in 0 .. MaxLabels /\ l \in 1 .. MaxLabels
      /\ eager.offset \in [Labels -> Place] /\ user \subseteq Labels
  BY <1>0, ReadFacts, LabelFacts
<1>2. CASE l \in user
  <2>1. l \in 0 .. eager.next
    BY <1>1, <1>2 DEF Unplaced
  <2>2. Twin(eager', cap') /\ eager'.next = eager.next /\ eager'.offset = eager.offset
    BY <1>0, <1>1, <1>2, <2>1, TwinStatement
  <2>3. user' = user
    BY <1>0, <1>2
  <2>4. Unplaced'
    BY <1>0, <1>1, <2>2, <2>3 DEF Unplaced
  <2> QED BY <1>0, <2>2, <2>3, <2>4, ReadFacts, ReadStep
<1>3. CASE l \notin user
  <2> DEFINE e == AllocLabel(eager)
             c == AllocLabel(cap)
  <2>1. l = eager.next + 1
    BY <1>0, <1>3
  <2>2. Twin(e, c) /\ e.next = l /\ e.offset = [eager.offset EXCEPT ![l] = -1]
    BY <1>1, <2>1, TwinAlloc
  <2> HIDE DEF e, c
  <2>3. l \in 0 .. e.next
    BY <1>1, <2>2
  <2>4. eager' = Statement(e, op, l) /\ cap' = Statement(c, op, l)
    BY <1>0, <1>3 DEF e, c
  <2>5. Twin(eager', cap') /\ eager'.next = l /\ eager'.offset = [eager.offset EXCEPT ![l] = -1]
    BY <1>0, <2>2, <2>3, <2>4, TwinStatement
  <2>6. Unplaced'
    <3>1. \A k \in user : k <= eager.next /\ k # l /\ k <= l
      BY <1>1, <2>1, LabelFacts DEF Unplaced
    <3>2. \A i \in 1 .. Len(frames) : frames[i].label <= eager.next /\ frames[i].label # l
                                      /\ frames[i].label <= l /\ frames[i].label \in Labels
      BY <1>0, <1>1, <2>1, ReadFacts, LabelFacts DEF Unplaced, Frame
    <3> QED BY <1>0, <1>1, <2>5, <3>1, <3>2 DEF Unplaced
  <2> QED BY <1>0, <2>5, <2>6, ReadFacts, ReadStep
<1> QED
  BY <1>2, <1>3

LEMMA LabelInv ==
  ASSUME ReplayInv, NEW l \in Labels, LabelStatement(l)
  PROVE  ReplayInv'
<1>0. /\ Step
      /\ l \in user \ placed \/ l = eager.next + 1
      /\ eager' = IF l \in user THEN AssembleLabel(eager, l) ELSE AssembleLabel(AllocLabel(eager), l)
      /\ cap' = IF l \in user THEN AssembleLabel(cap, l) ELSE AssembleLabel(AllocLabel(cap), l)
      /\ user' = user \cup {l} /\ placed' = placed \cup {l}
      /\ UNCHANGED <<deferred, frames, streams, at, outE, outC, ended>>
  BY DEF LabelStatement, Both
<1>1. Twin(eager, cap) /\ Unplaced /\ eager.next \in 0 .. MaxLabels /\ l \in 1 .. MaxLabels
      /\ eager.offset \in [Labels -> Place] /\ user \subseteq Labels
      /\ \A i \in 1 .. Len(frames) : frames[i].label \in Labels
  BY <1>0, ReadFacts, LabelFacts DEF Frame
<1>2. CASE l \in user
  <2>1. l \in 1 .. eager.next /\ l \in user \ placed
    BY <1>0, <1>1, <1>2 DEF Unplaced
  <2>2. Twin(eager', cap') /\ eager'.next = eager.next
        /\ \A k \in Labels \ {l} : eager'.offset[k] = eager.offset[k]
    BY <1>0, <1>1, <1>2, <2>1, TwinLabel DEF Unplaced
  <2>3. Unplaced'
    BY <1>0, <1>1, <1>2, <2>2 DEF Unplaced
  <2> QED BY <1>0, <2>2, <2>3, ReadFacts, ReadStep
<1>3. CASE l \notin user
  <2> DEFINE e == AllocLabel(eager)
             c == AllocLabel(cap)
  <2>1. l = eager.next + 1
    BY <1>0, <1>3
  <2>2. Twin(e, c) /\ e.next = l /\ e.offset = [eager.offset EXCEPT ![l] = -1]
    BY <1>1, <2>1, TwinAlloc
  <2>3. eager' = AssembleLabel(e, l) /\ cap' = AssembleLabel(c, l)
    BY <1>0, <1>3
  <2> HIDE DEF e, c
  <2>4. l \in 1 .. e.next /\ e.offset[l] = -1
    BY <1>1, <2>2
  <2>5. Twin(eager', cap') /\ eager'.next = l
        /\ \A k \in Labels \ {l} : eager'.offset[k] = eager.offset[k]
    BY <1>1, <2>2, <2>3, <2>4, TwinLabel
  <2>6. Unplaced'
    <3>1. \A k \in user : k <= eager.next /\ k # l /\ k <= l
      BY <1>1, <2>1, LabelFacts DEF Unplaced
    <3>2. \A i \in 1 .. Len(frames) : frames[i].label # l /\ frames[i].label <= l
      BY <1>1, <2>1, LabelFacts DEF Unplaced
    <3>3. \A k \in user' : k <= eager'.next
      BY <1>0, <1>1, <2>5, <3>1
    <3>4. \A k \in user' \ placed' : eager'.offset[k] = -1
      BY <1>0, <1>1, <2>5, <3>1 DEF Unplaced
    <3>5. \A i \in 1 .. Len(frames) :
            /\ frames[i].label <= eager'.next /\ frames[i].label \notin user'
            /\ eager'.offset[frames[i].label] = -1
      BY <1>0, <1>1, <2>5, <3>2 DEF Unplaced
    <3>6. \A i, j \in 1 .. Len(frames) : frames[i].label = frames[j].label => i = j
      BY <1>1 DEF Unplaced
    <3> QED BY <1>0, <3>3, <3>4, <3>5, <3>6 DEF Unplaced
  <2> QED BY <1>0, <2>5, <2>6, ReadFacts, ReadStep
<1> QED
  BY <1>2, <1>3

LEMMA OpenInv ==
  ASSUME ReplayInv, OpenIf
  PROVE  ReplayInv'
<1> DEFINE l == eager.next + 1
           f == [label |-> l, stmt |-> "ENTIRE" \in eager.exec, block |-> "ENTIRE" \in Enter(eager).exec]
<1>0. /\ Step /\ l \in Labels
      /\ eager' = Enter(Enter(Assemble(Enter(AllocLabel(eager)), "branch", l)))
      /\ cap' = Enter(Enter(Assemble(Enter(AllocLabel(cap)), "branch", l)))
      /\ frames' = Append(frames, f)
      /\ UNCHANGED <<deferred, user, placed, streams, at, outE, outC, ended>>
  BY DEF OpenIf, Both
<1>1. Twin(eager, cap) /\ Unplaced /\ eager.next \in 0 .. MaxLabels
      /\ eager.offset \in [Labels -> Place] /\ user \subseteq Labels
      /\ frames \in Seq(Frame) /\ Len(frames) \in Nat
      /\ \A i \in 1 .. Len(frames) : frames[i].label \in Labels
  BY <1>0, ReadFacts DEF Frame
<1>2. f \in Frame /\ f.label = l
  BY <1>0 DEF Frame
<1> HIDE DEF f
<1>3. /\ frames' \in Seq(Frame) /\ Len(frames') = Len(frames) + 1
      /\ frames'[Len(frames) + 1] = f
      /\ \A i \in 1 .. Len(frames) : frames'[i] = frames[i]
  BY <1>0, <1>1, <1>2, AppendProperties
<1> DEFINE e0 == AllocLabel(eager)
           c0 == AllocLabel(cap)
           e1 == Enter(e0)
           c1 == Enter(c0)
           e2 == Assemble(e1, "branch", l)
           c2 == Assemble(c1, "branch", l)
           e3 == Enter(e2)
           c3 == Enter(c2)
           o == [eager.offset EXCEPT ![l] = -1]
<1>4. Twin(e0, c0) /\ e0.next = l /\ e0.offset = o
  BY <1>0, <1>1, TwinAlloc
<1> HIDE DEF e0, c0, o
<1>5. Twin(e1, c1) /\ e1.next = l /\ e1.offset = o
  BY <1>4, TwinEnter
<1> HIDE DEF e1, c1
<1>6. Twin(e2, c2) /\ e2.next = l /\ e2.offset = o
  <2>1. l \in 0 .. e1.next /\ "branch" \in Ops
    BY <1>1, <1>5 DEF Ops
  <2> QED BY <1>5, <2>1, TwinAssemble
<1> HIDE DEF e2, c2
<1>7. Twin(e3, c3) /\ e3.next = l /\ e3.offset = o
  BY <1>6, TwinEnter
<1> HIDE DEF e3, c3
<1>8. Twin(Enter(e3), Enter(c3)) /\ Enter(e3).next = l /\ Enter(e3).offset = o
  BY <1>7, TwinEnter
<1>9. eager' = Enter(e3) /\ cap' = Enter(c3)
  BY <1>0 DEF e0, e1, e2, e3, c0, c1, c2, c3
<1>10. Twin(eager', cap') /\ eager'.next = l /\ eager'.offset = o
  BY <1>8, <1>9
<1>11. Unplaced'
  <2>1. \A k \in user : k <= eager.next /\ k # l /\ k <= l
    BY <1>1, LabelFacts DEF Unplaced
  <2>2. \A i \in 1 .. Len(frames) : frames[i].label # l /\ frames[i].label <= l
    BY <1>1, LabelFacts DEF Unplaced
  <2>3. \A i \in 1 .. Len(frames') : i \in 1 .. Len(frames) \/ (i = Len(frames) + 1 /\ frames'[i].label = l)
    BY <1>1, <1>2, <1>3
  <2>4. o[l] = -1 /\ \A k \in Labels \ {l} : o[k] = eager.offset[k]
    BY <1>0, <1>1 DEF o
  <2>5. \A k \in user' : k <= eager'.next /\ (k \notin placed' => eager'.offset[k] = -1)
    BY <1>0, <1>1, <1>10, <2>1, <2>4 DEF Unplaced
  <2>6. ASSUME NEW i \in 1 .. Len(frames')
        PROVE  /\ frames'[i].label <= eager'.next /\ frames'[i].label \notin user'
               /\ eager'.offset[frames'[i].label] = -1
    <3>1. CASE i \in 1 .. Len(frames)
      BY <1>0, <1>1, <1>3, <1>10, <2>2, <2>4, <3>1 DEF Unplaced
    <3>2. CASE frames'[i].label = l
      BY <1>0, <1>1, <1>10, <2>1, <2>4, <3>2
    <3> QED BY <2>3, <3>1, <3>2
  <2>7. ASSUME NEW i \in 1 .. Len(frames'), NEW j \in 1 .. Len(frames'),
               frames'[i].label = frames'[j].label
        PROVE  i = j
    BY <1>1, <1>3, <2>2, <2>3, <2>7 DEF Unplaced
  <2> QED BY <2>5, <2>6, <2>7 DEF Unplaced
<1> QED
  BY <1>0, <1>3, <1>10, <1>11, ReadFacts, ReadStep

LEMMA CloseInv ==
  ASSUME ReplayInv, CloseIf
  PROVE  ReplayInv'
<1> DEFINE n == Len(frames)
           f == frames[n]
           l == f.label
<1>0. /\ Step /\ frames # <<>>
      /\ eager' = Leave(AssembleForwardLabel(Leave(eager, f.block), l), f.stmt)
      /\ cap' = Leave(AssembleForwardLabel(Leave(cap, f.block), l), f.stmt)
      /\ frames' = SubSeq(frames, 1, n - 1)
      /\ UNCHANGED <<deferred, user, placed, streams, at, outE, outC, ended>>
  BY DEF CloseIf, Both
<1>1. Twin(eager, cap) /\ Unplaced /\ eager.next \in 0 .. MaxLabels
      /\ eager.offset \in [Labels -> Place] /\ user \subseteq Labels
      /\ frames \in Seq(Frame) /\ n \in Nat
      /\ \A i \in 1 .. n : frames[i] \in Frame /\ frames[i].label \in Labels
  BY <1>0, ReadFacts DEF Frame
<1>2. n \in 1 .. n
  BY <1>0, <1>1, EmptySeq
<1>3. l \in 1 .. eager.next /\ eager.offset[l] = -1 /\ l \in Labels
  BY <1>1, <1>2, LabelFacts DEF Unplaced
<1>4. frames' \in Seq(Frame) /\ Len(frames') = n - 1 /\ \A i \in 1 .. n - 1 : frames'[i] = frames[i]
  <2>1. 1 \in Int /\ n - 1 \in Int /\ n - 1 >= 0 /\ \A i \in 1 .. n - 1 : frames[i] \in Frame
    BY <1>1, <1>2
  <2> DEFINE m == n - 1
  <2> HIDE DEF m
  <2>2. /\ SubSeq(frames, 1, m) \in Seq(Frame)
        /\ Len(SubSeq(frames, 1, m)) = IF 1 <= m THEN m - 1 + 1 ELSE 0
        /\ \A i \in 1 .. m - 1 + 1 : SubSeq(frames, 1, m)[i] = frames[1 + i - 1]
    BY <2>1, SubSeqProperties DEF m
  <2>3. m \in Nat /\ 1 .. m - 1 + 1 = 1 .. m /\ \A i \in 1 .. m : 1 + i - 1 = i
    BY <2>1 DEF m
  <2>4. Len(SubSeq(frames, 1, m)) = m /\ \A i \in 1 .. m : SubSeq(frames, 1, m)[i] = frames[i]
    BY <2>2, <2>3
  <2> QED BY <1>0, <2>2, <2>4 DEF m
<1> DEFINE e1 == Leave(eager, f.block)
           c1 == Leave(cap, f.block)
           e2 == AssembleForwardLabel(e1, l)
           c2 == AssembleForwardLabel(c1, l)
<1>5. Twin(e1, c1) /\ e1.next = eager.next /\ e1.offset = eager.offset
  BY <1>1, TwinLeave
<1> HIDE DEF e1, c1
<1>6. Twin(e2, c2) /\ e2.next = eager.next
      /\ \A k \in Labels \ {l} : e2.offset[k] = eager.offset[k]
  <2>1. l \in 1 .. e1.next /\ e1.offset[l] = -1
    BY <1>3, <1>5
  <2> HIDE DEF l
  <2> QED BY <1>5, <2>1, TwinForward
<1> HIDE DEF e2, c2
<1>7. eager' = Leave(e2, f.stmt) /\ cap' = Leave(c2, f.stmt)
  BY <1>0 DEF e1, c1, e2, c2
<1>8. Twin(eager', cap') /\ eager'.next = eager.next
      /\ \A k \in Labels \ {l} : eager'.offset[k] = eager.offset[k]
  BY <1>6, <1>7, TwinLeave
<1>9. Unplaced'
  <2>1. \A k \in user' : k <= eager'.next /\ (k \notin placed' => eager'.offset[k] = -1)
    <3>1. l \notin user
      BY <1>1, <1>2 DEF Unplaced
    <3> QED BY <1>0, <1>1, <1>8, <3>1 DEF Unplaced
  <2>2. ASSUME NEW i \in 1 .. Len(frames')
        PROVE  /\ i \in 1 .. n /\ i # n /\ frames'[i] = frames[i]
               /\ frames'[i].label <= eager'.next /\ frames'[i].label \notin user'
               /\ eager'.offset[frames'[i].label] = -1
    <3>1. i \in 1 .. n /\ i # n /\ frames'[i] = frames[i]
      BY <1>1, <1>4
    <3>2. frames[i].label # l
      BY <1>1, <1>2, <3>1 DEF Unplaced
    <3> QED BY <1>0, <1>1, <1>8, <3>1, <3>2 DEF Unplaced
  <2>3. ASSUME NEW i \in 1 .. Len(frames'), NEW j \in 1 .. Len(frames'),
               frames'[i].label = frames'[j].label
        PROVE  i = j
    BY <1>1, <2>2, <2>3 DEF Unplaced
  <2> QED BY <2>1, <2>2, <2>3 DEF Unplaced
<1> QED
  BY <1>0, <1>4, <1>8, <1>9, ReadFacts, ReadStep

-----------------------------------------------------------------------------
(* The end of a routine and the replay.                                    *)

\* A replay starts at the start of the history.
LEMMA BeginFacts ==
  ASSUME NEW c \in Enc, ~c.fatal, c.code = <<>>, NEW res,
         Recorded(c.events, c.next, res), NEW atonce \in BOOLEAN,
         atonce => \A l \in 1 .. c.next : c.offset[l] = -1
  PROVE  BeginReplay(c) \in Enc /\ Replaying(BeginReplay(c), 1, res, atonce)
<1> DEFINE u == [l \in Labels |-> 0]
           c1 == BeginReplay(c)
<1>1. u \in [Labels -> Nat]
  OBVIOUS
<1>2. c1 = [c EXCEPT !.mode = "replay", !.use = u]
  BY DEF BeginReplay
<1> HIDE DEF u, c1
<1>3. /\ c1 \in Enc /\ c1.mode = "replay" /\ c1.use = u /\ c1.code = <<>> /\ ~c1.fatal
      /\ c1.events = c.events /\ c1.next = c.next /\ c1.offset = c.offset
  BY <1>1, <1>2 DEF Enc
<1>4. PICK h : IsLog(c.events, c.next, h) /\ res = Result(h[Len(c.events)])
  BY DEF Recorded
<1>5. h[1 - 1] = Start /\ Len(c.events) \in Nat
  BY <1>4, LenProperties DEF IsLog
<1>6. /\ c1.code = h[1 - 1].code /\ c1.use = h[1 - 1].use
      /\ \A l \in Labels : h[1 - 1].off[l] = -1
  BY <1>3, <1>5 DEF Start, u
<1>7. 1 \in 1 .. Len(c1.events) + 1
  BY <1>3, <1>5
<1> QED
  BY <1>3, <1>4, <1>6, <1>7 DEF Replaying, c1

LEMMA EndRoutineInv ==
  ASSUME ReplayInv, EndRoutine
  PROVE  ReplayInv'
<1> DEFINE e == ImplicitReturn(eager)
           c == ImplicitReturn(cap)
           x == TransferredCode(e)
<1>0. /\ ~ended /\ cap.mode = "capture" /\ frames = <<>>
      /\ outE' = Append(outE, x) /\ eager' = Reset(e)
      /\ user' = {} /\ placed' = {}
      /\ UNCHANGED <<deferred, frames, outC, ended>>
      /\ deferred => /\ streams' = Append(streams, [events |-> c.events, next |-> c.next])
                     /\ cap' = Reset(c)
      /\ ~deferred => cap' = BeginReplay(c) /\ at' = 1 /\ streams' = streams
  BY DEF EndRoutine, Capturing
<1>1. ReplayTypes /\ Counted /\ Written /\ Twin(eager, cap)
  BY <1>0 DEF ReplayInv, Reading
<1>2. Twin(e, c)
  BY <1>1, TwinReturn
<1> HIDE DEF e, c
<1>3. e \in Enc /\ c \in Enc /\ e.mode = "encode" /\ c.mode = "capture" /\ ~e.fatal /\ ~c.fatal
      /\ c.code = <<>> /\ c.next \in 0 .. MaxLabels /\ c.events \in Seq(Event)
      /\ \A l \in 1 .. c.next : c.offset[l] = -1
  BY <1>2, TwinFields
<1>4. x \in Output /\ Recorded(c.events, c.next, x)
  BY <1>2, <1>3, TransferType, TwinTransfer
<1> HIDE DEF x
<1>5. /\ outE' \in Seq(Output) /\ Len(outE') = Len(outE) + 1 /\ outE'[Len(outE) + 1] = x
      /\ \A i \in 1 .. Len(outE) : outE'[i] = outE[i]
      /\ Len(outE) \in Nat /\ Len(outC) \in Nat /\ Len(streams) \in Nat
  BY <1>0, <1>1, <1>4, AppendProperties, LenProperties DEF ReplayTypes
<1>6. eager' \in Enc /\ Fresh(eager')
  BY <1>0, <1>3, EncFacts DEF Fresh
<1>7. \A i \in 1 .. Len(outC) : i \in 1 .. Len(outE)
  BY <1>1, <1>5, <1>0 DEF Counted
<1>8. CASE deferred
  <2> DEFINE d == [events |-> c.events, next |-> c.next]
  <2>1. cap' \in Enc /\ cap'.mode = "capture" /\ cap'.events = <<>> /\ ~cap'.fatal
        /\ cap'.exec = {} /\ cap'.next = 0 /\ cap'.use = [l \in Labels |-> 0] /\ cap'.code = <<>>
    BY <1>0, <1>3, <1>8, EncFacts
  <2>2. Twin(eager', cap')
    <3>1. Fresh([cap' EXCEPT !.mode = "encode"])
      BY <2>1 DEF Fresh, Enc
    <3> QED BY <1>6, <2>1, <3>1, TwinFresh
  <2>3. d \in Stream /\ d.events = c.events /\ d.next = c.next
    BY <1>3 DEF Stream
  <2> HIDE DEF d
  <2>4. /\ streams' \in Seq(Stream) /\ Len(streams') = Len(streams) + 1
        /\ streams'[Len(streams) + 1] = d
        /\ \A i \in 1 .. Len(streams) : streams'[i] = streams[i]
    <3>1. streams' = Append(streams, d) /\ streams \in Seq(Stream)
      BY <1>0, <1>1, <1>8 DEF ReplayTypes, d
    <3> QED BY <2>3, <3>1, AppendProperties
  <2>5. Len(streams) = Len(outE)
    BY <1>1, <1>8 DEF Counted
  <2>6. ReplayTypes'
    BY <1>0, <1>1, <1>5, <1>6, <2>1, <2>4 DEF ReplayTypes
  <2>7. Unplaced'
    BY <1>0 DEF Unplaced
  <2>8. Reading'
    BY <2>1, <2>2, <2>7 DEF Reading
  <2>9. Counted'
    BY <1>0, <1>1, <1>5, <1>8, <2>1, <2>4, <2>5 DEF Counted
  <2>10. \A i \in 1 .. Len(streams') : Recorded(streams'[i].events, streams'[i].next, outE'[i])
    <3>1. \A i \in 1 .. Len(streams') : i \in 1 .. Len(streams) \/ i = Len(streams) + 1
      BY <1>5, <2>4
    <3>2. \A i \in 1 .. Len(streams) : Recorded(streams[i].events, streams[i].next, outE[i])
      BY <1>1 DEF Written
    <3> QED BY <1>4, <1>5, <2>3, <2>4, <2>5, <3>1, <3>2
  <2>11. Written'
    BY <1>0, <1>1, <1>5, <1>7, <2>1, <2>10 DEF Written
  <2> QED BY <2>6, <2>8, <2>9, <2>11 DEF ReplayInv
<1>9. CASE ~deferred
  <2>1. cap' \in Enc /\ Replaying(cap', 1, x, TRUE)
    BY <1>0, <1>3, <1>4, <1>9, BeginFacts
  <2>2. cap'.mode = "replay" /\ ~cap'.fatal
    BY <2>1 DEF Replaying
  <2>3. streams = <<>> /\ Len(outE) = Len(outC)
    BY <1>0, <1>1, <1>9 DEF Counted
  <2>4. ReplayTypes'
    BY <1>0, <1>1, <1>5, <1>6, <1>9, <2>1, <2>2 DEF ReplayTypes
  <2>5. Reading'
    BY <1>0, <1>6, <2>2 DEF Reading
  <2>6. Counted'
    BY <1>0, <1>5, <1>9, <2>2, <2>3 DEF Counted
  <2>7. Written'
    <3>1. Replaying(cap', at', outE'[Len(outC') + 1], ~deferred')
      BY <1>0, <1>5, <1>9, <2>1, <2>3
    <3>2. \A i \in 1 .. Len(outC') : outE'[i] = outE[i] /\ outC'[i] = outC[i]
      BY <1>0, <1>5, <1>7
    <3>3. streams' = <<>> /\ Len(streams') = 0
      BY <1>0, <1>9, <2>3
    <3>4. /\ \A i \in 1 .. Len(outC') :
               /\ outE'[i].errors = {} => outC'[i] = outE'[i]
               /\ ~deferred' => outC'[i].errors = outE'[i].errors
      BY <1>0, <1>1, <3>2 DEF Written
    <3>5. \A i \in 1 .. Len(streams') : FALSE
      BY <3>3
    <3> QED BY <3>1, <3>4, <3>5 DEF Written
  <2> QED BY <2>4, <2>5, <2>6, <2>7 DEF ReplayInv
<1> QED
  BY <1>8, <1>9

\* A replay of an event takes the encoder to the next snapshot.
LEMMA ReplayEventStep ==
  ASSUME NEW c, NEW k \in 1 .. Len(c.events), NEW res, NEW atonce, Replaying(c, k, res, atonce)
  PROVE  Replaying(ReplayEvent(c, c.events[k]), k + 1, res, atonce)
<1> DEFINE ev == c.events[k]
           e1 == [c EXCEPT !.exec = ev.exec]
           c1 == ReplayEvent(c, ev)
<1>1. PICK h : /\ IsLog(c.events, c.next, h)
               /\ res = Result(h[Len(c.events)])
               /\ c.code = h[k - 1].code /\ c.use = h[k - 1].use
               /\ \A l \in Labels : h[k - 1].off[l] # -1 => c.offset[l] = h[k - 1].off[l]
               /\ atonce => \A l \in 1 .. c.next : h[k - 1].off[l] = -1 => c.offset[l] = -1
  BY DEF Replaying
<1>2. c \in Enc /\ c.mode = "replay" /\ ~c.fatal /\ c.next \in 0 .. MaxLabels
      /\ Len(c.events) \in Nat /\ k + 1 \in 1 .. Len(c.events) + 1 /\ k \in 0 .. Len(c.events)
      /\ k - 1 \in 0 .. Len(c.events) /\ c.offset \in [Labels -> Place] /\ c.use \in [Labels -> Nat]
      /\ c.code \in Seq(Instr)
  <2>1. c \in Enc /\ c.mode = "replay" /\ ~c.fatal
    BY DEF Replaying
  <2>2. c.next \in 0 .. MaxLabels /\ c.offset \in [Labels -> Place] /\ c.use \in [Labels -> Nat]
        /\ c.code \in Seq(Instr) /\ c.events \in Seq(Event)
    BY <2>1 DEF Enc
  <2>3. Len(c.events) \in Nat
    BY <2>2, LenProperties
  <2> QED BY <2>1, <2>2, <2>3
<1> DEFINE s == h[k - 1]
           t == h[k]
<1>3. s \in Snapshot /\ t = Apply(s, ev) /\ Good(ev, c.next)
  BY <1>1, <1>2 DEF IsLog
<1>4. /\ c.code = s.code /\ c.use = s.use
      /\ \A l \in Labels : s.off[l] # -1 => c.offset[l] = s.off[l]
      /\ atonce => \A l \in 1 .. c.next : s.off[l] = -1 => c.offset[l] = -1
      /\ s.off \in [Labels -> Place]
  BY <1>1, <1>3 DEF Snapshot
<1> DEFINE Moved ==
      /\ c1 \in Enc /\ c1.mode = "replay" /\ ~c1.fatal
      /\ c1.events = c.events /\ c1.next = c.next
      /\ c1.code = t.code /\ c1.use = t.use
      /\ \A l \in Labels : t.off[l] # -1 => c1.offset[l] = t.off[l]
      /\ atonce => \A l \in 1 .. c.next : t.off[l] = -1 => c1.offset[l] = -1
<1> HIDE DEF s, t
<1>5. ev \in Event /\ ev.exec \in SUBSET Flags /\ ev.label \in 0 .. c.next
      /\ ev.label \in 0 .. MaxLabels /\ ev.op \in Ops
  BY <1>2, <1>3, LabelFacts DEF Good, Event
<1>6. ASSUME ev.kind = "label" PROVE Moved
  <2> DEFINE l == ev.label
             n == Len(c.code)
             o == [c.offset EXCEPT ![l] = n]
  <2>1. l \in Labels /\ ~(l > c.next) /\ "ENTIRE" \notin ev.exec
    BY <1>2, <1>3, <1>5, <1>6, LabelFacts DEF Good
  <2>2. n \in Nat /\ o \in [Labels -> Place] /\ o[l] = n /\ \A m \in Labels \ {l} : o[m] = c.offset[m]
    BY <1>2, <2>1, LenProperties DEF Place
  <2> HIDE DEF ev
  <2>3. /\ e1 \in Enc /\ e1.exec = ev.exec /\ e1.mode = "replay" /\ e1.next = c.next
        /\ e1.code = c.code /\ e1.offset = c.offset
    BY <1>2, <1>5 DEF Enc
  <2>4. c1 = [SetLabelOffset(e1, l, Len(e1.code)) EXCEPT !.exec = {}]
    <3> HIDE DEF e1
    <3>1. c1 = AssembleLabel(e1, l)
      BY <1>6 DEF ReplayEvent, e1
    <3> QED BY <2>1, <2>3, <3>1 DEF AssembleLabel, Stripped, Capturing
  <2>5. SetLabelOffset(e1, l, Len(e1.code)) = [c EXCEPT !.exec = ev.exec, !.offset = o]
    BY <1>2, <2>1, <2>3 DEF SetLabelOffset, Enc
  <2> HIDE DEF o, l, n, c1
  <2>6. c1 = [c EXCEPT !.exec = {}, !.offset = o]
    BY <1>2, <2>4, <2>5 DEF Enc
  <2>7. /\ c1 \in Enc /\ c1.mode = "replay" /\ ~c1.fatal /\ c1.events = c.events
        /\ c1.next = c.next /\ c1.code = c.code /\ c1.use = c.use /\ c1.offset = o
    BY <1>2, <2>2, <2>6 DEF Enc
  <2>8. t.code = s.code /\ t.use = s.use /\ t.off = [s.off EXCEPT ![l] = n]
    BY <1>3, <1>4, <1>5, <1>6, <2>1, ApplyLabel DEF l, n
  <2>9. t.off[l] = n /\ \A m \in Labels \ {l} : t.off[m] = s.off[m]
    BY <1>4, <2>1, <2>8
  <2>10. n # -1 /\ 1 .. c.next \subseteq Labels
    BY <1>2, <2>2, LabelFacts
  <2> QED BY <1>4, <2>1, <2>2, <2>7, <2>8, <2>9, <2>10
<1>7. ASSUME ev.kind = "instruction" PROVE Moved
  <2> DEFINE i == [op |-> ev.op, label |-> ev.label]
             x == IF ev.op \in {"return", "jump"} THEN {"UNREACHABLE"} ELSE {}
             u == CountUse(c.use, ev.label)
             d == Append(c.code, i)
  <2>1. ev.exec = {}
    BY <1>3, <1>7 DEF Good
  <2>2. x \in SUBSET Flags /\ u \in [Labels -> Nat] /\ i \in Instr
    BY <1>2, <1>5, CountUseType DEF Flags, Instr
  <2>3. d \in Seq(Instr)
    BY <1>2, <2>2, AppendProperties
  <2> HIDE DEF ev
  <2>4. /\ e1 \in Enc /\ e1.exec = {} /\ e1.mode = "replay" /\ e1.use = c.use /\ e1.code = c.code
    BY <1>2, <1>5, <2>1 DEF Enc
  <2>5. NoteInstruction(e1, ev.op, ev.label) = [c EXCEPT !.exec = x, !.use = u]
    BY <1>2, <2>4 DEF NoteInstruction, Enc
  <2>6. c1 = [NoteInstruction(e1, ev.op, ev.label) EXCEPT !.code = Append(@, i)]
    <3> HIDE DEF e1
    <3>1. c1 = Assemble(e1, ev.op, ev.label)
      BY <1>7 DEF ReplayEvent, e1
    <3> QED BY <2>4, <3>1 DEF Assemble, Capturing
  <2> HIDE DEF x, u, i, c1
  <2>7. c1 = [c EXCEPT !.exec = x, !.use = u, !.code = d]
    BY <1>2, <2>5, <2>6 DEF Enc
  <2> HIDE DEF d
  <2>8. /\ c1 \in Enc /\ c1.mode = "replay" /\ ~c1.fatal /\ c1.events = c.events
        /\ c1.next = c.next /\ c1.code = d /\ c1.use = u /\ c1.offset = c.offset
    BY <1>2, <2>2, <2>3, <2>7 DEF Enc
  <2>9. t.code = d /\ t.use = u /\ t.off = s.off
    BY <1>3, <1>4, <1>5, <1>7, ApplyInstruction DEF d, u, i
  <2> QED BY <1>4, <2>8, <2>9
<1>8. Moved
  BY <1>5, <1>6, <1>7 DEF Event
<1>9. h[k + 1 - 1] = t
  BY <1>2 DEF t
<1> HIDE DEF c1
<1>10. Replaying(c1, k + 1, res, atonce)
  BY <1>1, <1>2, <1>8, <1>9 DEF Replaying
<1> QED
  BY <1>10 DEF c1

\* What a replay starts each of its steps from.
LEMMA ReplayFacts ==
  ASSUME ReplayInv, ~Capturing(cap)
  PROVE  /\ cap.mode = "replay" /\ cap \in Enc /\ ~cap.fatal
         /\ Replaying(cap, at, outE[Len(outC) + 1], ~deferred)
         /\ DOMAIN cap.events = 1 .. Len(cap.events) /\ Len(cap.events) \in Nat
         /\ at \in 1 .. Len(cap.events) + 1
         /\ ~ended => Fresh(eager) /\ frames = <<>> /\ user = {} /\ ~deferred
<1>1. cap.mode = "replay" /\ cap \in Enc /\ ~cap.fatal
  BY DEF ReplayInv, ReplayTypes, Capturing
<1>2. Replaying(cap, at, outE[Len(outC) + 1], ~deferred)
  BY <1>1 DEF ReplayInv, Written
<1>3. cap.events \in Seq(Event)
  BY <1>1 DEF Enc
<1>4. ~ended => Fresh(eager) /\ frames = <<>> /\ user = {} /\ ~deferred
  BY <1>1 DEF ReplayInv, Reading, Counted
<1> QED
  BY <1>1, <1>2, <1>3, <1>4, LenProperties DEF Replaying

LEMMA ReplayStepInv ==
  ASSUME ReplayInv, ReplayStep
  PROVE  ReplayInv'
<1> DEFINE res == outE[Len(outC) + 1]
<1>0. /\ ~Capturing(cap) /\ at \in DOMAIN cap.events
      /\ cap' = ReplayEvent(cap, cap.events[at]) /\ at' = at + 1
      /\ UNCHANGED <<deferred, eager, frames, user, placed, streams, outE, outC, ended>>
  BY DEF ReplayStep
<1>1. Replaying(cap, at, res, ~deferred) /\ at \in 1 .. Len(cap.events)
  BY <1>0, ReplayFacts
<1> HIDE DEF res
<1>2. Replaying(cap', at', res, ~deferred)
  BY <1>0, <1>1, ReplayEventStep
<1>3. cap' \in Enc /\ cap'.mode = "replay" /\ ~cap'.fatal
  BY <1>2 DEF Replaying
<1>4. cap.mode = "replay" /\ (~ended => Fresh(eager) /\ frames = <<>> /\ user = {} /\ ~deferred)
  BY <1>0, ReplayFacts
<1>5. ReplayTypes' /\ Reading' /\ Counted'
  BY <1>0, <1>3, <1>4 DEF ReplayInv, ReplayTypes, Reading, Counted
<1>6. Written'
  BY <1>0, <1>2, <1>3 DEF ReplayInv, Written, res
<1> QED
  BY <1>5, <1>6 DEF ReplayInv

LEMMA EndReplayInv ==
  ASSUME ReplayInv, EndReplay
  PROVE  ReplayInv'
<1> DEFINE n == Len(outC)
           res == outE[n + 1]
           y == TransferredCode(cap)
<1>0. /\ ~Capturing(cap) /\ at \notin DOMAIN cap.events
      /\ outC' = Append(outC, y)
      /\ cap' = [Reset(cap) EXCEPT !.mode = "capture"] /\ at' = 0
      /\ UNCHANGED <<deferred, eager, frames, user, placed, streams, outE, ended>>
  BY DEF EndReplay
<1>1. /\ cap.mode = "replay" /\ cap \in Enc /\ ~cap.fatal
      /\ Replaying(cap, Len(cap.events) + 1, res, ~deferred)
      /\ ~ended => Fresh(eager) /\ frames = <<>> /\ user = {} /\ ~deferred
  <2>1. at = Len(cap.events) + 1
    BY <1>0, ReplayFacts
  <2> HIDE DEF res
  <2> QED BY <1>0, <2>1, ReplayFacts DEF res
<1>2. y \in Output /\ (res.errors = {} => y = res) /\ (~deferred => y = res)
  <2> HIDE DEF res
  <2> QED BY <1>1, TransferType, ReplayTransfer
<1> HIDE DEF y
<1>3. outC \in Seq(Output) /\ n \in Nat /\ Counted /\ Written /\ ReplayTypes
  BY LenProperties DEF ReplayInv, ReplayTypes
<1>4. /\ outC' \in Seq(Output) /\ Len(outC') = n + 1 /\ outC'[n + 1] = y
      /\ \A i \in 1 .. n : outC'[i] = outC[i]
  BY <1>0, <1>2, <1>3, AppendProperties
<1>5. /\ cap' \in Enc /\ cap'.mode = "capture" /\ ~cap'.fatal /\ cap'.events = <<>>
      /\ cap'.exec = {} /\ cap'.next = 0 /\ cap'.use = [l \in Labels |-> 0] /\ cap'.code = <<>>
  <2> DEFINE e == Reset(cap)
  <2>1. /\ e \in Enc /\ e.exec = {} /\ e.next = 0 /\ e.use = [l \in Labels |-> 0] /\ e.code = <<>>
        /\ e.events = <<>> /\ ~e.fatal
    BY <1>1, EncFacts
  <2> HIDE DEF e
  <2> QED BY <1>0, <2>1 DEF Enc, e
<1>6. ReplayTypes'
  BY <1>0, <1>3, <1>4, <1>5 DEF ReplayTypes
<1>7. Reading'
  <2> SUFFICES ASSUME ~ended PROVE Twin(eager', cap') /\ Unplaced'
    BY <1>0, <1>5 DEF Reading
  <2>1. eager \in Enc /\ Fresh(eager) /\ frames = <<>> /\ user = {} /\ placed = {}
    BY <1>1, <1>3 DEF ReplayTypes
  <2>2. Fresh([cap' EXCEPT !.mode = "encode"])
    BY <1>5 DEF Fresh, Enc
  <2>3. Twin(eager, cap')
    BY <1>5, <2>1, <2>2, TwinFresh
  <2>4. Unplaced'
    BY <1>0, <2>1 DEF Unplaced
  <2> QED BY <1>0, <2>3, <2>4
<1>8. Counted'
  <2>1. Len(outE) \in Nat
    BY <1>3, LenProperties DEF ReplayTypes
  <2> QED BY <1>0, <1>1, <1>3, <1>4, <1>5, <2>1 DEF Counted
<1>9. Written'
  <2>1. \A i \in 1 .. Len(outC') :
          /\ outE'[i].errors = {} => outC'[i] = outE'[i]
          /\ ~deferred' => outC'[i].errors = outE'[i].errors
    <3>1. \A i \in 1 .. Len(outC') : i \in 1 .. n \/ i = n + 1
      BY <1>3, <1>4
    <3>2. \A i \in 1 .. n : /\ outE'[i].errors = {} => outC'[i] = outE'[i]
                            /\ ~deferred' => outC'[i].errors = outE'[i].errors
      BY <1>0, <1>3, <1>4 DEF Written
    <3>3. /\ outE'[n + 1].errors = {} => outC'[n + 1] = outE'[n + 1]
          /\ ~deferred' => outC'[n + 1].errors = outE'[n + 1].errors
      BY <1>0, <1>2, <1>4
    <3> QED BY <3>1, <3>2, <3>3
  <2>2. cap'.mode # "replay"
    BY <1>5
  <2>3. \A i \in 1 .. Len(streams') : Recorded(streams'[i].events, streams'[i].next, outE'[i])
    BY <1>0, <1>3 DEF Written
  <2> QED BY <2>1, <2>2, <2>3 DEF Written
<1> QED
  BY <1>6, <1>7, <1>8, <1>9 DEF ReplayInv

LEMMA EndSourceInv ==
  ASSUME ReplayInv, EndSource
  PROVE  ReplayInv'
BY DEF EndSource, ReplayInv, ReplayTypes, Reading, Counted, Written, Capturing

LEMMA EmitInv ==
  ASSUME ReplayInv, EmitDeferred
  PROVE  ReplayInv'
<1> DEFINE n == Len(outC) + 1
           d == streams[n]
           c == Restore(cap, d)
<1>0. /\ ended /\ deferred /\ cap.mode = "capture" /\ Len(outC) < Len(streams)
      /\ cap' = BeginReplay(c) /\ at' = 1
      /\ UNCHANGED <<deferred, eager, frames, user, placed, streams, outE, outC, ended>>
  BY DEF EmitDeferred, Capturing
<1>1. ReplayTypes /\ Counted /\ Written /\ Len(streams) \in Nat /\ Len(outC) \in Nat
  BY LenProperties DEF ReplayInv, ReplayTypes
<1>2. n \in 1 .. Len(streams)
  BY <1>0, <1>1
<1>3. d \in Stream /\ Recorded(d.events, d.next, outE[n])
  BY <1>1, <1>2, ElementOfSeq DEF ReplayTypes, Written
<1>4. /\ c \in Enc /\ ~c.fatal /\ c.code = <<>> /\ c.events = d.events /\ c.next = d.next
  <2> DEFINE e == Reset(cap)
  <2>1. e \in Enc /\ e.code = <<>> /\ ~e.fatal
    BY <1>1, EncFacts DEF ReplayTypes
  <2>2. c = [e EXCEPT !.events = d.events, !.next = d.next]
    BY DEF Restore
  <2>3. d.events \in Seq(Event) /\ d.next \in 0 .. MaxLabels
    BY <1>3 DEF Stream
  <2> HIDE DEF e, c, d
  <2> QED BY <2>1, <2>2, <2>3 DEF Enc
<1> HIDE DEF c, d
<1>5. cap' \in Enc /\ Replaying(cap', 1, outE[n], FALSE)
  BY <1>0, <1>3, <1>4, BeginFacts
<1>6. cap'.mode = "replay" /\ ~cap'.fatal
  BY <1>5 DEF Replaying
<1>7. ReplayTypes' /\ Reading' /\ Counted'
  BY <1>0, <1>1, <1>5, <1>6 DEF ReplayTypes, Reading, Counted
<1>8. Written'
  <2>1. Replaying(cap', at', outE'[Len(outC') + 1], ~deferred')
    BY <1>0, <1>5
  <2> QED BY <1>0, <1>1, <2>1 DEF Written
<1> QED
  BY <1>7, <1>8 DEF ReplayInv

-----------------------------------------------------------------------------
(* The theorems.                                                           *)

\* Every step of the parser, of the replay and of the end of the pass keeps the
\* eager encoder at the end of the log of what has been captured, and a replay
\* on the way along its log (asm.c:1062, 2205, 2404).
THEOREM ReplayInvariant == ReplaySpec => []ReplayInv
<1>1. ReplayInv /\ [ReplayNext]_replayVars => ReplayInv'
  <2> SUFFICES ASSUME ReplayInv, [ReplayNext]_replayVars PROVE ReplayInv'
    OBVIOUS
  <2>1. CASE \E op \in Kinds : PlainStatement(op)
    BY <2>1, PlainInv
  <2>2. CASE \E op \in Kinds, l \in Labels : BranchStatement(op, l)
    BY <2>2, BranchInv
  <2>3. CASE \E l \in Labels : LabelStatement(l)
    BY <2>3, LabelInv
  <2>4. CASE OpenIf
    BY <2>4, OpenInv
  <2>5. CASE CloseIf
    BY <2>5, CloseInv
  <2>6. CASE EndRoutine
    BY <2>6, EndRoutineInv
  <2>7. CASE ReplayStep
    BY <2>7, ReplayStepInv
  <2>8. CASE EndReplay
    BY <2>8, EndReplayInv
  <2>9. CASE EndSource
    BY <2>9, EndSourceInv
  <2>10. CASE EmitDeferred
    BY <2>10, EmitInv
  <2>11. CASE UNCHANGED replayVars
    BY <2>11 DEF replayVars, ReplayInv, ReplayTypes, Reading, Unplaced, Counted, Written
  <2> QED
    BY <2>1, <2>2, <2>3, <2>4, <2>5, <2>6, <2>7, <2>8, <2>9, <2>10, <2>11 DEF ReplayNext
<1> QED
  BY <1>1, ReplayInitInv, PTL DEF ReplaySpec

\* No run of a capturing compile gives the parser an answer that an encoding
\* compile would not: what follows is reached by the same statements, with as
\* many labels and as many uses of each (asm.c:1062).
THEOREM ReplayParserAgrees == ReplaySpec => []ParserAgrees
<1>1. ReplayInv => ParserAgrees
  BY TwinFields DEF ReplayInv, Reading, ParserAgrees, Capturing
<1> QED
  BY <1>1, ReplayInvariant, PTL

\* What the replays have transferred is what encoding at once transfers, for
\* the routines it transfers without an error; replayed at the end of each
\* routine, its errors are the same too (asm.c:2270, 2210).
THEOREM ReplaySameCode == ReplaySpec => []ReplayIsEager
<1>1. ReplayInv => ReplayIsEager
  <2> SUFFICES ASSUME ReplayInv PROVE ReplayIsEager
    OBVIOUS
  <2>1. DOMAIN outC = 1 .. Len(outC)
    BY LenProperties DEF ReplayInv, ReplayTypes
  <2> QED BY <2>1 DEF ReplayInv, Written, ReplayIsEager
<1> QED
  BY <1>1, ReplayInvariant, PTL

=============================================================================
