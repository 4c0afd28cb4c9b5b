---------------------------- MODULE DcacheProofs ----------------------------
(* For every number of lines, rows, ways and values, every mix of requests   *)
(* and every write of the other masters: the requests of the data cache are  *)
(* answered once and in order, its bus accesses are all accounted for, and   *)
(* no line is in two ways.                                                   *)
EXTENDS DcacheSteps, FiniteSetTheorems, SequenceTheorems

(* A sequence over any set is a sequence of its own elements. *)
LEMMA Sequence ==
    ASSUME NEW S, NEW s \in Seq(S)
    PROVE  IsSeq(s) /\ Len(s) \in Nat /\ DOMAIN s = 1..Len(s)
  <1> DEFINE T == {s[i] : i \in DOMAIN s}
  <1>1. Len(s) \in Nat /\ DOMAIN s = 1..Len(s) OBVIOUS
  <1>2. s \in [1..Len(s) -> T] BY <1>1
  <1>3. s \in Seq(T) BY <1>1, <1>2, SeqDef
  <1> QED BY <1>1, <1>3 DEF IsSeq

(* The bus answers an access, takes e, or both. *)
Shifts(s, t, ack, add, e) ==
    /\ IsSeq(s) /\ ack \in BOOLEAN /\ (ack => s # <<>>) /\ add \in BOOLEAN
    /\ t = (IF ack THEN Tail(s) ELSE s) \o (IF add THEN <<e>> ELSE <<>>)

(* The accesses on the bus after an edge. *)
LEMMA BusMoves ==
    ASSUME NEW s, NEW t, NEW ack, NEW add, NEW e, Shifts(s, t, ack, add, e)
    PROVE  /\ IsSeq(t) /\ Len(s) \in Nat /\ (ack => Len(s) > 0)
           /\ Len(t) \in Nat /\ Len(t) = Len(s) - One(ack) + One(add)
  <1> DEFINE S == {s[i] : i \in DOMAIN s}
             T == S \cup {e}
             a == IF ack THEN Tail(s) ELSE s
             b == IF add THEN <<e>> ELSE <<>>
  <1> USE DEF Shifts
  <1>1. s \in Seq(S) BY DEF IsSeq
  <1> HIDE DEF S
  <1>2. s \in Seq(T) BY <1>1
  <1>3. /\ a \in Seq(T) /\ Len(s) \in Nat /\ (ack => Len(s) > 0) /\ Len(a) \in Nat
        /\ Len(a) = Len(s) - One(ack)
    BY <1>2 DEF One
  <1>4. b \in Seq(T) /\ Len(b) = One(add)
    <2>1. CASE add
      <3>1. b = <<e>> /\ e \in T BY <2>1
      <3> HIDE DEF T, b
      <3>2. <<e>> \in Seq(T) /\ Len(<<e>>) = 1 BY <3>1
      <3> QED BY <2>1, <3>1, <3>2 DEF One
    <2>2. CASE ~add BY <2>2 DEF One
    <2> QED BY <2>1, <2>2
  <1>5. t = a \o b OBVIOUS
  <1> HIDE DEF a, b, T
  <1>6. t \in Seq(T) /\ Len(t) = Len(a) + Len(b) /\ Len(b) \in Nat
    <2>1. a \o b \in Seq(T) /\ Len(a \o b) = Len(a) + Len(b) BY <1>3, <1>4, ConcatProperties, Zenon
    <2>2. Len(b) \in Nat BY <1>4
    <2> QED BY <1>5, <2>1, <2>2, Zenon
  <1>7. IsSeq(t) /\ Len(t) \in Nat BY <1>6, Sequence, Zenon
  <1> QED BY <1>3, <1>4, <1>6, <1>7, Zenon DEF One

Line(x) == [op |-> x.op, mmu |-> x.mmu]
Rest == IF Answers /\ asked # <<>> THEN Tail(asked) ELSE asked

(* What is left of the queue once the answer of this cycle is out. *)
LEMMA Resting ==
    ASSUME IInv
    PROVE  /\ Rest \in Seq(Asked) /\ Answers \in BOOLEAN /\ (r1.full => ~Answers)
           /\ r1.full => Rest = asked /\ Len(asked) = One(r0.op # "none") + 1
           /\ ~r1.full => /\ Len(Rest) = One(r0.op # "none")
                          /\ r0.op # "none" => Rest[1] = Line(r0)
  <1>1. /\ asked \in Seq(Asked) /\ Len(asked) = One(r0.op # "none") + One(r1.full \/ Answers)
        /\ r1.full => NoAnswer(r1)
        /\ r0.op # "none" => asked[Len(asked)] = Line(r0)
    BY DEF IInv, Queue, Line
  <1>2. Answers \in BOOLEAN /\ (r1.full => ~Answers) /\ r1.full \in BOOLEAN
    BY <1>1 DEF Answers, NoAnswer, IInv, Bits
  <1>3. CASE Answers
    <2>1. Len(asked) = One(r0.op # "none") + 1 /\ ~r1.full BY <1>1, <1>2, <1>3 DEF One
    <2>2. asked # <<>> BY <1>1, <2>1 DEF One
    <2>3. Rest = Tail(asked) BY <1>3, <2>2 DEF Rest
    <2>4. Rest \in Seq(Asked) /\ Len(Rest) = Len(asked) - 1 BY <1>1, <2>2, <2>3
    <2>5. Len(Rest) = One(r0.op # "none") BY <2>1, <2>4 DEF One
    <2>6. ASSUME r0.op # "none" PROVE Rest[1] = Line(r0)
      <3>1. Len(asked) = 2 BY <2>1, <2>6 DEF One
      <3>2. \A i \in 1..Len(Tail(asked)) : Tail(asked)[i] = asked[i + 1]
        BY <1>1, <2>2, HeadTailProperties
      <3>3. \A i \in 1..Len(Rest) : Rest[i] = asked[i + 1] BY <2>3, <3>2, Zenon
      <3>4. Rest[1] = asked[2] BY <2>4, <3>1, <3>3
      <3> QED BY <1>1, <2>6, <3>1, <3>4, Zenon
    <2> QED BY <1>2, <2>1, <2>4, <2>5, <2>6
  <1>4. CASE ~Answers
    <2>1. Rest = asked BY <1>4 DEF Rest
    <2>2. CASE r1.full BY <1>1, <1>2, <1>4, <2>1, <2>2 DEF One
    <2>3. CASE ~r1.full
      <3>1. Len(asked) = One(r0.op # "none") BY <1>1, <1>4, <2>3 DEF One
      <3>2. r0.op # "none" => asked[1] = Line(r0) BY <1>1, <3>1 DEF One
      <3> QED BY <1>1, <1>2, <1>4, <2>1, <2>3, <3>1, <3>2
    <2> QED BY <2>2, <2>3
  <1> QED BY <1>3, <1>4

(* The queue after an edge, whose contents are those of r0 and of what the   *)
(* edge has taken.                                                           *)
Holds(seq, z, taken, q) ==
    /\ seq \in Seq(Asked) /\ Len(seq) = One(z.op # "none") + One(taken)
    /\ taken => seq[1] = [op |-> q.k, mmu |-> q.mmu]
    /\ z.op # "none" => seq[Len(seq)] = Line(z)

(* A request enters at the end. *)
LEMMA Entering ==
    ASSUME NEW seq \in Seq(Asked), NEW d \in Requests \cup {NoReq}, NEW taken \in BOOLEAN, NEW q,
           Len(seq) = One(taken), taken => seq[1] = [op |-> q.k, mmu |-> q.mmu],
           NEW t, t = IF d.op # "none" THEN Append(seq, [op |-> d.op, mmu |-> d.mmu]) ELSE seq
    PROVE  Holds(t, d, taken, q)
  <1>1. CASE d.op = "none" BY <1>1 DEF Holds, One
  <1>2. CASE d.op # "none"
    <2>1. t = Append(seq, Line(d)) BY <1>2 DEF Line
    <2>2. Line(d) \in Asked BY <1>2 DEF NoReq, Requests, Request, Line, Asked
    <2> HIDE DEF Line
    <2>3. t \in Seq(Asked) /\ Len(t) = Len(seq) + 1 BY <2>1, <2>2
    <2>4. t[Len(t)] = Line(d) BY <2>1, <2>2, <2>3
    <2>5. taken => t[1] = seq[1] BY <2>1, <2>2 DEF One
    <2> QED BY <1>2, <2>3, <2>4, <2>5 DEF Holds, One
  <1> QED BY <1>1, <1>2

(* Every request keeps its place. *)
LEMMA AskedStep ==
    ASSUME IInv, NEW hold \in BOOLEAN, hold => r0.op # "none", NEW d \in Offers(Requests, hold),
           NEW g, g = go(hold), NEW q, q = Req(g), AskedEdge(d, hold),
           NEW z, z = IF r1.full \/ hold THEN r0 ELSE d
    PROVE  Holds(asked', z, r1.full \/ g, q) /\ z \in Requests \cup {NoReq}
  <1>1. d \in Requests \cup {NoReq} /\ (r1.full \/ hold \/ r1.ls_error => d = NoReq) BY DEF Offers
  <1>2. NoReq.op = "none" BY DEF NoReq
  <1>3. z \in Requests \cup {NoReq} BY <1>1 DEF IInv
  <1>4. /\ Rest \in Seq(Asked) /\ Answers \in BOOLEAN /\ (r1.full => ~Answers)
        /\ r1.full => Rest = asked /\ Len(asked) = One(r0.op # "none") + 1
        /\ ~r1.full => /\ Len(Rest) = One(r0.op # "none")
                       /\ r0.op # "none" => Rest[1] = Line(r0)
    BY Resting
  <1>5. asked' = LET kept == IF r1.ls_error /\ r0.op # "none" /\ ~hold /\ Rest # <<>>
                             THEN SubSeq(Rest, 1, Len(Rest) - 1) ELSE Rest
                 IN IF d.op # "none" THEN Append(kept, [op |-> d.op, mmu |-> d.mmu]) ELSE kept
    BY Zenon DEF AskedEdge, Rest
  <1>6. r1.full \in BOOLEAN /\ r1.ls_error \in BOOLEAN /\ g \in BOOLEAN BY DEF IInv, Bits, go
  <1>7. CASE r1.full
    <2>1. NoAnswer(r1) /\ asked[1] = [op |-> r1.req.k, mmu |-> r1.req.mmu]
          /\ (r0.op # "none" => asked[Len(asked)] = Line(r0))
      BY <1>7 DEF IInv, Queue, Line
    <2>2. ~r1.ls_error /\ d = NoReq /\ z = r0 /\ q = r1.req BY <1>1, <1>7, <2>1 DEF NoAnswer, Req
    <2>3. asked' = asked BY <1>2, <1>4, <1>5, <1>7, <2>2
    <2> QED BY <1>3, <1>4, <1>7, <2>1, <2>2, <2>3 DEF Holds, One
  <1>8. CASE ~r1.full /\ hold
    <2>1. d = NoReq /\ z = r0 /\ ~g BY <1>1, <1>8, Zenon DEF go
    <2>2. asked' = Rest BY <1>2, <1>5, <1>8, <2>1
    <2>3. (r1.full \/ g) = FALSE BY <1>8, <2>1, Zenon
    <2>4. /\ Rest \in Seq(Asked) /\ Len(Rest) = One(r0.op # "none")
          /\ r0.op # "none" => Rest[1] = Line(r0)
      BY <1>4, <1>8
    <2>5. r0.op # "none" => Rest[Len(Rest)] = Line(r0) BY <2>4 DEF One
    <2>6. Len(Rest) = One(r0.op # "none") + One(FALSE) BY <2>4 DEF One
    <2> QED BY <1>3, <2>1, <2>2, <2>3, <2>4, <2>5, <2>6, Zenon DEF Holds
  <1>9. CASE ~r1.full /\ ~hold /\ r1.ls_error
    <2>1. d = NoReq /\ z = NoReq /\ ~g BY <1>1, <1>9 DEF go
    <2>2. asked' = <<>>
      <3>1. CASE r0.op # "none"
        <4>1. Len(Rest) = 1 BY <1>4, <1>9, <3>1 DEF One
        <4>2. Rest # <<>> BY <4>1
        <4>3. asked' = SubSeq(Rest, 1, Len(Rest) - 1) BY <1>2, <1>5, <1>9, <2>1, <3>1, <4>2
        <4> QED BY <1>4, <4>1, <4>3
      <3>2. CASE r0.op = "none"
        <4>1. Rest = <<>> BY <1>4, <1>9, <3>2 DEF One
        <4> QED BY <1>2, <1>5, <2>1, <3>2, <4>1
      <3> QED BY <3>1, <3>2
    <2> QED BY <1>2, <1>3, <1>9, <2>1, <2>2 DEF Holds, One
  <1>10. CASE ~r1.full /\ ~hold /\ ~r1.ls_error
    <2>1. z = d /\ g = (r0.op # "none") BY <1>10 DEF go
    <2>2. asked' = IF d.op # "none" THEN Append(Rest, [op |-> d.op, mmu |-> d.mmu]) ELSE Rest
      BY <1>5, <1>10
    <2>3. Len(Rest) = One(g) BY <1>4, <1>10, <2>1
    <2>4. g => Rest[1] = [op |-> q.k, mmu |-> q.mmu]
      <3>1. SUFFICES ASSUME g PROVE Rest[1] = [op |-> q.k, mmu |-> q.mmu] OBVIOUS
      <3>2. q = FromR0(g) BY <1>10 DEF Req
      <3>3. q.k = r0.op /\ q.mmu = r0.mmu BY <1>6, <3>1, <3>2, Fresh, Zenon
      <3> QED BY <1>4, <1>10, <2>1, <3>1, <3>3 DEF Line
    <2>5. Holds(asked', d, g, q) BY <1>1, <1>4, <1>6, <2>2, <2>3, <2>4, Entering, Zenon
    <2>6. (r1.full \/ g) = g BY <1>6, <1>10
    <2> QED BY <1>3, <2>1, <2>5, <2>6
  <1> QED BY <1>6, <1>7, <1>8, <1>9, <1>10

-----------------------------------------------------------------------------
(* The invariant is inductive.                                               *)

(* The reset state satisfies it. *)
LEMMA InitInv ==
    ASSUME Init PROVE IInv
  <1>1. r0 = NoReq /\ r1 = R1Init /\ bus = <<>> /\ asked = <<>> BY DEF Init
  <1>2. Shape(r1) BY <1>1 DEF R1Init, Shape, R1Fields, WbFields, ReqFields, NoSlow
  <1>3. /\ r1.full = FALSE /\ r1.ls_valid = FALSE /\ r1.ls_error = FALSE /\ r1.mmu_done = FALSE
        /\ r1.mmu_error = FALSE /\ r1.slow_valid = FALSE /\ r1.stcx_fail = FALSE
        /\ r1.stalled = FALSE /\ r1.dec_acks = FALSE /\ r1.reloading = FALSE
    BY <1>1 DEF R1Init
  <1>4. r1.acks_pending = 0 /\ r1.state = "IDLE" /\ r1.wb.cyc = FALSE /\ r1.wb.stb = FALSE
    BY <1>1 DEF R1Init
  <1>5. Bits(r1)
    <2>1. r1.wb.cyc = FALSE /\ r1.wb.stb = FALSE BY <1>4
    <2>2. r1.acks_pending = 0 BY <1>4
    <2>3. r1.acks_pending \in 0..7 BY <2>2
    <2> QED BY <1>2, <1>3, <2>1, <2>3, Zenon DEF Bits
  <1>6. Control(r1) BY <1>3, <1>4, AtRest, Zenon
  <1>7. IsSeq(bus) /\ Len(bus) = 0 BY <1>1 DEF IsSeq
  <1>8. BusOK(r1, Len(bus)) BY <1>4, <1>7 DEF BusOK
  <1>9. ~Answers BY <1>3 DEF Answers
  <1>10. r0.op = "none" BY <1>1 DEF NoReq
  <1>11. Queue BY <1>1, <1>3, <1>9, <1>10 DEF Queue, One
  <1> QED BY <1>1, <1>5, <1>6, <1>7, <1>8, <1>11 DEF IInv

(* rst. *)
LEMMA ResetInv ==
    ASSUME IInv, Reset PROVE IInv'
  <1>0. Bits(r1) BY DEF IInv
  <1>1. /\ r0' = NoReq /\ bus' = <<>> /\ asked' = <<>>
        /\ r1' = [r1 EXCEPT !.state = "IDLE", !.full = FALSE, !.slow_valid = FALSE,
                            !.wb = [r1.wb EXCEPT !.cyc = FALSE, !.stb = FALSE,
                                                 !.line = NoReq.line, !.row = 0],
                            !.ls_valid = FALSE, !.mmu_done = FALSE,
                            !.reloading = FALSE, !.acks_pending = 0, !.stalled = FALSE,
                            !.dec_acks = FALSE, !.ls_error = FALSE, !.mmu_error = FALSE,
                            !.hit_load_valid = FALSE, !.fwd = NoWrite]
    BY Zenon DEF Reset
  <1> DEFINE n == r1'
  <1>2. DOMAIN n = R1Fields BY <1>0, <1>1, Zenon DEF Bits, Shape
  <1>3. /\ n.full = FALSE /\ n.ls_valid = FALSE /\ n.ls_error = FALSE /\ n.mmu_done = FALSE
        /\ n.mmu_error = FALSE /\ n.slow_valid = FALSE /\ n.hit_load_valid = FALSE
        /\ n.stalled = FALSE /\ n.dec_acks = FALSE /\ n.reloading = FALSE
        /\ n.acks_pending = 0 /\ n.state = "IDLE" /\ n.req = r1.req
        /\ n.wb = [r1.wb EXCEPT !.cyc = FALSE, !.stb = FALSE, !.line = NoReq.line, !.row = 0]
    BY <1>0, <1>1, Zenon DEF Bits, Shape, R1Fields
  <1> HIDE DEF n
  <1>4. DOMAIN n.wb = WbFields /\ n.wb.cyc = FALSE /\ n.wb.stb = FALSE
    BY <1>0, <1>3, Zenon DEF Bits, Shape, WbFields
  <1>5. Shape(n) BY <1>0, <1>2, <1>3, <1>4, Zenon DEF Bits, Shape
  <1>6. Bits(n)
    <2>1. n.wb.cyc \in BOOLEAN /\ n.wb.stb \in BOOLEAN BY <1>4, Zenon
    <2>2. n.acks_pending = 0 BY <1>3, Zenon
    <2>3. n.acks_pending \in 0..7 BY <2>2
    <2>4. /\ n.full = FALSE /\ n.ls_valid = FALSE /\ n.ls_error = FALSE /\ n.mmu_done = FALSE
          /\ n.mmu_error = FALSE /\ n.slow_valid = FALSE /\ n.stalled = FALSE /\ n.dec_acks = FALSE
      BY <1>3, Zenon
    <2> QED BY <1>5, <2>1, <2>3, <2>4, Zenon DEF Bits
  <1>7. n.state = "IDLE" /\ n.reloading = FALSE /\ n.full = FALSE BY <1>3, Zenon
  <1>8. Control(n) BY <1>4, <1>7, AtRest, Zenon
  <1>9. IsSeq(bus)' /\ Len(bus') = 0 BY <1>1 DEF IsSeq
  <1>10. BusOK(n, Len(bus')) BY <1>4, <1>7, <1>9 DEF BusOK
  <1>11. (r0').op = "none" BY <1>1 DEF NoReq
  <1>12. ~Answers' BY <1>3, Zenon DEF Answers, n
  <1>13. n.ls_valid = FALSE /\ n.slow_valid = FALSE /\ n.hit_load_valid = FALSE BY <1>3, Zenon
  <1>14. Queue' BY <1>1, <1>7, <1>11, <1>12, <1>13 DEF Queue, One, n
  <1>15. Bits(r1') /\ Control(r1') /\ BusOK(r1', Len(bus')) BY <1>6, <1>8, <1>10, Zenon DEF n
  <1> QED BY <1>1, <1>9, <1>14, <1>15 DEF IInv

(* The data that come with an acknowledgement. *)
Incoming(ack) == IF ack THEN mem[Head(bus).line][Head(bus).row] ELSE Zero

(* A rising edge, with what it is given. *)
Edged(hold, stall, ack, victim, d) ==
    /\ hold => r0.op # "none"
    /\ ~r1.wb.cyc => stall
    /\ ack => bus # <<>>
    /\ d \in Offers(Requests, hold)
    /\ r1' = Machine(Common(go(hold), victim, stall, ack, Incoming(ack)), Req(go(hold)), stall, ack)
    /\ r0' = IF r1.full \/ hold THEN r0 ELSE d
    /\ valids' = next_valids(victim) /\ tags' = next_tags(victim) /\ tag_set' = tags
    /\ bus' = (IF ack THEN Tail(bus) ELSE bus) \o
              (IF accepted(stall) THEN <<[line |-> r1.wb.line, row |-> r1.wb.row]>> ELSE <<>>)
    /\ AskedEdge(d, hold)

(* Everything that a rising edge is given, and what the invariant needs of it. *)
LEMMA Given ==
    ASSUME IInv, Edge(Requests, Writes, TRUE)
    PROVE  \E hold, stall, ack \in BOOLEAN, victim \in Ways, d \in Requests \cup {NoReq} :
             Edged(hold, stall, ack, victim, d)
  <1>1. PICK hold \in Bit(TRUE /\ r0.op # "none"), grant \in Bit(r1.wb.cyc /\ ~own) :
          LET ours == r1.wb.cyc /\ (own \/ grant)
          IN \E slow \in Bit(ours), ack \in Bit(bus # <<>>), victim \in Victims,
                x \in {{}} \cup (IF ours THEN {} ELSE {{e} : e \in Writes}) :
                  \E d \in Offers(Requests, hold) : Clock(d, hold, ours, slow, ack, victim, x)
    BY Zenon DEF Edge
  <1> DEFINE ours == r1.wb.cyc /\ (own \/ grant)
  <1>2. PICK slow \in Bit(ours), ack \in Bit(bus # <<>>), victim \in Victims,
             x \in {{}} \cup (IF ours THEN {} ELSE {{e} : e \in Writes}),
             d \in Offers(Requests, hold) : Clock(d, hold, ours, slow, ack, victim, x)
    BY <1>1, Zenon
  <1>3. hold \in BOOLEAN /\ (hold => r0.op # "none") BY Zenon DEF Bit
  <1>4. ack \in BOOLEAN /\ (ack => bus # <<>>) BY Zenon DEF Bit
  <1> DEFINE stall == ~ours \/ slow
  <1>5. stall \in BOOLEAN /\ (~r1.wb.cyc => stall) BY DEF Bit
  <1>6. victim \in Ways
    <2>1. NoSlow.way \in Ways BY DcacheAssumption DEF NoSlow
    <2> QED BY <2>1 DEF Victims
  <1>7. d \in Requests \cup {NoReq} BY DEF Offers
  <1>8. /\ r1' = Machine(Common(go(hold), victim, stall, ack, Incoming(ack)), Req(go(hold)), stall, ack)
        /\ r0' = IF r1.full \/ hold THEN r0 ELSE d
        /\ valids' = next_valids(victim) /\ tags' = next_tags(victim) /\ tag_set' = tags
        /\ bus' = (IF ack THEN Tail(bus) ELSE bus) \o
                  (IF accepted(stall) THEN <<[line |-> r1.wb.line, row |-> r1.wb.row]>> ELSE <<>>)
        /\ AskedEdge(d, hold)
    BY <1>2, Zenon DEF Clock, Incoming
  <1> HIDE DEF stall
  <1>9. Edged(hold, stall, ack, victim, d) BY <1>3, <1>4, <1>5, <1>8, Zenon DEF Edged
  <1> QED BY <1>3, <1>4, <1>5, <1>6, <1>7, <1>9, Zenon

(* A rising edge, in terms of what it works on. *)
LEMMA Edging ==
    ASSUME IInv, NEW hold \in BOOLEAN, NEW stall \in BOOLEAN, NEW ack \in BOOLEAN, NEW victim, NEW d,
           Edged(hold, stall, ack, victim, d),
           NEW g, g = go(hold), NEW q, q = Req(g), NEW v, v = Common(g, victim, stall, ack, Incoming(ack))
    PROVE  /\ Before(v, q, r1.full \/ g, stall, ack, Len(bus), Len(bus'))
           /\ IsSeq(bus') /\ r1' = Machine(v, q, stall, ack) /\ g \in BOOLEAN
  <1>1. /\ ~r1.wb.cyc => stall
        /\ ack => bus # <<>>
        /\ r1' = Machine(v, q, stall, ack)
        /\ bus' = (IF ack THEN Tail(bus) ELSE bus) \o
                  (IF accepted(stall) THEN <<[line |-> r1.wb.line, row |-> r1.wb.row]>> ELSE <<>>)
    BY Zenon DEF Edged
  <1>2. /\ Bits(r1) /\ Control(r1) /\ r0 \in Requests \cup {NoReq} /\ IsSeq(bus)
        /\ BusOK(r1, Len(bus))
    BY Zenon DEF IInv
  <1>3. g \in BOOLEAN /\ Took(v, q, r1.full \/ g) /\ Ready(v, stall, ack) BY <1>2, Taking
  <1> DEFINE add == accepted(stall)
             e == [line |-> r1.wb.line, row |-> r1.wb.row]
  <1>4. add \in BOOLEAN /\ add = (r1.wb.cyc /\ r1.wb.stb /\ ~stall) BY DEF accepted
  <1>5. bus' = (IF ack THEN Tail(bus) ELSE bus) \o (IF add THEN <<e>> ELSE <<>>) BY <1>1, Zenon
  <1> HIDE DEF add, e
  <1>6. /\ IsSeq(bus') /\ Len(bus) \in Nat /\ (ack => Len(bus) > 0)
        /\ Len(bus') \in Nat /\ Len(bus') = Len(bus) - One(ack) + One(add)
    <2>1. Shifts(bus, bus', ack, add, e) BY <1>1, <1>2, <1>4, <1>5, Zenon DEF Shifts
    <2> QED BY <2>1, BusMoves
  <1>7. Moves(Len(bus), Len(bus'), stall, ack) BY <1>1, <1>4, <1>6, Zenon DEF Moves
  <1>8. (r1.full \/ g) \in BOOLEAN /\ (r1.full => (r1.full \/ g) /\ q = r1.req) BY DEF Req
  <1> QED BY <1>1, <1>2, <1>3, <1>6, <1>7, <1>8, Zenon DEF Before

(* A rising edge keeps the invariant. *)
LEMMA EdgeInv ==
    ASSUME IInv, Edge(Requests, Writes, TRUE) PROVE IInv'
  <1>1. PICK hold \in BOOLEAN, stall \in BOOLEAN, ack \in BOOLEAN, victim \in Ways,
             d \in Requests \cup {NoReq} : Edged(hold, stall, ack, victim, d)
    BY Given, Zenon
  <1> DEFINE g == go(hold)
             q == Req(g)
             v == Common(g, victim, stall, ack, Incoming(ack))
             taken == r1.full \/ g
  <1>2. /\ Before(v, q, taken, stall, ack, Len(bus), Len(bus'))
        /\ IsSeq(bus') /\ r1' = Machine(v, q, stall, ack) /\ g \in BOOLEAN
    BY <1>1, Edging, Zenon
  <1>3. Holds(asked', r0', taken, q) /\ r0' \in Requests \cup {NoReq}
    BY <1>1, AskedStep, Zenon DEF Edged
  <1> HIDE DEF v, q, g
  <1>4. After(r1', q, taken, Len(bus')) BY <1>2, MachineStep
  <1> HIDE DEF taken
  <1>5. Settles(r1', q, taken) /\ Control(r1') /\ BusOK(r1', Len(bus')) BY <1>4, Zenon DEF After
  <1>6. Bits(r1') BY <1>5, Zenon DEF Settles
  <1>7. taken \in BOOLEAN BY <1>2, Zenon DEF Before
  <1>8. Queue'
    <2> DEFINE n == r1'
               a == asked'
    <2>1. Answers' = (n.ls_valid \/ n.mmu_done \/ n.ls_error \/ n.mmu_error) BY DEF Answers
    <2>2. /\ a \in Seq(Asked) /\ Len(a) = One((r0').op # "none") + One(taken)
          /\ taken => a[1] = [op |-> q.k, mmu |-> q.mmu]
          /\ (r0').op # "none" => a[Len(a)] = [op |-> (r0').op, mmu |-> (r0').mmu]
      BY <1>3, Zenon DEF Holds, Line
    <2>3. /\ n.full => taken /\ NoAnswer(n) /\ n.req.k = q.k /\ n.req.mmu = q.mmu
          /\ ~n.full => IF taken THEN OneAnswer(n, q.mmu) ELSE NoAnswer(n)
          /\ ~(n.slow_valid /\ n.stcx_fail) /\ ~((n.slow_valid \/ n.stcx_fail) /\ n.hit_load_valid)
          /\ n.ls_valid /\ taken /\ q.k = "sync" => n.wb.cyc = FALSE
          /\ n.full \in BOOLEAN
      BY <1>5, <1>6, Zenon DEF Settles, Bits
    <2> HIDE DEF n, a
    <2>4. (n.full \/ Answers') = taken /\ (taken /\ Answers' => OneAnswer(n, q.mmu))
      BY <1>7, <2>1, <2>3, Zenon DEF NoAnswer, OneAnswer
    <2>5. Answers' => taken BY <2>4, Zenon
    <2>6. n.ls_valid => Answers' BY <2>1, Zenon
    <2>7. taken => a[1].op = q.k /\ a[1].mmu = q.mmu
      <3>1. [op |-> q.k, mmu |-> q.mmu].op = q.k /\ [op |-> q.k, mmu |-> q.mmu].mmu = q.mmu
        OBVIOUS
      <3> QED BY <2>2, <3>1, Zenon
    <2>8. Answers' => OneAnswer(n, a[1].mmu) BY <2>4, <2>5, <2>7, Zenon
    <2>9. n.full => NoAnswer(n) /\ a[1] = [op |-> n.req.k, mmu |-> n.req.mmu] BY <2>2, <2>3, Zenon
    <2>10. n.ls_valid /\ a[1].op = "sync" => ~n.wb.cyc BY <2>3, <2>5, <2>6, <2>7
    <2>11. Len(a) = One((r0').op # "none") + One(n.full \/ Answers') BY <2>2, <2>4, Zenon
    <2> QED BY <2>2, <2>3, <2>8, <2>9, <2>10, <2>11, Zenon DEF Queue, n, a
  <1> QED BY <1>2, <1>3, <1>5, <1>6, <1>8 DEF IInv

(* The invariant only mentions r0, r1, bus and asked. *)
LEMMA StutterInv ==
    ASSUME IInv, UNCHANGED vars PROVE IInv'
  <1>1. UNCHANGED <<r0, r1, bus, asked>> BY DEF vars
  <1> QED BY <1>1 DEF IInv, Queue, IsSeq, Answers

(* IInv holds in every reachable state. *)
THEOREM Accounted == Spec => []IInv
  <1>1. Init => IInv BY InitInv
  <1>2. IInv /\ [Next]_vars => IInv' BY ResetInv, EdgeInv, StutterInv, Zenon DEF Next
  <1> QED BY <1>1, <1>2, PTL DEF Spec

(* At most one of four lines is up when no two are. *)
LEMMA OneOfFour ==
    ASSUME NEW a \in BOOLEAN, NEW b \in BOOLEAN, NEW c \in BOOLEAN, NEW d \in BOOLEAN,
           ~(a /\ b), ~(a /\ c), ~(a /\ d), ~(b /\ c), ~(b /\ d), ~(c /\ d)
    PROVE  Cardinality({i \in 1..4 : <<a, b, c, d>>[i]}) <= 1
  <1> DEFINE U == {i \in 1..4 : <<a, b, c, d>>[i]}
  <1>1. \A i \in 1..4 : i \in {1, 2, 3, 4} OBVIOUS
  <1>2. /\ <<a, b, c, d>>[1] = a /\ <<a, b, c, d>>[2] = b
        /\ <<a, b, c, d>>[3] = c /\ <<a, b, c, d>>[4] = d
    OBVIOUS
  <1>3. \A i, j \in U : i = j BY <1>1, <1>2, Zenon
  <1>4. U = {} \/ \E i \in U : U = {i} BY <1>3
  <1> HIDE DEF U
  <1>5. Cardinality(U) \in {0, 1} BY <1>4, FS_EmptySet, FS_Singleton, Zenon
  <1> QED BY <1>5 DEF U

(* Every request is answered once, in order and to the unit that sent it     *)
(* (dcache.vhdl: ls_valid, ls_error, mmu_done and mmu_error), and the        *)
(* collisions that writeback_control asserts cannot happen do not happen:    *)
(* whatever the number of lines, ways and rows, and whatever loadstore1, the *)
(* MMU, the snooped writes and the bus do.                                   *)
THEOREM Answering == Spec => []AnswersInOrder
  <1>1. IInv => AnswersInOrder
    <2> SUFFICES ASSUME IInv PROVE AnswersInOrder OBVIOUS
    <2>1. /\ asked \in Seq(Asked) /\ Len(asked) = One(r0.op # "none") + One(r1.full \/ Answers)
          /\ r1.full => NoAnswer(r1)
          /\ Answers => OneAnswer(r1, asked[1].mmu)
          /\ ~(r1.slow_valid /\ r1.stcx_fail)
          /\ ~((r1.slow_valid \/ r1.stcx_fail) /\ r1.hit_load_valid)
      BY Zenon DEF IInv, Queue
    <2>2. /\ r1.ls_valid \in BOOLEAN /\ r1.ls_error \in BOOLEAN /\ r1.mmu_done \in BOOLEAN
          /\ r1.mmu_error \in BOOLEAN /\ r1.full \in BOOLEAN
      BY Zenon DEF IInv, Bits
    <2>3. Answers = (r1.ls_valid \/ r1.mmu_done \/ r1.ls_error \/ r1.mmu_error) BY DEF Answers
    <2>4. r1.full => ~Answers BY <2>1, <2>2, <2>3 DEF NoAnswer
    <2>5. Answers => Len(asked) > 0 /\ Head(asked) = asked[1] /\ asked[1] \in Asked
      BY <2>1 DEF One
    <2>6. Answers => asked[1].mmu \in BOOLEAN BY <2>5 DEF Asked
    <2>7. Answers => asked[1].mmu = (r1.mmu_done \/ r1.mmu_error)
      BY <2>1, <2>2, <2>3, <2>6 DEF OneAnswer
    <2>8. Cardinality({b \in 1..4 : <<r1.ls_valid, r1.ls_error, r1.mmu_done, r1.mmu_error>>[b]}) <= 1
      <3>1. /\ ~(r1.ls_valid /\ r1.ls_error) /\ ~(r1.ls_valid /\ r1.mmu_done)
            /\ ~(r1.ls_valid /\ r1.mmu_error) /\ ~(r1.ls_error /\ r1.mmu_done)
            /\ ~(r1.ls_error /\ r1.mmu_error) /\ ~(r1.mmu_done /\ r1.mmu_error)
        BY <2>1, <2>2, <2>3, <2>6 DEF OneAnswer
      <3> QED BY <2>2, <3>1, OneOfFour
    <2>9. Len(asked) = (IF r0.op # "none" THEN 1 ELSE 0) + (IF r1.full THEN 1 ELSE 0)
                       + (IF Answers THEN 1 ELSE 0)
      BY <2>1, <2>4 DEF One
    <2> QED BY <2>1, <2>5, <2>7, <2>8, <2>9, Zenon DEF AnswersInOrder
  <1> QED BY <1>1, Accounted, PTL

(* The bus is given up only once every access has been acknowledged, the     *)
(* count of outstanding stores (acks_pending, inc_acks and dec_acks) is      *)
(* exact although it lags the bus by a cycle, no more accesses are on the    *)
(* bus than the count or a line can hold, and a sync is answered only when   *)
(* every store before it has been acknowledged.                              *)
THEOREM Draining == Spec => []BusDrained
  <1>1. IInv => BusDrained
    <2> SUFFICES ASSUME IInv PROVE BusDrained OBVIOUS
    <2>1. /\ asked \in Seq(Asked) /\ Len(asked) = One(r0.op # "none") + One(r1.full \/ Answers)
          /\ r1.ls_valid /\ asked[1].op = "sync" => ~r1.wb.cyc
          /\ IsSeq(bus) /\ BusOK(r1, Len(bus)) /\ Control(r1) /\ Bits(r1)
      BY Zenon DEF IInv, Queue
    <2> DEFINE len == Len(bus)
    <2>2. len \in Nat /\ (len = 0 => bus = <<>>)
      <3>1. bus \in Seq({bus[i] : i \in DOMAIN bus}) BY <2>1 DEF IsSeq
      <3> QED BY <3>1
    <2> HIDE DEF len
    <2>3. BusOK(r1, len) BY <2>1 DEF len
    <2>4. ~r1.wb.cyc => bus = <<>> /\ ~r1.wb.stb BY <2>2, <2>3, Zenon DEF BusOK
    <2>5. r1.state = "STORE_WAIT_ACK" => acks = len + (IF r1.wb.stb THEN 1 ELSE 0)
      <3>1. acks = Acks(r1) BY DEF acks, Acks
      <3> QED BY <2>3, <3>1, Zenon DEF BusOK, One
    <2>6. len <= IF MaxAcks > NumRows THEN MaxAcks ELSE NumRows
      <3>0. NumRows \in Nat \ {0} /\ MaxAcks \in Nat \ {0} BY DcacheAssumption
      <3>1. CASE r1.state = "STORE_WAIT_ACK" BY <2>2, <2>3, <3>0, <3>1 DEF BusOK, One
      <3>2. CASE r1.state = "RELOAD_WAIT_ACK"
        <4>1. Fetching(r1.wb.row, r1.store_row, r1.end_row, len, r1.wb.stb)
          BY <2>3, <3>2, Zenon DEF BusOK
        <4>2. /\ Dist(r1.wb.row, r1.end_row) \in Nat /\ Dist(r1.store_row, r1.end_row) \in Nat
              /\ Dist(r1.store_row, r1.end_row) <= NumRows - 1
          BY <4>1, Distance, Zenon DEF Fetching, Stepping
        <4> QED BY <2>2, <3>0, <4>1, <4>2 DEF Fetching
      <3>3. CASE r1.state = "NC_LOAD_WAIT_ACK" BY <2>2, <2>3, <3>0, <3>3 DEF BusOK, One
      <3>4. CASE r1.state \in {"IDLE", "FLUSH_CYCLE", "DO_STCX"}
        <4>1. r1.state \in {"IDLE", "FLUSH_CYCLE"} => r1.wb.cyc = FALSE
          <5>1. r1.wb.cyc = (r1.state \notin {"IDLE", "FLUSH_CYCLE"}) BY <2>1, Zenon DEF Control
          <5> QED BY <5>1, Zenon
        <4> QED BY <2>2, <2>3, <3>0, <3>4, <4>1 DEF BusOK
      <3> QED BY <2>1, <3>1, <3>2, <3>3, <3>4 DEF Control, States
    <2>7. r1.ls_valid /\ Head(asked).op = "sync" => bus = <<>> /\ ~r1.wb.stb
      <3>1. r1.ls_valid => Answers BY DEF Answers
      <3>2. r1.ls_valid => Len(asked) > 0 /\ Head(asked) = asked[1] BY <2>1, <3>1 DEF One
      <3> QED BY <2>1, <2>4, <3>2, Zenon
    <2> QED BY <2>4, <2>5, <2>6, <2>7, Zenon DEF BusDrained, len
  <1> QED BY <1>1, Accounted, PTL

(* A rising edge keeps TagInv. *)
LEMMA EdgeTags ==
    ASSUME IInv, TagInv, Edge(Requests, Writes, TRUE) PROVE TagInv'
  <1>1. PICK hold \in BOOLEAN, stall \in BOOLEAN, ack \in BOOLEAN, victim \in Ways,
             d \in Requests \cup {NoReq} : Edged(hold, stall, ack, victim, d)
    BY Given, Zenon
  <1> DEFINE g == go(hold)
             q == Req(g)
             v == Common(g, victim, stall, ack, Incoming(ack))
             taken == r1.full \/ g
             n == r1'
  <1>2. /\ Before(v, q, taken, stall, ack, Len(bus), Len(bus'))
        /\ IsSeq(bus') /\ r1' = Machine(v, q, stall, ack) /\ g \in BOOLEAN
    BY <1>1, Edging, Zenon
  <1>3. valids' = next_valids(victim) /\ tags' = next_tags(victim) /\ tag_set' = tags
        /\ (ack => bus # <<>>)
    BY <1>1, Zenon DEF Edged
  <1>4. taken => Wanted(q) BY IsWanted
  <1>5. CommonDoes(v, g, victim, stall, ack)
    <2>1. Shape(r1) BY Zenon DEF IInv, Bits
    <2> QED BY <1>2, <2>1, CommonIs
  <1> HIDE DEF v, q, g, taken
  <1>6. Filling(v, q, stall, ack)
    <2>1. Took(v, q, taken) /\ (r1.full => taken /\ q = r1.req) /\ Ready(v, stall, ack)
          /\ BusOK(r1, Len(bus))
      BY <1>2, Zenon DEF Before
    <2>2. /\ v.full \in BOOLEAN /\ (v.full => taken /\ Wf(q) /\ v.req = q)
          /\ (q.op \in Slow => v.full = TRUE)
      BY <2>1, Zenon DEF Took, Slow
    <2>3. r1.full => v.full = TRUE
      <3>1. r1.full => Wf(q) BY <2>1, Zenon DEF IInv, Control
      <3> QED BY <2>2, <3>1 DEF Wf
    <2>4. /\ r1.write_tag => r1.state = "RELOAD_WAIT_ACK" /\ r1.full /\ bus = <<>>
          /\ DOMAIN r1.rows_valid = Rows
          /\ r1.state = "RELOAD_WAIT_ACK" => \A i \in Rows : r1.rows_valid[i] \/ ToCome(r1, i)
      BY Zenon DEF TagInv
    <2>5. r1.write_tag => v.full = TRUE /\ ack = FALSE BY <1>3, <2>3, <2>4
    <2>6. r1.state = "RELOAD_WAIT_ACK" => r1.store_row \in Rows /\ r1.end_row \in Rows
      BY <2>1, Zenon DEF BusOK, Fetching
    <2>7. /\ Shape(v) /\ v.state = r1.state /\ v.store_row = r1.store_row /\ v.end_row = r1.end_row
          /\ v.rows_valid = r1.rows_valid /\ v.write_tag = FALSE
      BY <1>5, Zenon DEF CommonDoes
    <2> QED BY <1>4, <2>2, <2>4, <2>5, <2>6, <2>7, Zenon DEF Filling
  <1>7. Filled(n, v, q) BY <1>2, <1>6, FillStep
  <1>8. /\ valids' \in [Ways -> BOOLEAN] /\ tags' = [w \in Ways |-> tags'[w]]
        /\ OneWay'
        /\ tag_set' # tags' => r1.write_tag
        /\ \A l : Absent(l) /\ (r1.write_tag => r1.line # l) => Missing(l)
    BY <1>3, Arrays
  <1>9. n.write_tag => bus' = <<>> /\ Missing(n.line)
    <2> SUFFICES ASSUME n.write_tag PROVE bus' = <<>> /\ Missing(n.line) OBVIOUS
    <2>1. r1.state = "IDLE" /\ Fills(q) /\ v.full /\ n.line = q.line BY <1>7, Zenon DEF Filled
    <2>2. ~r1.write_tag BY <2>1 DEF TagInv
    <2>3. Wanted(q) BY <1>6, <2>1, Zenon DEF Filling
    <2>4. Absent(q.line) BY <2>1, <2>3 DEF Wanted
    <2>5. Missing(q.line) BY <1>8, <2>2, <2>4
    <2>6. bus' = <<>>
      <3>1. r1.wb.cyc = FALSE
        <4>1. r1.wb.cyc = (r1.state \notin {"IDLE", "FLUSH_CYCLE"}) BY Zenon DEF IInv, Control
        <4> QED BY <2>1, <4>1, Zenon
      <3>2. BusOK(r1, Len(bus)) /\ Moves(Len(bus), Len(bus'), stall, ack) BY <1>2, Zenon DEF Before
      <3>3. Len(bus) = 0 BY <3>1, <3>2, Zenon DEF BusOK
      <3>4. Len(bus') = 0 BY <3>1, <3>2, <3>3 DEF Moves, One
      <3> QED BY <1>2, <3>4 DEF IsSeq
    <2> QED BY <2>1, <2>5, <2>6
  <1>10. n.full /\ ~n.req.hit_reload /\ Fills(n.req) => Missing(n.req.line)
    <2> SUFFICES ASSUME n.full, ~n.req.hit_reload, Fills(n.req) PROVE Missing(n.req.line) OBVIOUS
    <2>1. v.full /\ n.req = q BY <1>7, Zenon DEF Filled
    <2>2. Absent(q.line) BY <1>6, <2>1 DEF Filling, Wanted
    <2>3. ~r1.write_tag
      <3>1. r1.write_tag => r1.full /\ r1.req.hit_reload BY Zenon DEF TagInv
      <3>2. r1.full => q = r1.req BY <1>2, Zenon DEF Before
      <3> QED BY <2>1, <3>1, <3>2, Zenon
    <2>4. Missing(q.line) BY <1>8, <2>2, <2>3
    <2> QED BY <2>1, <2>4
  <1>11. /\ DOMAIN n.rows_valid = Rows
         /\ n.write_tag => n.state = "RELOAD_WAIT_ACK" /\ n.full /\ n.req.hit_reload
         /\ n.full /\ n.req.hit_reload => n.state \notin {"IDLE", "STORE_WAIT_ACK"}
         /\ n.state = "RELOAD_WAIT_ACK" =>
              /\ \A i \in Rows : n.rows_valid[i] \/ ToCome(n, i)
              /\ n.full /\ n.req.hit_reload => ToCome(n, n.req.row)
         /\ r1.write_tag => n.full
    BY <1>7, Zenon DEF Filled, RowsToCome
  <1> QED BY <1>8, <1>9, <1>10, <1>11, Zenon DEF TagInv, Missing, Absent, ToCome, Fills

(* At power on no line is valid. *)
LEMMA InitTags ==
    ASSUME Init PROVE TagInv
  <1>1. /\ r1 = R1Init /\ valids = [w \in Ways |-> FALSE] /\ tags \in [Ways -> {NoReq.line}]
        /\ tag_set = tags
    BY Zenon DEF Init
  <1>2. /\ r1.full = FALSE /\ r1.write_tag = FALSE /\ r1.rows_valid = [r \in Rows |-> FALSE]
    BY <1>1 DEF R1Init
  <1>3. r1.state = "IDLE" BY <1>1 DEF R1Init
  <1>4. valids \in [Ways -> BOOLEAN] /\ tags = [w \in Ways |-> tags[w]] BY <1>1
  <1>5. OneWay BY <1>1 DEF OneWay
  <1>6. DOMAIN r1.rows_valid = Rows BY <1>2
  <1> QED BY <1>1, <1>2, <1>3, <1>4, <1>5, <1>6 DEF TagInv

(* A reset empties every way; in the cycle that writes a tag it would leave  *)
(* write_tag up.                                                             *)
LEMMA ResetTags ==
    ASSUME IInv, TagInv, Reset, ~MidTag PROVE TagInv'
  <1>0. Bits(r1) BY DEF IInv
  <1>1. /\ valids' = [w \in Ways |-> FALSE] /\ tags' = tags /\ tag_set' = tags /\ ~r1.write_tag
        /\ r1' = [r1 EXCEPT !.state = "IDLE", !.full = FALSE, !.slow_valid = FALSE,
                            !.wb = [r1.wb EXCEPT !.cyc = FALSE, !.stb = FALSE,
                                                 !.line = NoReq.line, !.row = 0],
                            !.ls_valid = FALSE, !.mmu_done = FALSE,
                            !.reloading = FALSE, !.acks_pending = 0, !.stalled = FALSE,
                            !.dec_acks = FALSE, !.ls_error = FALSE, !.mmu_error = FALSE,
                            !.hit_load_valid = FALSE, !.fwd = NoWrite]
    BY Zenon DEF Reset
  <1>2. /\ r1'.full = FALSE /\ r1'.state = "IDLE" /\ r1'.write_tag = r1.write_tag
        /\ r1'.rows_valid = r1.rows_valid
    BY <1>0, <1>1, Zenon DEF Bits, Shape, R1Fields
  <1>3. DOMAIN r1.rows_valid = Rows /\ tags = [w \in Ways |-> tags[w]] BY Zenon DEF TagInv
  <1>4. OneWay' BY <1>1 DEF OneWay
  <1>5. (valids \in [Ways -> BOOLEAN])' BY <1>1
  <1> QED BY <1>1, <1>2, <1>3, <1>4, <1>5 DEF TagInv

(* No line is in two ways of the cache (dcache.vhdl: write_tag, cache_tags): *)
(* a miss fills a way only with a line that no way holds, although the tag   *)
(* is written a cycle after the reload has begun and the tags that stage 0   *)
(* compares are a cycle old; provided that no reset comes in that cycle.     *)
THEOREM OneCopy ==
    ASSUME ~MidTag PROVE Spec => []OneWay
  <1>1. Init => TagInv BY InitTags
  <1>2. IInv /\ TagInv /\ [Next]_vars => TagInv'
    <2>1. ASSUME IInv, TagInv, UNCHANGED vars PROVE TagInv'
      <3>1. UNCHANGED <<valids, tags, tag_set, r1, bus>> BY <2>1 DEF vars
      <3> QED BY <2>1, <3>1 DEF TagInv, OneWay, Absent
    <2> QED BY <2>1, ResetTags, EdgeTags, Zenon DEF Next
  <1>3. TagInv => OneWay BY DEF TagInv
  <1> QED BY <1>1, <1>2, <1>3, Accounted, PTL DEF Spec
=============================================================================
