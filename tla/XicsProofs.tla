----------------------------- MODULE XicsProofs -----------------------------
(* For every number of CPUs and sources, every priority width and every      *)
(* sequence of inputs and register accesses, the interrupt controller        *)
(* presents what it should, with the delay of its four registers.            *)
EXTENDS Xics, WellFoundedInduction, TLAPS

(* What a quiet controller has computed after each clock: the latch, the     *)
(* source unit's choice, the presenter's registers, the core's line.         *)
QuietStages ==
    /\ settle >= 1 => int_level_l = int_level_in
    /\ settle >= 2 => \A c \in Cpu : icp_out[c] = irq_gen(c)
    /\ settle >= 3 => \A c \in Cpu : /\ icp[c].xisr = presented(c).xisr
                                     /\ icp[c].irq = irq(c, icp[c].cppr)
    /\ settle >= 4 => \A c \in Cpu : core_irq[c] = icp[c].irq

(* How far an input that stays due has got, whatever else changes. *)
DueStages(i) ==
    /\ age[i] >= 1 => Due(i) /\ int_level_l[i]
    /\ age[i] >= 2 => icp_out[xives[i].server].pri <= prio_unpack(xives[i].pri)
    /\ age[i] >= 3 => icp[xives[i].server].irq
    /\ age[i] >= 4 => core_irq[xives[i].server]

(* Presents speaks of the fourth clock only; the invariant says what each of *)
(* the clocks before it has established.                                     *)
XInv == XicsTypeOK /\ QuietStages /\ \A i \in Src : DueStages(i)

-----------------------------------------------------------------------------

(* A non-empty set of naturals has a least element. *)
LEMMA LeastNatural ==
    ASSUME NEW T, T \subseteq Nat, T # {}
    PROVE  \E i \in T : \A j \in T : i <= j
  <1> DEFINE R == OpToRel(<, Nat)
  <1>1. PICK i \in T : \A j \in T : ~(<<j, i>> \in R) BY NatLessThanWellFounded, WFMin, Zenon
  <1>2. \A j \in T : ~(j < i) BY <1>1, Zenon DEF OpToRel
  <1> QED BY <1>2

(* priority_encoder yields the least of the numbers present and of the       *)
(* highest of the range.                                                     *)
LEMMA EncodeIsLeast ==
    ASSUME NEW S, NEW h \in Nat, S \subseteq Nat
    PROVE  /\ encode(S, h) \in S \cup {h}
           /\ \A k \in S \cup {h} : encode(S, h) <= k
  <1> DEFINE T == S \cup {h}
  <1>1. T \subseteq Nat /\ T # {} OBVIOUS
  <1>2. \E i \in T : \A j \in T : i <= j BY <1>1, LeastNatural, Zenon
  <1> QED BY <1>2, Zenon DEF encode

(* The stored priority that masks a source, whatever PRIO_BITS is. *)
LEMMA MaskedRange == pri_masked \in 1..63
  <1>1. 2^1 = 2 /\ 2^2 = 4 /\ 2^3 = 8 /\ 2^4 = 16 /\ 2^5 = 32 /\ 2^6 = 64 BY SMT
  <1>2. PRIO_BITS = 1 \/ PRIO_BITS = 2 \/ PRIO_BITS = 3 \/ PRIO_BITS = 4 \/ PRIO_BITS = 5
          \/ PRIO_BITS = 6
    BY XicsAssumption
  <1>3. 2^PRIO_BITS \in {2, 4, 8, 16, 32, 64} BY <1>1, <1>2, ZenonT(60)
  <1> QED BY <1>3 DEF pri_masked

(* A stored priority fits its byte, and unpacking keeps the order. *)
LEMMA Unpack ==
    ASSUME NEW p \in Pri
    PROVE  /\ prio_unpack(p) \in 0..Least
           /\ p # pri_masked => prio_unpack(p) = p /\ p < Least
           /\ \A q \in Pri : p <= q => prio_unpack(p) <= prio_unpack(q)
  BY MaskedRange DEF Pri, prio_unpack, Least

(* The source unit's choice for a CPU: a source, at most as large a priority *)
(* as any input directed to the CPU; the masked one if there is no better,   *)
(* and otherwise that of the chosen source.                                  *)
LEMMA IrqGen ==
    ASSUME XicsTypeOK, NEW c \in Cpu
    PROVE  /\ irq_gen(c) \in [src : Src, pri : 0..Least]
           /\ \A i \in directed(c) : irq_gen(c).pri <= prio_unpack(xives[i].pri)
           /\ irq_gen(c).pri # Least =>
                /\ irq_gen(c).src \in directed(c)
                /\ xives[irq_gen(c).src].pri = irq_gen(c).pri
                /\ xives[irq_gen(c).src].pri # pri_masked
  <1> DEFINE P == {xives[i].pri : i \in directed(c)}
             m == encode(P, pri_masked)
             S == {i \in directed(c) : xives[i].pri = m}
             s == encode(S, SRC_NUM - 1)
  <1>1. irq_gen(c) = [src |-> s, pri |-> prio_unpack(m)] BY DEF irq_gen
  <1>2. \A i \in directed(c) : i \in Src /\ xives[i].pri \in Pri
    BY DEF directed, XicsTypeOK
  <1>3. pri_masked \in Nat /\ P \subseteq Nat BY <1>2, MaskedRange DEF Pri
  <1>4. m \in P \cup {pri_masked} /\ \A k \in P \cup {pri_masked} : m <= k
    <2> HIDE DEF P
    <2> QED BY <1>3, EncodeIsLeast, Zenon
  <1>5. SRC_NUM - 1 \in Nat /\ SRC_NUM - 1 \in Src /\ S \subseteq Src /\ S \subseteq Nat
    BY <1>2, XicsAssumption DEF Src
  <1>6. s \in S \cup {SRC_NUM - 1} BY <1>5, EncodeIsLeast, Zenon
  <1>6a. \A k \in S : s <= k BY <1>5, EncodeIsLeast
  <1>7. m \in Pri BY <1>2, <1>3, <1>4, MaskedRange DEF Pri
  <1> HIDE DEF m, s
  <1>8. irq_gen(c) \in [src : Src, pri : 0..Least] BY <1>1, <1>5, <1>6, <1>7, Unpack
  <1>9. ASSUME NEW i \in directed(c) PROVE prio_unpack(m) <= prio_unpack(xives[i].pri)
    <2>1. m <= xives[i].pri BY <1>4
    <2> QED BY <1>2, <1>7, <2>1, Unpack
  <1>10. ASSUME prio_unpack(m) # Least PROVE s \in S /\ m # pri_masked /\ prio_unpack(m) = m
    <2>1. m # pri_masked BY <1>10 DEF prio_unpack
    <2>2. PICK i \in directed(c) : xives[i].pri = m BY <1>4, <2>1
    <2>3. i \in S BY <2>2
    <2>4. s <= i BY <1>6a, <2>3
    <2>5. CASE s = SRC_NUM - 1
      <3>1. i <= SRC_NUM - 1 /\ i \in Nat BY <1>2, XicsAssumption DEF Src
      <3>2. i = s BY <2>4, <2>5, <3>1, XicsAssumption
      <3> QED BY <2>1, <2>3, <3>2, <1>7, Unpack
    <2> QED BY <1>6, <1>7, <2>1, <2>5, Unpack
  <1> QED BY <1>1, <1>8, <1>9, <1>10

(* What is presented to a CPU has the shape of the ICP registers, and is at  *)
(* least as favoured as the source unit's choice.                            *)
LEMMA Presented ==
    ASSUME XicsTypeOK, NEW c \in Cpu
    PROVE  /\ presented(c).xisr \in {0, IpiSource} \cup {FirstSource + i : i \in Src}
           /\ presented(c).pri \in 0..Least
           /\ presented(c).pri <= icp_out[c].pri
  <1>1. /\ icp_out[c].src \in Src /\ icp_out[c].pri \in 0..Least
        /\ icp[c].mfrr \in 0..Least
    BY DEF XicsTypeOK
  <1>2. presented(c).xisr \in {0, IpiSource, FirstSource + icp_out[c].src} BY DEF presented
  <1>3. presented(c).pri \in {icp[c].mfrr, icp_out[c].pri, Least} BY DEF presented
  <1>4. presented(c).pri <= icp_out[c].pri
    <2>1. CASE icp[c].mfrr < icp_out[c].pri
      <3>1. presented(c).pri = icp[c].mfrr BY <2>1 DEF presented
      <3>2. \A x, y \in 0..Least : x < y => x <= y BY DEF Least
      <3> QED BY <1>1, <2>1, <3>1, <3>2, Zenon
    <2>2. CASE ~(icp[c].mfrr < icp_out[c].pri)
      <3>1. presented(c).pri = icp_out[c].pri BY <2>2 DEF presented
      <3> QED BY <1>1, <3>1 DEF Least
    <2> QED BY <2>1, <2>2
  <1>5. Least \in 0..Least BY DEF Least
  <1> QED BY <1>1, <1>2, <1>3, <1>4, <1>5

(* What a register access carries. *)
LEMMA AccessValues ==
    ASSUME NEW a \in XicsAccess
    PROVE  /\ a.op \in {"cppr", "mfrr"} => a.val \in 0..Least
           /\ a.op = "xive" => a.src \in Src /\ a.pri \in 0..Least /\ a.server \in Nat
  <1>1. CASE a = [op |-> "none"] BY <1>1
  <1>2. CASE a \in [op : {"cppr"}, cpu : Cpu, val : Cpprs] BY <1>2, XicsAssumption DEF Least
  <1>3. CASE a \in [op : {"mfrr"}, cpu : Cpu, val : Mfrrs] BY <1>3, XicsAssumption DEF Least
  <1>4. CASE a \in [op : {"accept"}, cpu : Cpu] BY <1>4
  <1>5. CASE a \in [op : {"xive"}, src : Src, sel : {{"pri", "server"}}, pri : Pris, server : {NCPUS - 1}]
    BY <1>5, XicsAssumption DEF Least
  <1>6. CASE a \in [op : {"xive"}, src : Src, sel : {{"pri"}}, pri : Pris, server : {0}]
    BY <1>6, XicsAssumption DEF Least
  <1>7. CASE a \in [op : {"xive"}, src : Src, sel : {{"server"}}, pri : {Least}, server : {NCPUS}]
    BY <1>7, XicsAssumption DEF Least
  <1> QED BY <1>1, <1>2, <1>3, <1>4, <1>5, <1>6, <1>7, Zenon DEF XicsAccess

(* The registers start with their types. *)
LEMMA TypeInit == XicsInit => XicsTypeOK
  BY XicsAssumption, MaskedRange
     DEF XicsInit, XicsTypeOK, XiveInit, IcpInit, Cpu, Src, Pri, Least, IpiSource, Latency

(* A write keeps an XIVE's priority in its bits, and its server on a CPU. *)
LEMMA XivesType ==
    ASSUME XicsTypeOK, NEW a \in XicsAccess, reg_write(a)
    PROVE  xives' \in [Src -> [pri : Pri, server : Cpu]]
  <1>1. CASE a.op # "xive" BY <1>1 DEF reg_write, XicsTypeOK
  <1>2. CASE a.op = "xive"
    <2>1. a.src \in Src /\ a.pri \in 0..Least /\ a.server \in Nat BY <1>2, AccessValues
    <2>2. prio_pack(a.pri) \in Pri BY <2>1, MaskedRange DEF prio_pack, Pri
    <2>3. server_check(a.server) \in Cpu BY <2>1, XicsAssumption DEF server_check, Cpu
    <2> DEFINE p == IF "pri" \in a.sel THEN prio_pack(a.pri) ELSE xives[a.src].pri
               v == IF "server" \in a.sel THEN server_check(a.server) ELSE xives[a.src].server
    <2>4. xives[a.src] \in [pri : Pri, server : Cpu] BY <2>1 DEF XicsTypeOK
    <2>5. p \in Pri /\ v \in Cpu BY <2>2, <2>3, <2>4
    <2>6. xives' = [xives EXCEPT ![a.src].pri = p, ![a.src].server = v]
      BY <1>2, <2>1 DEF reg_write, XicsTypeOK
    <2> HIDE DEF p, v
    <2> QED BY <2>1, <2>5, <2>6 DEF XicsTypeOK
  <1> QED BY <1>1, <1>2

(* The presenter's registers keep their types. *)
LEMMA IcpType ==
    ASSUME XicsTypeOK, NEW a \in XicsAccess, Presenter(a)
    PROVE  icp' \in [Cpu -> [xisr : {0, IpiSource} \cup {FirstSource + i : i \in Src},
                             cppr : 0..Least, mfrr : 0..Least, irq : BOOLEAN]]
  <1>1. ASSUME NEW c \in Cpu
        PROVE  /\ presented(c).xisr \in {0, IpiSource} \cup {FirstSource + i : i \in Src}
               /\ next_cppr(a, c) \in 0..Least
               /\ (IF writes(a, "mfrr", c) THEN a.val ELSE icp[c].mfrr) \in 0..Least
               /\ irq(c, next_cppr(a, c)) \in BOOLEAN
    <2>1. icp[c].cppr \in 0..Least /\ icp[c].mfrr \in 0..Least BY DEF XicsTypeOK
    <2>2. writes(a, "mfrr", c) \/ writes(a, "cppr", c) => a.val \in 0..Least
      BY AccessValues DEF writes
    <2> QED BY <2>1, <2>2, Presented DEF next_cppr, irq
  <1> QED BY <1>1 DEF Presenter

(* A clock keeps the types. *)
LEMMA TypeClock ==
    ASSUME XicsTypeOK, NEW a \in XicsAccess, NEW level \in [Src -> BOOLEAN], XicsClock(a, level)
    PROVE  XicsTypeOK'
  <1> USE DEF XicsClock
  <1>1. xives' \in [Src -> [pri : Pri, server : Cpu]] BY XivesType
  <1>2. icp' \in [Cpu -> [xisr : {0, IpiSource} \cup {FirstSource + i : i \in Src},
                          cppr : 0..Least, mfrr : 0..Least, irq : BOOLEAN]]
    BY IcpType
  <1>3. icp_out' \in [Cpu -> [src : Src, pri : 0..Least]] BY IrqGen
  <1>4. core_irq' \in [Cpu -> BOOLEAN] BY DEF XicsTypeOK
  <1>5. settle' \in 0..Latency BY DEF XicsTypeOK, Next1, Latency
  <1>6. age' \in [Src -> 0..Latency] BY DEF XicsTypeOK, Next1, Latency
  <1> QED BY <1>1, <1>2, <1>3, <1>4, <1>5, <1>6, Zenon DEF XicsTypeOK

(* A clock after which settle is not 0 has changed neither the inputs nor    *)
(* the registers that software writes.                                       *)
LEMMA QuietClock ==
    ASSUME XicsTypeOK, NEW a \in XicsAccess, NEW level \in [Src -> BOOLEAN], XicsClock(a, level),
           settle' >= 1
    PROVE  /\ int_level_in' = int_level_in /\ xives' = xives
           /\ \A c \in Cpu : icp'[c].cppr = icp[c].cppr /\ icp'[c].mfrr = icp[c].mfrr
           /\ settle' <= settle + 1 /\ settle \in 0..Latency
  <1>1. settle' # 0 BY DEF Latency
  <1>2. ~ \/ level # int_level_in \/ xives' # xives
          \/ \E c \in Cpu : <<icp'[c].cppr, icp'[c].mfrr>> # <<icp[c].cppr, icp[c].mfrr>>
    BY <1>1, Zenon DEF XicsClock
  <1>3. settle' = Next1(settle) BY <1>2, Zenon DEF XicsClock
  <1>4. \A c \in Cpu : icp'[c].cppr = icp[c].cppr /\ icp'[c].mfrr = icp[c].mfrr BY <1>2
  <1> QED BY <1>2, <1>3, <1>4 DEF XicsClock, XicsTypeOK, Next1, Latency

(* The presenter's registers after a clock. *)
LEMMA IcpAfter ==
    ASSUME NEW a \in XicsAccess, NEW level \in [Src -> BOOLEAN], XicsClock(a, level), NEW c \in Cpu
    PROVE  /\ icp'[c].xisr = presented(c).xisr
           /\ icp'[c].cppr = next_cppr(a, c)
           /\ icp'[c].irq = irq(c, icp'[c].cppr)
           /\ core_irq'[c] = icp[c].irq
           /\ icp_out'[c] = irq_gen(c)
  BY DEF XicsClock, Presenter

(* Each quiet clock completes one more stage. *)
LEMMA QuietStep ==
    ASSUME XInv, NEW a \in XicsAccess, NEW level \in [Src -> BOOLEAN], XicsClock(a, level)
    PROVE  QuietStages'
  <1>0. settle' \in 0..Latency BY TypeClock DEF XInv, XicsTypeOK
  <1>a. ~(settle' >= 1) => QuietStages' BY <1>0 DEF QuietStages, Latency
  <1> SUFFICES ASSUME settle' >= 1 PROVE QuietStages' BY <1>a
  <1>1. /\ int_level_in' = int_level_in /\ xives' = xives
        /\ \A c \in Cpu : icp'[c].cppr = icp[c].cppr /\ icp'[c].mfrr = icp[c].mfrr
        /\ settle' <= settle + 1 /\ settle \in 0..Latency
    BY QuietClock DEF XInv
  <1>3. /\ settle' >= 2 => settle >= 1
        /\ settle' >= 3 => settle >= 2
        /\ settle' >= 4 => settle >= 3
    BY <1>0, <1>1 DEF Latency
  <1>4. int_level_l' = int_level_in' BY <1>1 DEF XicsClock
  <1>5. ASSUME settle >= 1, NEW c \in Cpu PROVE icp_out'[c] = irq_gen(c)' /\ irq_gen(c)' = irq_gen(c)
    <2>1. int_level_l' = int_level_l BY <1>4, <1>5, <1>1 DEF XInv, QuietStages
    <2>2. directed(c)' = directed(c) BY <1>1, <2>1 DEF directed
    <2>3. irq_gen(c)' = irq_gen(c) BY <1>1, <2>2, ZenonT(60) DEF irq_gen
    <2> QED BY <2>3, IcpAfter
  <1>6. ASSUME settle >= 2, settle >= 1, NEW c \in Cpu
        PROVE  presented(c)' = presented(c) /\ icp'[c].irq = irq(c, icp[c].cppr)'
               /\ icp'[c].xisr = presented(c)'.xisr
    <2>1. icp_out'[c] = icp_out[c] BY <1>5, <1>6 DEF XInv, QuietStages
    <2>2. presented(c)' = presented(c) BY <1>1, <2>1, Zenon DEF presented
    <2> QED BY <2>2, IcpAfter DEF irq
  <1>7. ASSUME settle >= 3, settle >= 2, settle >= 1, NEW c \in Cpu
        PROVE  core_irq'[c] = icp'[c].irq
    <2>1. icp[c].irq = irq(c, icp[c].cppr) BY <1>7 DEF XInv, QuietStages
    <2>2. irq(c, icp[c].cppr)' = irq(c, icp[c].cppr) BY <1>1, <1>6, <1>7 DEF irq
    <2> QED BY <1>6, <1>7, <2>1, <2>2, IcpAfter
  <1>8. (settle >= 2 => settle >= 1) /\ (settle >= 3 => settle >= 2 /\ settle >= 1)
    BY <1>1 DEF Latency
  <1> QED BY <1>3, <1>4, <1>5, <1>6, <1>7, <1>8 DEF QuietStages

(* Each clock for which an input stays due brings it one stage nearer to the *)
(* core, whatever the other inputs, the MFRR and software do.                *)
LEMMA DueStep ==
    ASSUME XInv, NEW a \in XicsAccess, NEW level \in [Src -> BOOLEAN], XicsClock(a, level),
           NEW i \in Src
    PROVE  DueStages(i)'
  <1> DEFINE c == xives[i].server
  <1>0. XicsTypeOK /\ XicsTypeOK' BY TypeClock DEF XInv
  <1>1. age'[i] \in 0..Latency /\ age[i] \in 0..Latency BY <1>0 DEF XicsTypeOK
  <1>a. ~(age'[i] >= 1) => DueStages(i)' BY <1>1 DEF DueStages, Latency
  <1> SUFFICES ASSUME age'[i] >= 1 PROVE DueStages(i)' BY <1>a
  <1>2. Due(i)' /\ xives'[i] = xives[i] /\ Due(i) /\ age'[i] = Next1(age[i])
    <2>1. age'[i] # 0 BY <1>1 DEF Latency
    <2>2. age'[i] = IF Due(i)' /\ xives'[i] = xives[i]
                    THEN IF Due(i) THEN Next1(age[i]) ELSE 0 ELSE 0
      BY DEF XicsClock
    <2> QED BY <2>1, <2>2, Zenon
  <1>3. age'[i] <= age[i] + 1 BY <1>1, <1>2 DEF Next1, Latency
  <1>4. /\ age'[i] >= 2 => age[i] >= 1
        /\ age'[i] >= 3 => age[i] >= 2 /\ age[i] >= 1
        /\ age'[i] >= 4 => age[i] >= 3
    BY <1>1, <1>3 DEF Latency
  <1>5. c \in Cpu /\ xives[i].pri \in Pri BY <1>0, Zenon DEF XicsTypeOK
  <1>6. int_level_l'[i] BY <1>2 DEF Due, XicsClock
  <1>7. ASSUME age[i] >= 1 PROVE icp_out'[c].pri <= prio_unpack(xives[i].pri)
    <2>1. int_level_l[i] BY <1>7 DEF XInv, DueStages
    <2>2. i \in directed(c) BY <2>1 DEF directed
    <2> QED BY <1>0, <1>5, <2>2, IrqGen, IcpAfter
  <1>8. ASSUME age[i] >= 2 PROVE icp'[c].irq
    <2>1. icp_out[c].pri <= prio_unpack(xives[i].pri) BY <1>8 DEF XInv, DueStages
    <2>2. prio_unpack(xives[i].pri) < icp'[c].cppr BY <1>2 DEF Due
    <2>3. presented(c).pri <= icp_out[c].pri /\ presented(c).pri \in 0..Least BY <1>0, <1>5, Presented
    <2>4. /\ icp_out[c].pri \in 0..Least /\ icp'[c].cppr \in 0..Least
          /\ prio_unpack(xives[i].pri) \in 0..Least
      BY <1>0, <1>5, Unpack, Zenon DEF XicsTypeOK
    <2>5. \A p, q, r, t \in 0..Least : p <= q /\ q <= r /\ r < t => p < t BY DEF Least
    <2>6. presented(c).pri < icp'[c].cppr BY <2>1, <2>2, <2>3, <2>4, <2>5, Zenon
    <2> QED BY <1>5, <2>6, IcpAfter, Zenon DEF irq
  <1>9. ASSUME age[i] >= 3 PROVE core_irq'[c]
    <2>1. icp[c].irq BY <1>9 DEF XInv, DueStages
    <2> QED BY <1>5, <2>1, IcpAfter
  <1>10. xives'[i].server = c /\ xives'[i].pri = xives[i].pri BY <1>2
  <1>11. prio_unpack(xives[i].pri)' = prio_unpack(xives[i].pri) BY <1>10 DEF prio_unpack
  <1> HIDE DEF c
  <1> QED BY <1>2, <1>4, <1>6, <1>7, <1>8, <1>9, <1>10, <1>11, Zenon DEF DueStages

(* A quiet controller has every input that waits for a CPU in front of it,   *)
(* and presents the best of them.                                            *)
LEMMA StagesSettle == XInv => Settled
  <1> SUFFICES ASSUME XInv, settle = Latency, NEW c \in Cpu
               PROVE  /\ core_irq[c] <=> \E w \in Waiting(c) : w[2] < icp[c].cppr
                      /\ IF Waiting(c) = {} THEN icp[c].xisr = 0 /\ presented(c).pri = Least
                         ELSE \E w \in Waiting(c) : /\ w = <<icp[c].xisr, presented(c).pri>>
                                                    /\ \A v \in Waiting(c) : w[2] <= v[2]
    BY DEF Settled
  <1>1. /\ int_level_l = int_level_in
        /\ icp_out[c] = irq_gen(c)
        /\ icp[c].xisr = presented(c).xisr
        /\ core_irq[c] = (presented(c).pri < icp[c].cppr)
    BY DEF XInv, QuietStages, Latency, irq
  <1> DEFINE p == presented(c).pri
             x == presented(c).xisr
             g == irq_gen(c)
             m == icp[c].mfrr
             W == Waiting(c)
  <1>2. XicsTypeOK BY DEF XInv
  <1>3. /\ g.src \in Src /\ g.pri \in 0..Least
        /\ \A i \in directed(c) : g.pri <= prio_unpack(xives[i].pri)
        /\ g.pri # Least => /\ g.src \in directed(c) /\ xives[g.src].pri = g.pri
                            /\ xives[g.src].pri # pri_masked
    BY <1>2, IrqGen
  <1>4. m \in 0..Least /\ icp[c].cppr \in 0..Least /\ p \in 0..Least BY <1>2, Presented DEF XicsTypeOK
  <1>5. ASSUME p # Least PROVE <<x, p>> \in W
    <2>1. CASE m < g.pri
      <3>1. x = IpiSource /\ p = m BY <1>1, <2>1 DEF presented
      <3> QED BY <1>5, <3>1 DEF Waiting
    <2>2. CASE ~(m < g.pri)
      <3>1. x = FirstSource + g.src /\ p = g.pri /\ g.pri # Least BY <1>1, <1>5, <2>2 DEF presented
      <3>2. /\ g.src \in Src /\ int_level_in[g.src] /\ xives[g.src].server = c
            /\ xives[g.src].pri # pri_masked /\ xives[g.src].pri = p
        BY <1>1, <1>3, <3>1 DEF directed
      <3> QED BY <3>1, <3>2 DEF Waiting
    <2> QED BY <2>1, <2>2
  <1>6. ASSUME NEW v \in W PROVE p <= v[2] /\ v[2] \in 0..Least /\ v[2] # Least
    <2>1. CASE v = <<IpiSource, m>> /\ m # Least
      <3>1. p = m \/ (p = g.pri /\ ~(m < g.pri)) BY <1>1 DEF presented
      <3>2. \A q, r \in 0..Least : q <= q /\ (~(q < r) => r <= q) BY DEF Least
      <3>3. p <= m BY <1>3, <1>4, <3>1, <3>2, Zenon
      <3> QED BY <1>4, <2>1, <3>3
    <2>2. ASSUME NEW j \in Src, int_level_in[j], xives[j].server = c, xives[j].pri # pri_masked,
                 v = <<FirstSource + j, xives[j].pri>>
          PROVE  p <= v[2] /\ v[2] \in 0..Least /\ v[2] # Least
      <3>1. j \in directed(c) BY <1>1, <2>2 DEF directed
      <3>2. xives[j].pri \in Pri BY <1>2 DEF XicsTypeOK
      <3>3. g.pri <= xives[j].pri /\ xives[j].pri < Least /\ xives[j].pri \in 0..Least
        BY <1>3, <2>2, <3>1, <3>2, Unpack
      <3>4. p <= g.pri BY <1>1, <1>2, Presented
      <3>5. \A q, r, t \in 0..Least : q <= r /\ r <= t => q <= t BY DEF Least
      <3>6. p <= xives[j].pri BY <1>3, <1>4, <3>3, <3>4, <3>5, Zenon
      <3>7. xives[j].pri # Least BY <3>3 DEF Least
      <3> QED BY <2>2, <3>3, <3>6, <3>7
    <2> QED BY <2>1, <2>2 DEF Waiting
  <1>below. \A q, r \in 0..Least : q < r => q # Least BY DEF Least
  <1>7. p = Least => x = 0 /\ W = {}
    <2>1. ASSUME p = Least, W # {} PROVE FALSE
      <3>1. PICK v : v \in W BY <2>1, Zenon
      <3>2. Least <= v[2] /\ v[2] \in 0..Least /\ v[2] # Least BY <1>6, <2>1, <3>1, Zenon
      <3>3. \A q \in 0..Least : Least <= q => q = Least BY DEF Least
      <3> QED BY <3>2, <3>3, Zenon
    <2>2. ASSUME p = Least PROVE x = 0
      <3>1. m < g.pri => p = m BY <1>1, Zenon DEF presented
      <3>2. ~(m < g.pri) BY <1>3, <1>4, <1>below, <2>2, <3>1, Zenon
      <3>3. g.pri # Least => p = g.pri BY <1>1, <3>2 DEF presented
      <3> QED BY <1>1, <2>2, <3>2, <3>3 DEF presented
    <2> QED BY <2>1, <2>2, Zenon
  <1>8. core_irq[c] <=> \E w \in W : w[2] < icp[c].cppr
    <2>1. p < icp[c].cppr => p # Least BY <1>4, <1>below, Zenon
    <2>2. p < icp[c].cppr => \E w \in W : w[2] < icp[c].cppr
      <3>1. p < icp[c].cppr => <<x, p>> \in W BY <1>5, <2>1, Zenon
      <3>2. <<x, p>>[2] = p OBVIOUS
      <3> QED BY <3>1, <3>2, Zenon
    <2>3. ASSUME NEW w \in W, w[2] < icp[c].cppr PROVE p < icp[c].cppr
      <3>1. \A q, r, t \in 0..Least : q <= r /\ r < t => q < t BY DEF Least
      <3> QED BY <1>4, <1>6, <2>3, <3>1, Zenon
    <2> QED BY <1>1, <2>2, <2>3, Zenon
  <1>9. CASE p = Least BY <1>1, <1>7, <1>8, <1>9
  <1>10. CASE p # Least
    <2>1. <<x, p>> \in W /\ \A v \in W : p <= v[2] BY <1>5, <1>6, <1>10
    <2> QED BY <1>1, <1>8, <2>1
  <1> QED BY <1>9, <1>10

(* Four clocks of staying due are enough. *)
LEMMA StagesPrompt == XInv => Prompt
  BY DEF XInv, DueStages, Prompt, Latency

(* The controller starts in the invariant. *)
LEMMA XInvInit == XicsInit => XInv
  BY TypeInit DEF XicsInit, XInv, QuietStages, DueStages

(* A reset leads back into it: settle and age are 0, so no stage speaks of   *)
(* the registers that xics.vhdl does not reset.                              *)
LEMMA XInvReset ==
    ASSUME XInv, NEW level \in [Src -> BOOLEAN], XicsReset(level)
    PROVE  XInv'
  <1> USE DEF XicsReset
  <1>1. icp_out' \in [Cpu -> [src : Src, pri : 0..Least]] BY IrqGen DEF XInv
  <1>2. core_irq' \in [Cpu -> BOOLEAN] BY DEF XInv, XicsTypeOK
  <1>3. /\ xives' \in [Src -> [pri : Pri, server : Cpu]]
        /\ icp' \in [Cpu -> [xisr : {0, IpiSource} \cup {FirstSource + i : i \in Src},
                             cppr : 0..Least, mfrr : 0..Least, irq : BOOLEAN]]
        /\ settle' \in 0..Latency /\ age' \in [Src -> 0..Latency]
    BY XicsAssumption, MaskedRange DEF XiveInit, IcpInit, Cpu, Src, Pri, Least, IpiSource, Latency
  <1>4. XicsTypeOK' BY <1>1, <1>2, <1>3 DEF XInv, XicsTypeOK
  <1>5. QuietStages' BY DEF QuietStages
  <1>6. \A i \in Src : DueStages(i)' BY DEF DueStages
  <1> QED BY <1>4, <1>5, <1>6 DEF XInv

(* The stages are an invariant of the controller. *)
THEOREM Stages == XicsSpec => []XInv
  <1>1. XInv /\ [XicsNext]_xvars => XInv'
    <2> SUFFICES ASSUME XInv, [XicsNext]_xvars PROVE XInv' OBVIOUS
    <2>1. ASSUME NEW level \in [Src -> BOOLEAN], XicsReset(level) PROVE XInv' BY <2>1, XInvReset
    <2>2. ASSUME NEW level \in [Src -> BOOLEAN], NEW a \in XicsAccess, XicsClock(a, level) PROVE XInv'
      <3>1. XicsTypeOK' BY <2>2, TypeClock DEF XInv
      <3>2. QuietStages' BY <2>2, QuietStep
      <3>3. \A i \in Src : DueStages(i)' BY <2>2, DueStep
      <3> QED BY <3>1, <3>2, <3>3 DEF XInv
    <2>3. CASE UNCHANGED xvars
      <3> USE <2>3 DEF xvars
      <3>1. XicsTypeOK' BY DEF XInv, XicsTypeOK
      <3>2. \A c \in Cpu : /\ irq_gen(c)' = irq_gen(c) /\ presented(c)' = presented(c)
                           /\ irq(c, icp[c].cppr)' = irq(c, icp[c].cppr)
        BY ZenonT(60) DEF irq_gen, directed, presented, irq
      <3>3. QuietStages' BY <3>2 DEF XInv, QuietStages
      <3>4. \A i \in Src : DueStages(i)' BY DEF XInv, DueStages, Due
      <3> QED BY <3>1, <3>3, <3>4 DEF XInv
    <2> QED BY <2>1, <2>2, <2>3 DEF XicsNext
  <1> QED BY XInvInit, <1>1, PTL DEF XicsSpec

(* xics.vhdl presents to each CPU the most favoured interrupt that waits for *)
(* it, once things have been quiet for four clocks, and interrupts the core  *)
(* four clocks after an input became due, quiet or not: for every number of  *)
(* CPUs and sources, every PRIO_BITS and every sequence of accesses.         *)
THEOREM Presentation == XicsSpec => []Presents
  BY Stages, StagesSettle, StagesPrompt, PTL DEF Presents
=============================================================================
