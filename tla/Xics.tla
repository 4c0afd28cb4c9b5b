-------------------------------- MODULE Xics --------------------------------
(* The interrupt controller of xics.vhdl: the source unit (ICS), which picks  *)
(* for each CPU the most favoured of the asserted inputs directed to it, and  *)
(* the presenter (ICP), which compares that and the MFRR with the CPPR.  The  *)
(* choice crosses int_level_l, icp_out, the ICP registers and core_irq_out,   *)
(* a clock each.  A smaller number is a more favoured priority.               *)
EXTENDS Naturals, FiniteSets

CONSTANTS NCPUS, SRC_NUM,
          PRIO_BITS,
          Cpprs, Mfrrs, Pris   \* values software writes to CPPR, MFRR and an XIVE

ASSUME XicsAssumption == /\ NCPUS \in Nat \ {0} /\ SRC_NUM \in Nat \ {0}
                         /\ PRIO_BITS \in 1..6
                         /\ Cpprs \cup Mfrrs \cup Pris \subseteq 0..255

Cpu == 0..(NCPUS - 1)
Src == 0..(SRC_NUM - 1)
pri_masked == 2^PRIO_BITS - 1
Pri == 0..pri_masked
Least == 255             \* x"ff": masks everything
IpiSource == 2           \* XISR of an MFRR interrupt
FirstSource == 16        \* XISR of int_level_in(0)
Latency == 4             \* registers between an input and the core

VARIABLES int_level_in, int_level_l,
          xives,         \* Src -> pri, server
          icp_out,       \* Cpu -> src, pri
          icp,           \* Cpu -> xisr, cppr, mfrr, irq
          core_irq,
          settle,        \* ghost: edges since an input, XIVE, CPPR or MFRR changed
          age            \* ghost: edges for which an input has been due to a CPU

xvars == <<int_level_in, int_level_l, xives, icp_out, icp, core_irq, settle, age>>

(* Source unit *)

prio_pack(pri8) == IF pri8 >= pri_masked THEN pri_masked ELSE pri8
prio_unpack(pri) == IF pri = pri_masked THEN Least ELSE pri
server_check(s) == IF s < NCPUS THEN s ELSE 0

directed(c) == {i \in Src : int_level_l[i] /\ xives[i].server = c}

(* priority_encoder: the lowest number present, or the highest of the range. *)
encode(S, highest) == CHOOSE n \in S \cup {highest} : \A k \in S \cup {highest} : n <= k

\* variant: the lowest-numbered input wins whatever its priority
FirstInput(c) == LET i == encode(directed(c), SRC_NUM - 1)
                 IN [src |-> i, pri |-> IF directed(c) = {} THEN Least ELSE prio_unpack(xives[i].pri)]
irq_gen(c) ==
    LET max_pri == encode({xives[i].pri : i \in directed(c)}, pri_masked)
    IN [src |-> encode({i \in directed(c) : xives[i].pri = max_pri}, SRC_NUM - 1),
        pri |-> prio_unpack(max_pri)]

(* Presenter *)

(* What is presented to a CPU: the source unit's choice unless the MFRR is   *)
(* more favoured.                                                            *)
presented(c) ==
    IF icp[c].mfrr < icp_out[c].pri THEN [xisr |-> IpiSource, pri |-> icp[c].mfrr]
    ELSE IF icp_out[c].pri # Least THEN [xisr |-> FirstSource + icp_out[c].src, pri |-> icp_out[c].pri]
    ELSE [xisr |-> 0, pri |-> Least]

(* A Wishbone access: a write of CPPR (XIRR or XIRR_POLL) or MFRR, a word    *)
(* read of XIRR, which accepts, a word or byte write of an XIVE, or none (any *)
(* other read).                                                              *)
XicsAccess == {[op |-> "none"]}
          \cup [op : {"cppr"}, cpu : Cpu, val : Cpprs]
          \cup [op : {"mfrr"}, cpu : Cpu, val : Mfrrs]
          \cup [op : {"accept"}, cpu : Cpu]
          \cup [op : {"xive"}, src : Src, sel : {{"pri", "server"}}, pri : Pris, server : {NCPUS - 1}]
          \cup [op : {"xive"}, src : Src, sel : {{"pri"}}, pri : Pris, server : {0}]
          \cup [op : {"xive"}, src : Src, sel : {{"server"}}, pri : {Least}, server : {NCPUS}]

writes(a, op, c) == a.op = op /\ a.cpu = c
accepts(a, c) == a.op = "accept" /\ a.cpu = c

irq(c, cppr) == presented(c).pri < cppr

next_cppr(a, c) == IF accepts(a, c) THEN presented(c).pri
                   ELSE IF writes(a, "cppr", c) THEN a.val ELSE icp[c].cppr

Presenter(a) ==
    icp' = [c \in Cpu |-> [xisr |-> presented(c).xisr,
                           cppr |-> next_cppr(a, c),
                           mfrr |-> IF writes(a, "mfrr", c) THEN a.val ELSE icp[c].mfrr,
                           irq  |-> irq(c, next_cppr(a, c))]]

reg_write(a) ==
    xives' = IF a.op # "xive" THEN xives
             ELSE [xives EXCEPT
                     ![a.src].pri = IF "pri" \in a.sel THEN prio_pack(a.pri) ELSE @,
                     ![a.src].server = IF "server" \in a.sel THEN server_check(a.server) ELSE @]

(* The input should interrupt the CPU its XIVE names. *)
Due(i) == int_level_in[i] /\ prio_unpack(xives[i].pri) < icp[xives[i].server].cppr
Next1(n) == IF n < Latency THEN n + 1 ELSE n

XicsClock(a, level) ==
    /\ int_level_in' = level
    /\ int_level_l' = int_level_in
    /\ icp_out' = [c \in Cpu |-> irq_gen(c)]
    /\ core_irq' = [c \in Cpu |-> icp[c].irq]
    /\ reg_write(a)
    /\ Presenter(a)
    /\ settle' = IF \/ level # int_level_in \/ xives' # xives
                    \/ \E c \in Cpu : <<icp'[c].cppr, icp'[c].mfrr>> # <<icp[c].cppr, icp[c].mfrr>>
                 THEN 0 ELSE Next1(settle)
    /\ age' = [i \in Src |-> IF Due(i)' /\ xives'[i] = xives[i]
                             THEN IF Due(i) THEN Next1(age[i]) ELSE 0 ELSE 0]

IcpInit == [c \in Cpu |-> [xisr |-> 0, cppr |-> 0, mfrr |-> Least, irq |-> FALSE]]
XiveInit == [i \in Src |-> [pri |-> pri_masked, server |-> 0]]

XicsInit == /\ int_level_in = [i \in Src |-> FALSE] /\ int_level_l = int_level_in
        /\ xives = XiveInit
        /\ icp_out = [c \in Cpu |-> [src |-> SRC_NUM - 1, pri |-> Least]]
        /\ icp = IcpInit
        /\ core_irq = [c \in Cpu |-> FALSE]
        /\ settle = 0 /\ age = [i \in Src |-> 0]

(* rst = '1': the latch, icp_out and core_irq_out have no reset. *)
XicsReset(level) ==
    /\ int_level_in' = level
    /\ int_level_l' = int_level_in
    /\ icp_out' = [c \in Cpu |-> irq_gen(c)]
    /\ core_irq' = [c \in Cpu |-> icp[c].irq]
    /\ xives' = XiveInit
    /\ icp' = IcpInit
    /\ settle' = 0 /\ age' = [i \in Src |-> 0]

XicsNext == \E level \in [Src -> BOOLEAN] : XicsReset(level) \/ \E a \in XicsAccess : XicsClock(a, level)

XicsSpec == XicsInit /\ [][XicsNext]_xvars

-----------------------------------------------------------------------------
(* Registers keep their widths; a server that does not exist is never stored,*)
(* so that every source is directed to some CPU.                             *)
XicsTypeOK ==
    /\ int_level_in \in [Src -> BOOLEAN] /\ int_level_l \in [Src -> BOOLEAN]
    /\ xives \in [Src -> [pri : Pri, server : Cpu]]
    /\ icp_out \in [Cpu -> [src : Src, pri : 0..Least]]
    /\ icp \in [Cpu -> [xisr : {0, IpiSource} \cup {FirstSource + i : i \in Src},
                        cppr : 0..Least, mfrr : 0..Least, irq : BOOLEAN]]
    /\ core_irq \in [Cpu -> BOOLEAN]
    /\ settle \in 0..Latency /\ age \in [Src -> 0..Latency]

(* The interrupts that wait for a CPU, with their priorities. *)
Waiting(c) ==
    {<<FirstSource + i, xives[i].pri>> :
        i \in {j \in Src : int_level_in[j] /\ xives[j].server = c /\ xives[j].pri # pri_masked}}
    \cup (IF icp[c].mfrr = Least THEN {} ELSE {<<IpiSource, icp[c].mfrr>>})

(* Once the inputs and the registers have kept their values for the four     *)
(* clocks the choice takes to reach the core, the core is interrupted exactly *)
(* when something more favoured than its CPPR waits for it, and an XIRR read *)
(* returns one of the most favoured of what waits (nothing, if nothing does),*)
(* at the priority that accepting it puts into the CPPR.                     *)
Settled ==
    settle = Latency => \A c \in Cpu :
        /\ core_irq[c] <=> \E w \in Waiting(c) : w[2] < icp[c].cppr
        /\ IF Waiting(c) = {} THEN icp[c].xisr = 0 /\ presented(c).pri = Least
           ELSE \E w \in Waiting(c) : /\ w = <<icp[c].xisr, presented(c).pri>>
                                      /\ \A v \in Waiting(c) : w[2] <= v[2]

(* An input that has been asserted, directed to a CPU and more favoured than *)
(* its CPPR for four clocks interrupts it, whatever the other inputs, the    *)
(* MFRR and software have done meanwhile: no change elsewhere holds it back. *)
Prompt == \A i \in Src : age[i] = Latency => core_irq[xives[i].server]

(* What the controller presents: the right interrupt once things have been   *)
(* quiet for four clocks, and, quiet or not, every interrupt that has been   *)
(* due for as long.                                                          *)
Presents == Settled /\ Prompt
=============================================================================
