--------------------------------- MODULE Dmi ---------------------------------
(***************************************************************************)
(* The debug side of the SoC: the JTAG to DMI bridge (dmi_dtm_xilinx.vhdl) *)
(* with its two clock domains, the DMI interconnect of soc.vhdl, and the   *)
(* two DMI slaves, wishbone_debug_master.vhdl and core_debug.vhdl.         *)
(*                                                                         *)
(* SysEdge is one edge of the system clock, TckEdge one edge of the JTAG   *)
(* clock; the two interleave freely.  DMI registers are named instead of   *)
(* numbered.  Memory is an array of doublewords, addresses wrap at its     *)
(* end.  The address fields of the log and trigger registers keep only the *)
(* bits that matter: LOG_STOP is the bit just above the log address.       *)
(***************************************************************************)
EXTENDS Integers, Sequences, FiniteSets

CONSTANTS MEM_WORDS,    \* doublewords of memory behind the debug bus master
          LOG_LENGTH,   \* entries of the log buffer
          LOG_WORDS     \* doublewords of an entry: 4

ASSUME DmiAssumption == /\ MEM_WORDS \in Nat \ {0}
                        /\ LOG_LENGTH \in Nat \ {0} /\ LOG_WORDS \in Nat \ {0}

WbRegs == {"WB_ADDR", "WB_DATA", "WB_CTRL"}
CoreRegs == {"CTRL", "STAT", "NIA", "MSR", "GSPR_INDEX", "GSPR_DATA",
             "LOG_ADDR", "LOG_DATA", "ltrig", "mtrig"}
Triggers == {"ltrig", "mtrig"}

\* Bits of the CTRL register.
STOP == 1
RESET == 2
ICRESET == 4
STEP == 8
START == 16
Bit(v, b) == (v \div b) % 2 = 1

\* DMI operations and the busy answer of the bridge.
NOP == 0
RD == 1
WR == 2
BSY == 3

\* The log address register: a doubleword index and the stop bit.
LOG_STOP == LOG_WORDS * LOG_LENGTH
LowWord == 2 * LOG_STOP

VARIABLES
  dtm,      \* the bridge: shift register, latched request, synchronisers
  wbm,      \* wishbone_debug_master
  bus,      \* its wishbone cycle: "none", or "taken" by the slave
  mem,      \* memory
  dbg,      \* core_debug: control latches
  log,      \* core_debug: log buffer and its read pipeline
  core,     \* the core as core_debug sees it
  effects   \* ghost: side effects the latched request has had
tvars == <<dtm, wbm, bus, mem, dbg, log, core, effects>>

req == dtm.req1
addr == dtm.request.addr
wr == dtm.request.op = WR
dout == dtm.request.data
wb_req == req /\ addr \in WbRegs
core_req == req /\ addr \in CoreRegs

----------------------------------------------------------------------------
\* What the slaves answer.

Num(b) == IF b THEN 1 ELSE 0

stat_reg == 4 * Num(dbg.terminated) + 2 * Num(core.stopped) + Num(dbg.stopping)

log_write_addr == LOG_LENGTH + log.wr_ptr

dmi_din == CASE addr = "WB_ADDR" -> wbm.addr
             [] addr = "WB_DATA" -> wbm.latch
             [] addr = "WB_CTRL" -> wbm.ctrl
             [] addr = "STAT" -> stat_reg
             [] addr = "GSPR_DATA" -> core.data
             [] addr = "LOG_ADDR" -> log_write_addr * LowWord + dbg.log_addr
             [] addr = "LOG_DATA" -> log.data
             [] addr \in Triggers -> dbg.trig[addr]
             [] OTHER -> 0

wb_ack == wb_req /\ (addr # "WB_DATA" \/ wbm.state = "DMI_WAIT")

core_ack == IF addr = "GSPR_DATA" THEN core.ack ELSE req

dmi_ack == IF addr \in WbRegs THEN wb_ack
           ELSE IF addr \in CoreRegs THEN core_ack ELSE req

----------------------------------------------------------------------------
\* wishbone_debug_master on a system clock edge.

wb_trigger(ack) ==
  CASE wbm.state = "IDLE" -> IF wb_req /\ addr = "WB_DATA" THEN "WB_CYCLE" ELSE "IDLE"
    [] wbm.state = "WB_CYCLE" -> IF ack THEN "DMI_WAIT" ELSE "WB_CYCLE"
    [] wbm.state = "DMI_WAIT" -> IF wb_req THEN "DMI_WAIT" ELSE "IDLE"

decode_autoinc(ctrl) == 2 ^ (ctrl \div 512)

reg_addr_next ==
  IF wbm.do_inc THEN (wbm.addr + decode_autoinc(wbm.ctrl)) % (8 * MEM_WORDS)
  ELSE IF wb_req /\ wr /\ addr = "WB_ADDR" THEN dout ELSE wbm.addr

word == wbm.addr \div 8

WbEdge(ack, stall) ==
  /\ wbm' = [addr |-> reg_addr_next,
             ctrl |-> IF ~wbm.do_inc /\ wb_req /\ wr /\ addr = "WB_CTRL" THEN dout ELSE wbm.ctrl,
             latch |-> IF wbm.state = "WB_CYCLE" /\ ack /\ ~wr THEN mem[word] ELSE wbm.latch,
             state |-> wb_trigger(ack),
             stb |-> CASE wbm.state = "IDLE" -> wb_req /\ addr = "WB_DATA"
                       [] wbm.state = "WB_CYCLE" -> wbm.stb /\ stall /\ ~ack
                       [] OTHER -> wbm.stb,
             do_inc |-> CASE wbm.state = "WB_CYCLE" -> IF ack THEN Bit(wbm.ctrl, 256) ELSE wbm.do_inc
                          [] wbm.state = "DMI_WAIT" -> FALSE
                          [] OTHER -> wbm.do_inc]
  \* the memory: takes the request when it does not stall, answers later
  /\ ack => bus = "taken"
  /\ bus' = IF ack THEN "none" ELSE IF wbm.stb /\ ~stall THEN "taken" ELSE bus
  /\ mem' = IF ack /\ wr /\ wbm.ctrl % 256 = 255 THEN [mem EXCEPT ![word] = dout] ELSE mem

----------------------------------------------------------------------------
\* core_debug on a system clock edge.  hit is the set of triggers whose
\* address the core or the bus touches, terminate the core's attn.

\* variant: a pulse on every clock of the request.
LevelShot == core_req

\* Edge detect on dmi_req: one pulse per request.
one_shot == core_req /\ ~dbg.req_1

delay_end == dbg.delay = 255 \/ (LOG_LENGTH < 1024 /\ dbg.delay = LOG_LENGTH \div 4)
counting == (\E t \in Triggers : dbg.do_trig[t]) \/ dbg.delay # 0

Ctrl(b) == one_shot /\ wr /\ addr = "CTRL" /\ Bit(dout, b)

SetHit(v, b) == 4 * (v \div 4) + (v % 2) + 2 * Num(b)

\* The log address moves on at the end of a read of LOG_DATA.
inc_log_addr == ~dbg.rd_log /\ dbg.rd_log_1

LogAddrPlus1 == (dbg.log_addr - (dbg.log_addr % LOG_STOP)) + ((dbg.log_addr + 1) % LOG_STOP)

reg_write(hit, terminate) ==
  dbg' = [stopping |-> \/ terminate
                       \/ ~Ctrl(START) /\ (Ctrl(STOP) \/ dbg.stopping),
          terminated |-> \/ terminate
                         \/ ~Ctrl(RESET) /\ ~Ctrl(STEP) /\ ~Ctrl(START) /\ dbg.terminated,
          do_step |-> Ctrl(STEP),
          do_reset |-> Ctrl(RESET),
          do_icreset |-> Ctrl(ICRESET),
          req_1 |-> core_req,
          index |-> IF one_shot /\ wr /\ addr = "GSPR_INDEX" THEN dout ELSE dbg.index,
          log_addr |-> IF one_shot
                       THEN IF wr /\ addr = "LOG_ADDR" THEN dout % LowWord ELSE dbg.log_addr
                       ELSE IF inc_log_addr THEN LogAddrPlus1 ELSE dbg.log_addr,
          do_log_rd |-> IF one_shot THEN wr /\ addr = "LOG_ADDR" ELSE inc_log_addr,
          rd_log |-> core_req /\ addr = "LOG_DATA",
          rd_log_1 |-> dbg.rd_log,
          trig |-> [t \in Triggers |->
                      IF one_shot /\ wr /\ addr = t THEN dout
                      ELSE IF counting /\ delay_end THEN SetHit(dbg.trig[t], dbg.was[t])
                      ELSE dbg.trig[t]],
          do_trig |-> [t \in Triggers |-> t \in hit /\ Bit(dbg.trig[t], 1)],
          was |-> [t \in Triggers |-> dbg.do_trig[t] \/ (dbg.was[t] /\ ~(counting /\ delay_end))],
          delay |-> IF counting THEN IF delay_end THEN 0 ELSE dbg.delay + 1 ELSE dbg.delay]

log_wr_enable == ~(dbg.log_addr >= LOG_STOP \/ \E t \in Triggers : Bit(dbg.trig[t], 2))

\* log_ram and log_buffer.  What is logged is which lap of the buffer wrote it.
log_buffer ==
  log' = [array |-> IF log_wr_enable THEN [log.array EXCEPT ![log.wr_ptr] = log.toggle] ELSE log.array,
          wr_ptr |-> IF log_wr_enable THEN (log.wr_ptr + 1) % LOG_LENGTH ELSE log.wr_ptr,
          toggle |-> IF log_wr_enable /\ log.wr_ptr = LOG_LENGTH - 1 THEN 1 - log.toggle ELSE log.toggle,
          rd_ptr |-> IF dbg.do_log_rd THEN (dbg.log_addr % LOG_STOP) \div LOG_WORDS ELSE 0,
          rd |-> log.array[log.rd_ptr],
          reading |-> dbg.do_log_rd,
          done |-> log.reading,
          data |-> IF log.done THEN LOG_WORDS * log.rd + (dbg.log_addr % LOG_WORDS) ELSE log.data]

core_stop == dbg.stopping /\ ~dbg.do_step

\* The core (external): stops some time after core_stop, runs when it is withdrawn; its
\* register file answers a debug read when its B port is free.  Register r
\* holds the value r.  gspr_access and dbg_register_read.
CoreEdge(stops, free) ==
  core' = [stopped |-> core_stop /\ (core.stopped \/ stops),
           gpr_req |-> core_req /\ addr = "GSPR_DATA",
           gpr_addr |-> dbg.index,
           done |-> core.gpr_req /\ (free \/ core.done),
           read |-> IF core.gpr_req /\ free THEN core.gpr_addr ELSE core.read,
           ack |-> core.gpr_req /\ (core.ack \/ core.done),
           data |-> IF core.gpr_req /\ ~core.ack /\ core.done THEN core.read ELSE core.data]

----------------------------------------------------------------------------
\* Side effects of a request: a wishbone cycle, an action of CTRL.
Effect == \/ wbm.state = "IDLE" /\ wbm'.state = "WB_CYCLE"
          \/ \E b \in {STOP, RESET, ICRESET, STEP, START} : Ctrl(b)

SysEdge(ack, stall, hit, terminate, stops, free) ==
  /\ dtm' = [dtm EXCEPT !.req0 = dtm.jtag_req, !.req1 = dtm.req0]
  /\ WbEdge(ack, stall)
  /\ reg_write(hit, terminate)
  /\ log_buffer
  /\ CoreEdge(stops, free)
  /\ effects' = IF Effect /\ effects < 2 THEN effects + 1 ELSE effects

----------------------------------------------------------------------------
\* The JTAG clock domain of the bridge.

\* variant: a new request may start while the last one is acknowledged.
BusyReq == dtm.jtag_req

jtag_bsy == dtm.jtag_req \/ dtm.ack_1

rsp_op == IF jtag_bsy THEN BSY ELSE NOP

\* dmi_din is sampled without a synchroniser: while the log runs, the bits of
\* the write pointer are caught in any state.
Sampled == IF addr = "LOG_ADDR" /\ log_wr_enable
           THEN {(LOG_LENGTH + p) * LowWord + dbg.log_addr : p \in 0 .. LOG_LENGTH - 1}
           ELSE {dmi_din}

\* One edge of tck.  kind is the state of the TAP, msg what has been shifted in.
TckEdge(kind, msg) ==
  LET update == kind = "update" /\ dtm.sel /\ msg.op \in {RD, WR} /\ ~jtag_bsy
      complete == dtm.sel /\ dtm.jtag_req /\ dtm.ack_1
  IN \E din \in Sampled :
       /\ dtm' = [dtm EXCEPT
                    !.ack_0 = dmi_ack,
                    !.ack_1 = dtm.ack_0,
                    !.jtag_req = update \/ (dtm.jtag_req /\ ~complete),
                    !.request = IF update THEN msg
                                ELSE IF complete /\ ~wr
                                     THEN [op |-> dtm.request.op, addr |-> addr, data |-> din]
                                ELSE dtm.request,
                    !.shiftr = IF kind = "capture" /\ dtm.sel
                               THEN [op |-> rsp_op, data |-> dout] ELSE dtm.shiftr]
       /\ effects' = IF update THEN 0 ELSE effects
       /\ UNCHANGED <<wbm, bus, mem, dbg, log, core>>

TargetInit(logging) ==
  /\ dtm = [shiftr |-> [op |-> NOP, data |-> 0], request |-> [op |-> NOP, addr |-> "WB_ADDR", data |-> 0],
            jtag_req |-> FALSE, ack_0 |-> FALSE, ack_1 |-> FALSE, req0 |-> FALSE, req1 |-> FALSE,
            sel |-> FALSE]
  /\ wbm = [addr |-> 0, ctrl |-> 0, latch |-> 0, state |-> "IDLE", stb |-> FALSE, do_inc |-> FALSE]
  /\ bus = "none"
  /\ mem = [w \in 0 .. MEM_WORDS - 1 |-> w]
  /\ dbg = [stopping |-> FALSE, terminated |-> FALSE, do_step |-> FALSE, do_reset |-> FALSE,
            do_icreset |-> FALSE, req_1 |-> FALSE, index |-> 0, log_addr |-> IF logging THEN 0 ELSE LOG_STOP, do_log_rd |-> FALSE,
            rd_log |-> FALSE, rd_log_1 |-> FALSE, trig |-> [t \in Triggers |-> 0],
            do_trig |-> [t \in Triggers |-> FALSE], was |-> [t \in Triggers |-> FALSE], delay |-> 0]
  /\ log = [array |-> [e \in 0 .. LOG_LENGTH - 1 |-> 1], wr_ptr |-> 0, toggle |-> 0, rd_ptr |-> 0,
            rd |-> 1, reading |-> FALSE, done |-> FALSE, data |-> 0]
  /\ core = [stopped |-> FALSE, gpr_req |-> FALSE, gpr_addr |-> 0, done |-> FALSE, read |-> 0,
             ack |-> FALSE, data |-> 0]
  /\ effects = 0
==============================================================================
