---------------------------- MODULE MwDebugProofs ----------------------------
(***************************************************************************)
(* Proofs about the debug link: that requests and data cross between the   *)
(* two clocks of dmi_dtm_xilinx.vhdl whole, that a request acts once, and  *)
(* that polling as mw_debug.c polls is enough for a request to be taken.   *)
(* They hold for every command line, backend and memory, and for clients   *)
(* that are killed and calls that fail.                                    *)
(*                                                                         *)
(* The inductive invariant has two halves.  Wave is about the target: the  *)
(* four-phase handshake, a wave that runs through the request line, its    *)
(* two synchronisers, the acknowledge of the slave and its two             *)
(* synchronisers, together with what the slaves remember of the last       *)
(* request.  Host is about the client: what the scan in progress carries,  *)
(* and when the client may rely on the bridge being idle.                  *)
(***************************************************************************)
EXTENDS MwDebug, TLAPS

----------------------------------------------------------------------------
\* The inductive invariant.

\* The records that are updated field by field.
BridgeFields ==
  dtm = [shiftr |-> dtm.shiftr, request |-> dtm.request, jtag_req |-> dtm.jtag_req,
         ack_0 |-> dtm.ack_0, ack_1 |-> dtm.ack_1, req0 |-> dtm.req0, req1 |-> dtm.req1,
         sel |-> dtm.sel]

Shape ==
  /\ BridgeFields
  /\ h = [st |-> h.st, client |-> h.client, cmd |-> h.cmd, got |-> h.got, ph |-> h.ph,
          init |-> h.init, refused |-> h.refused, abandoned |-> h.abandoned]
  /\ link = [st |-> link.st, msg |-> link.msg, resp |-> link.resp, n |-> link.n,
             orphan |-> link.orphan, alive |-> link.alive]

Bits ==
  /\ dtm.jtag_req \in BOOLEAN /\ dtm.ack_0 \in BOOLEAN /\ dtm.ack_1 \in BOOLEAN
  /\ dtm.req0 \in BOOLEAN /\ dtm.req1 \in BOOLEAN /\ dtm.sel \in BOOLEAN
  /\ dbg.req_1 \in BOOLEAN
  /\ core.gpr_req \in BOOLEAN /\ core.done \in BOOLEAN /\ core.ack \in BOOLEAN
  /\ wbm.state \in {"IDLE", "WB_CYCLE", "DMI_WAIT"}
  /\ effects \in {0, 1}

\* The request acts on the bus or on the core.
Commands == \E b \in {STOP, RESET, ICRESET, STEP, START} : Bit(dout, b)
Commanding == wr /\ addr = "CTRL" /\ Commands

\* The request is up and travels to the slave: every stage is up only when the
\* one before it is.  A slave may still be leaving the last request until the
\* new one is in the first synchroniser.
Rising ==
  /\ dtm.req1 => dtm.req0
  /\ dmi_ack => dtm.req1
  /\ dtm.ack_0 => dmi_ack
  /\ dtm.ack_1 => dtm.ack_0
  /\ wbm.state = "WB_CYCLE" => dtm.req1 /\ addr = "WB_DATA"
  /\ wbm.state = "DMI_WAIT" => (dtm.req1 /\ addr = "WB_DATA") \/ ~dtm.req0
  /\ dbg.req_1 => dtm.req1 \/ ~dtm.req0
  /\ core.gpr_req \/ core.done \/ core.ack => dtm.req1 /\ addr = "GSPR_DATA"
  /\ core.ack => core.gpr_req
  /\ addr = "WB_DATA" => (effects = 1 <=> dtm.req1 /\ wbm.state # "IDLE")
  /\ Commanding => (effects = 1 <=> dtm.req1 /\ dbg.req_1)

\* The request is down and so, one after the other, are the stages behind it;
\* what it was to do is done when it has left the second synchroniser.
Falling ==
  /\ dtm.req0 => dtm.req1
  /\ dtm.req1 => dmi_ack
  /\ dmi_ack => dtm.ack_0
  /\ dtm.ack_0 => dtm.ack_1
  /\ wbm.state # "WB_CYCLE"
  /\ wbm.state = "DMI_WAIT" => addr = "WB_DATA"
  /\ core.gpr_req \/ core.done \/ core.ack => addr = "GSPR_DATA"
  /\ core.gpr_req \/ core.done => core.ack
  /\ dtm.req1 /\ addr = "GSPR_DATA" => core.gpr_req
  /\ addr = "WB_DATA" => effects = 1
  /\ Commanding => (effects = 1 <=> ~dtm.req1 \/ dbg.req_1)
  /\ dtm.req1 /\ ~dtm.req0 /\ addr \in CoreRegs => dbg.req_1

\* The TAP has been reset and the chain not selected since: nothing is asked
\* of the slaves, and they may still be leaving an earlier request.
Deselected ==
  /\ ~dtm.jtag_req /\ ~dtm.ack_0 /\ ~dtm.ack_1
  /\ dtm.request.op = NOP /\ addr = "WB_ADDR"
  /\ ~Jtag => Quiet

Wave == /\ ~dtm.sel => Deselected
        /\ dtm.sel /\ dtm.jtag_req => Rising
        /\ dtm.sel /\ ~dtm.jtag_req => Falling

\* The bridge answers a scan with zero.
Idle == ~dtm.jtag_req /\ ~dtm.ack_1

\* The bridge has, or had last, the request o.
Carries(o) == o.op \in {RD, WR} =>
                /\ dtm.request.op = o.op /\ addr = o.addr
                /\ o.op = WR => dout = o.data

\* A sequence, of whatever values.
Listed(s) == Len(s) \in Nat /\ s = [i \in 1 .. Len(s) |-> s[i]]

Results == Listed(h.got)

Carrying == Carries(ops[Len(h.got) + 1])
Carried == Carries(ops[Len(h.got)])

HostBits ==
  /\ h.st \in {"off", "init", "run"} /\ h.ph \in {"req", "poll"}
  /\ h.init \in Nat \ {0}
  /\ h.refused \in BOOLEAN /\ h.abandoned \in BOOLEAN
  /\ link.st \in {"none", "sent", "shift", "done"}
  /\ link.orphan \in BOOLEAN /\ link.alive \in BOOLEAN
  /\ Results

\* A scan is under way only for a client that waits for it, or for one that
\* was killed in the simulator.
Scanning ==
  /\ Jtag => link.alive /\ ~link.orphan
  /\ ~dtm.sel => link.st = "none" /\ h.st # "run"
  /\ h.st = "init" => h.ph = "req" /\ h.got = <<>>
  /\ link.alive /\ link.orphan =>
       /\ link.st \in {"sent", "shift"} /\ h.abandoned
       /\ h.st = "run" => h.ph = "req" /\ h.got = <<>>
  /\ link.alive /\ ~link.orphan /\ link.st # "none" => h.st = "run" /\ ~CommandDone /\ link.msg = msg
  /\ link.alive /\ h.st = "run" /\ h.ph = "poll" => ~CommandDone

\* What the client has asked for and knows.
Asking ==
  /\ h.refused => h.abandoned /\ h.st # "init"
  /\ link.alive /\ ~h.abandoned /\ ~(h.st = "run" /\ (h.ph = "poll" \/ link.st = "done")) => Idle
  /\ link.alive /\ h.st = "run" =>
       /\ h.ph = "poll" /\ link.st \in {"shift", "done"} /\ link.resp.op = NOP => Idle
       /\ ~h.refused /\ (h.ph = "poll" \/ link.st = "done") => Carrying
       /\ ~h.refused /\ h.ph = "req" /\ link.st = "none" /\ h.got # <<>>
            => Idle /\ Carried

IInv == Shape /\ Bits /\ Wave /\ HostBits /\ Scanning /\ Asking

\* No client is stopped half way, and at least two system clocks fit in a scan.
Careful == scen.minsys >= 2 /\ ~scen.kill /\ ~scen.fails

LogBits ==
  /\ dbg.rd_log \in BOOLEAN /\ dbg.rd_log_1 \in BOOLEAN /\ dbg.do_log_rd \in BOOLEAN
  /\ log.reading \in BOOLEAN /\ log.done \in BOOLEAN
  /\ scen \in Scenarios /\ link.n \in Nat /\ (link.st = "sent" => link.n = 0)

\* The read ahead of the log is over before the next request reaches the
\* slaves, and none starts while LOG_DATA is requested.
LogWave ==
  /\ dtm.jtag_req /\ ~dtm.req1 => /\ ~dbg.rd_log /\ ~dbg.rd_log_1 /\ ~dbg.do_log_rd
                                  /\ dtm.req0 => ~log.reading
  /\ dtm.req1 /\ addr = "LOG_DATA" => /\ ~dbg.do_log_rd /\ ~log.reading /\ ~log.done
                                      /\ dbg.rd_log_1 => dbg.rd_log

\* The client's scans give it the time: the poll that ends a read, and the
\* scan of the next request.
Settling ==
  /\ ~h.abandoned
  /\ ~(h.st = "run" /\ (h.ph = "poll" \/ link.st = "done")) => ~dbg.rd_log /\ ~dbg.rd_log_1
  /\ h.st = "run" /\ h.ph = "req" /\ link.st = "shift" /\ link.n >= 1 => ~dbg.do_log_rd
  /\ h.st = "run" /\ h.ph = "poll" /\ link.resp.op = NOP =>
       /\ link.st = "shift" /\ link.n >= 1 => ~dbg.rd_log
       /\ link.st = "shift" /\ link.n >= 2 => ~dbg.rd_log_1
       /\ link.st = "done" => ~dbg.rd_log /\ ~dbg.rd_log_1

LogInv == LogBits /\ (Careful /\ link.alive => LogWave /\ Settling)

----------------------------------------------------------------------------
\* What the two clocks do to the handshake.

\* The request has its effect on this edge of the system clock.
Acts == \/ wbm.state = "IDLE" /\ dtm.req1 /\ addr = "WB_DATA"
        \/ dtm.req1 /\ ~dbg.req_1 /\ Commanding

SystemMoves ==
  /\ BridgeFields'
  /\ dtm'.jtag_req = dtm.jtag_req /\ dtm'.ack_0 = dtm.ack_0 /\ dtm'.ack_1 = dtm.ack_1
  /\ dtm'.sel = dtm.sel /\ dtm'.request = dtm.request
  /\ dtm'.req0 = dtm.jtag_req /\ dtm'.req1 = dtm.req0
  /\ wbm.state = "IDLE" =>
       wbm'.state = IF dtm.req1 /\ addr = "WB_DATA" THEN "WB_CYCLE" ELSE "IDLE"
  /\ wbm.state = "WB_CYCLE" => wbm'.state \in {"WB_CYCLE", "DMI_WAIT"}
  /\ wbm.state = "DMI_WAIT" =>
       wbm'.state = IF dtm.req1 /\ addr \in WbRegs THEN "DMI_WAIT" ELSE "IDLE"
  /\ dbg'.req_1 \in BOOLEAN /\ (dbg'.req_1 <=> dtm.req1 /\ addr \in CoreRegs)
  /\ core'.gpr_req \in BOOLEAN /\ (core'.gpr_req <=> dtm.req1 /\ addr = "GSPR_DATA")
  /\ core'.done \in BOOLEAN /\ (core'.done => core.gpr_req)
  /\ core'.ack \in BOOLEAN /\ (core'.ack <=> core.gpr_req /\ (core.ack \/ core.done))
  /\ effects' = IF Acts /\ effects < 2 THEN effects + 1 ELSE effects

\* An edge of the system clock: the synchroniser of the request, the bus
\* master's state, the registers behind the core's answers, and the effect.
LEMMA SystemEdge ==
  ASSUME Shape, Bits, NEW ack \in BOOLEAN, NEW stall \in BOOLEAN, NEW hit,
         NEW terminate \in BOOLEAN, NEW stops \in BOOLEAN, NEW free \in BOOLEAN,
         SysEdge(ack, stall, hit, terminate, stops, free)
  PROVE  SystemMoves
<1>1. /\ dtm'.jtag_req = dtm.jtag_req /\ dtm'.ack_0 = dtm.ack_0 /\ dtm'.ack_1 = dtm.ack_1
      /\ dtm'.sel = dtm.sel /\ dtm'.request = dtm.request
      /\ dtm'.req0 = dtm.jtag_req /\ dtm'.req1 = dtm.req0
      /\ BridgeFields'
  BY Zenon DEF SysEdge, Shape, BridgeFields
<1>2. wbm'.state = wb_trigger(ack)
  BY DEF SysEdge, WbEdge
<1>3. /\ wbm.state = "IDLE" =>
           wbm'.state = IF dtm.req1 /\ addr = "WB_DATA" THEN "WB_CYCLE" ELSE "IDLE"
      /\ wbm.state = "WB_CYCLE" => wbm'.state \in {"WB_CYCLE", "DMI_WAIT"}
      /\ wbm.state = "DMI_WAIT" =>
           wbm'.state = IF dtm.req1 /\ addr \in WbRegs THEN "DMI_WAIT" ELSE "IDLE"
  BY <1>2 DEF wb_trigger, wb_req, req, WbRegs, Bits
<1>4. dbg'.req_1 = (dtm.req1 /\ addr \in CoreRegs)
  BY DEF SysEdge, reg_write, core_req, req
<1>5. /\ core'.gpr_req = ((dtm.req1 /\ addr \in CoreRegs) /\ addr = "GSPR_DATA")
      /\ core'.done = (core.gpr_req /\ (free \/ core.done))
      /\ core'.ack = (core.gpr_req /\ (core.ack \/ core.done))
  BY DEF SysEdge, CoreEdge, core_req, req
<1>6. "GSPR_DATA" \in CoreRegs /\ "CTRL" \in CoreRegs
  BY DEF CoreRegs
<1>7. /\ dbg'.req_1 \in BOOLEAN /\ (dbg'.req_1 <=> dtm.req1 /\ addr \in CoreRegs)
      /\ core'.gpr_req \in BOOLEAN /\ (core'.gpr_req <=> dtm.req1 /\ addr = "GSPR_DATA")
      /\ core'.done \in BOOLEAN /\ (core'.done => core.gpr_req)
      /\ core'.ack \in BOOLEAN /\ (core'.ack <=> core.gpr_req /\ (core.ack \/ core.done))
  BY <1>4, <1>5, <1>6, Zenon DEF Bits
<1>8. wbm.state = "IDLE" /\ wbm'.state = "WB_CYCLE"
        <=> wbm.state = "IDLE" /\ dtm.req1 /\ addr = "WB_DATA"
  BY <1>3
<1>9. (\E b \in {STOP, RESET, ICRESET, STEP, START} : Ctrl(b))
        <=> dtm.req1 /\ ~dbg.req_1 /\ Commanding
  BY <1>6, Zenon DEF Ctrl, one_shot, core_req, req, Commanding, Commands
<1>10. Effect <=> Acts
  BY <1>8, <1>9, Zenon DEF Effect, Acts
<1>11. effects' = IF Acts /\ effects < 2 THEN effects + 1 ELSE effects
  BY <1>10 DEF SysEdge
<1> QED
  BY <1>1, <1>3, <1>7, <1>11, Zenon DEF SystemMoves

\* A request is latched, or the one under way is completed.
Latches(kind, m) == kind = "update" /\ dtm.sel /\ m.op \in {RD, WR} /\ ~jtag_bsy
Completes == dtm.sel /\ dtm.jtag_req /\ dtm.ack_1

BridgeMoves(kind, m) ==
  /\ BridgeFields'
  /\ dtm'.ack_0 \in BOOLEAN /\ (dtm'.ack_0 <=> dmi_ack) /\ dtm'.ack_1 = dtm.ack_0
  /\ dtm'.sel = dtm.sel /\ dtm'.req0 = dtm.req0 /\ dtm'.req1 = dtm.req1
  /\ dtm'.jtag_req \in BOOLEAN
  /\ dtm'.jtag_req <=> Latches(kind, m) \/ (dtm.jtag_req /\ ~Completes)
  /\ Latches(kind, m) => dtm'.request = m /\ effects' = 0
  /\ ~Latches(kind, m) =>
       /\ dtm'.request.op = dtm.request.op /\ addr' = addr
       /\ wr => dout' = dout
       /\ effects' = effects
  /\ kind = "capture" /\ dtm.sel => dtm'.shiftr.op = rsp_op
  /\ UNCHANGED <<wbm, bus, mem, dbg, log, core>>

\* An edge of tck: the synchroniser of the acknowledge, the request flag, and
\* the request, of which completion changes only the data of a read.
LEMMA BridgeEdge ==
  ASSUME Shape, Bits, dmi_ack \in BOOLEAN, NEW kind, NEW m, TckEdge(kind, m)
  PROVE  BridgeMoves(kind, m)
<1> DEFINE up == Latches(kind, m)
           request(din) == IF up THEN m
                           ELSE IF Completes /\ ~wr
                           THEN [op |-> dtm.request.op, addr |-> addr, data |-> din]
                           ELSE dtm.request
<1>1. PICK din \in Sampled :
        /\ dtm' = [dtm EXCEPT
                     !.ack_0 = dmi_ack,
                     !.ack_1 = dtm.ack_0,
                     !.jtag_req = up \/ (dtm.jtag_req /\ ~Completes),
                     !.request = request(din),
                     !.shiftr = IF kind = "capture" /\ dtm.sel
                                THEN [op |-> rsp_op, data |-> dout] ELSE dtm.shiftr]
        /\ effects' = IF up THEN 0 ELSE effects
        /\ UNCHANGED <<wbm, bus, mem, dbg, log, core>>
  BY Zenon DEF TckEdge, Latches, Completes
<1>2. /\ dtm'.ack_0 = dmi_ack /\ dtm'.ack_1 = dtm.ack_0
      /\ dtm'.sel = dtm.sel /\ dtm'.req0 = dtm.req0 /\ dtm'.req1 = dtm.req1
      /\ dtm'.jtag_req = (up \/ (dtm.jtag_req /\ ~Completes))
      /\ dtm'.request = request(din)
      /\ dtm'.shiftr = IF kind = "capture" /\ dtm.sel
                       THEN [op |-> rsp_op, data |-> dout] ELSE dtm.shiftr
      /\ BridgeFields'
  <2> HIDE DEF request, up
  <2> QED BY <1>1, Zenon DEF Shape, BridgeFields
<1>3. up => dtm'.request = m /\ effects' = 0
  BY <1>1, <1>2, Zenon
<1>4. ASSUME ~up
      PROVE  /\ dtm'.request.op = dtm.request.op /\ addr' = addr
             /\ wr => dout' = dout
             /\ effects' = effects
  <2>1. CASE Completes /\ ~wr
    <3>1. dtm'.request = [op |-> dtm.request.op, addr |-> addr, data |-> din]
      BY <1>2, <1>4, <2>1, Zenon
    <3> QED BY <3>1, <1>1, <1>4, <2>1 DEF addr
  <2>2. CASE ~(Completes /\ ~wr)
    BY <1>1, <1>2, <1>4, <2>2, Zenon DEF addr, dout
  <2> QED BY <2>1, <2>2, Zenon
<1>5. kind = "capture" /\ dtm.sel => dtm'.shiftr.op = rsp_op
  BY <1>2
<1> HIDE DEF request
<1> QED
  BY <1>1, <1>2, <1>3, <1>4, <1>5, Zenon DEF BridgeMoves

----------------------------------------------------------------------------
\* The wave goes round.

Acknowledged ==
  /\ dmi_ack \in BOOLEAN
  /\ addr = "WB_DATA" => (dmi_ack <=> dtm.req1 /\ wbm.state = "DMI_WAIT")
  /\ addr = "GSPR_DATA" => (dmi_ack <=> core.ack)
  /\ addr # "WB_DATA" /\ addr # "GSPR_DATA" => (dmi_ack <=> dtm.req1)

\* The acknowledge of the DMI interconnect is that of the slave addressed: the
\* bus master's at the end of its cycle, the register file's, or the request.
LEMMA Acknowledge == ASSUME Bits PROVE Acknowledged
<1>1. CASE addr \in WbRegs
  <2>1. dmi_ack = ((dtm.req1 /\ addr \in WbRegs) /\ (addr # "WB_DATA" \/ wbm.state = "DMI_WAIT"))
    BY <1>1, Zenon DEF dmi_ack, wb_ack, wb_req, req
  <2>2. addr # "GSPR_DATA"
    BY <1>1 DEF WbRegs
  <2> QED BY <1>1, <2>1, <2>2, Zenon DEF Acknowledged, Bits
<1>2. CASE addr \notin WbRegs
  <2>1. addr # "WB_DATA" /\ (addr = "GSPR_DATA" => addr \in CoreRegs)
    BY <1>2 DEF WbRegs, CoreRegs
  <2>2. dmi_ack = IF addr = "GSPR_DATA" THEN core.ack ELSE dtm.req1
    BY <1>2, <2>1, Zenon DEF dmi_ack, core_ack, req
  <2> QED BY <2>1, <2>2, Zenon DEF Acknowledged, Bits
<1> QED BY <1>1, <1>2, Zenon

\* The same in the next state.
LEMMA AcknowledgeNext == ASSUME Bits' PROVE Acknowledged'
<1>1. CASE addr' \in WbRegs
  <2>1. dmi_ack' = ((dtm'.req1 /\ addr' \in WbRegs)
                      /\ (addr' # "WB_DATA" \/ wbm'.state = "DMI_WAIT"))
    BY <1>1, Zenon DEF dmi_ack, wb_ack, wb_req, req, WbRegs
  <2>2. addr' # "GSPR_DATA"
    BY <1>1 DEF WbRegs
  <2> QED BY <1>1, <2>1, <2>2, Zenon DEF Acknowledged, Bits
<1>2. CASE addr' \notin WbRegs
  <2>1. addr' # "WB_DATA" /\ (addr' = "GSPR_DATA" => addr' \in CoreRegs)
    BY <1>2 DEF WbRegs, CoreRegs
  <2>2. dmi_ack' = IF addr' = "GSPR_DATA" THEN core'.ack ELSE dtm'.req1
    BY <1>2, <2>1, Zenon DEF dmi_ack, core_ack, req, WbRegs, CoreRegs
  <2> QED BY <2>1, <2>2, Zenon DEF Acknowledged, Bits
<1> QED BY <1>1, <1>2, Zenon

\* An edge of the system clock leaves the wave a wave and adds an effect only
\* where there was none.
LEMMA WaveSystem ==
  ASSUME Bits, Wave, SystemMoves, UNCHANGED scen
  PROVE  Bits' /\ Wave'
<1>1. addr' = addr /\ (Commanding' <=> Commanding)
  BY Zenon DEF SystemMoves, addr, Commanding, Commands, wr, dout
<1>2. Acknowledged
  BY Acknowledge
<1>3. Acts => effects = 0
  <2>1. CASE ~dtm.sel
    BY <2>1 DEF Wave, Deselected, Acts, Commanding
  <2>2. CASE dtm.sel /\ dtm.jtag_req
    BY <2>2 DEF Bits, Wave, Rising, Acts
  <2>3. CASE dtm.sel /\ ~dtm.jtag_req
    BY <2>3, <1>2 DEF Bits, Wave, Falling, Acts, Acknowledged
  <2> QED BY <2>1, <2>2, <2>3, Zenon DEF Bits
<1>4. effects' = IF Acts THEN 1 ELSE effects
  BY <1>3 DEF SystemMoves, Bits
<1>5. Bits'
  BY <1>4 DEF SystemMoves, Bits
<1>6. Acknowledged'
  BY <1>5, AcknowledgeNext
<1>7. CASE ~dtm.sel
  <2>1. Deselected /\ ~dtm'.sel
    BY <1>7 DEF Wave, SystemMoves
  <2>2. Quiet => Quiet'
    BY <2>1 DEF Deselected, Quiet, SystemMoves, Bits
  <2>3. Deselected'
    BY <2>1, <2>2, <1>1, <1>5 DEF Deselected, SystemMoves, Jtag, Bits
  <2> QED BY <1>5, <2>1, <2>3, Zenon DEF Wave
<1>8. CASE dtm.sel /\ dtm.jtag_req
  <2>1. Rising /\ dtm'.sel /\ dtm'.jtag_req /\ dtm'.req0
    BY <1>8 DEF Wave, SystemMoves
  <2>2. /\ dtm'.req1 => dtm'.req0
        /\ dmi_ack' => dtm'.req1
        /\ dmi_ack => dmi_ack'
    BY <2>1, <1>1, <1>2, <1>5, <1>6 DEF Rising, SystemMoves, Bits, Acknowledged, WbRegs
  <2>3. /\ dtm'.ack_0 => dmi_ack'
        /\ dtm'.ack_1 => dtm'.ack_0
    BY <2>1, <2>2, Zenon DEF Rising, SystemMoves
  <2>4. /\ wbm'.state = "WB_CYCLE" => dtm'.req1 /\ addr' = "WB_DATA"
        /\ wbm'.state = "DMI_WAIT" => (dtm'.req1 /\ addr' = "WB_DATA") \/ ~dtm'.req0
    BY <2>1, <1>1, <1>5 DEF Rising, SystemMoves, Bits, WbRegs
  <2>5. /\ dbg'.req_1 => dtm'.req1 \/ ~dtm'.req0
        /\ core'.gpr_req \/ core'.done \/ core'.ack => dtm'.req1 /\ addr' = "GSPR_DATA"
        /\ core'.ack => core'.gpr_req
    BY <2>1, <1>1, <1>5 DEF Rising, SystemMoves, Bits
  <2>6. addr' = "WB_DATA" => (effects' = 1 <=> dtm'.req1 /\ wbm'.state # "IDLE")
    BY <2>1, <1>1, <1>4, <1>5 DEF Rising, SystemMoves, Bits, WbRegs, Acts, Commanding
  <2>7. Commanding' => (effects' = 1 <=> dtm'.req1 /\ dbg'.req_1)
    BY <2>1, <1>1, <1>4, <1>5 DEF Rising, SystemMoves, Bits, CoreRegs, Acts, Commanding
  <2> QED BY <1>5, <2>1, <2>2, <2>3, <2>4, <2>5, <2>6, <2>7, Zenon DEF Wave, Rising
<1>9. CASE dtm.sel /\ ~dtm.jtag_req
  <2>1. Falling /\ dtm'.sel /\ ~dtm'.jtag_req /\ ~dtm'.req0
    BY <1>9 DEF Wave, SystemMoves
  <2>2. /\ dtm'.req1 => dmi_ack'
        /\ dmi_ack' => dmi_ack
    BY <2>1, <1>1, <1>2, <1>5, <1>6 DEF Falling, SystemMoves, Bits, Acknowledged, WbRegs
  <2>3. /\ dmi_ack' => dtm'.ack_0
        /\ dtm'.ack_0 => dtm'.ack_1
    BY <2>1, <2>2, Zenon DEF Falling, SystemMoves
  <2>4. /\ wbm'.state # "WB_CYCLE"
        /\ wbm'.state = "DMI_WAIT" => addr' = "WB_DATA"
    BY <2>1, <1>1, <1>2, <1>5 DEF Falling, SystemMoves, Bits, Acknowledged, WbRegs
  <2>5. /\ core'.gpr_req \/ core'.done \/ core'.ack => addr' = "GSPR_DATA"
        /\ core'.gpr_req \/ core'.done => core'.ack
        /\ dtm'.req1 /\ addr' = "GSPR_DATA" => core'.gpr_req
        /\ dtm'.req1 /\ ~dtm'.req0 /\ addr' \in CoreRegs => dbg'.req_1
    BY <2>1, <1>1, <1>2, <1>5 DEF Falling, SystemMoves, Bits, Acknowledged
  <2>6. addr' = "WB_DATA" => effects' = 1
    BY <2>1, <1>1, <1>3, <1>4 DEF Falling
  <2>7. Commanding' => (effects' = 1 <=> ~dtm'.req1 \/ dbg'.req_1)
    BY <2>1, <1>1, <1>4, <1>5 DEF Falling, SystemMoves, Bits, CoreRegs, Acts, Commanding
  <2> QED BY <1>5, <2>1, <2>2, <2>3, <2>4, <2>5, <2>6, <2>7, Zenon DEF Wave, Falling
<1> QED BY <1>5, <1>7, <1>8, <1>9, Zenon

\* So does an edge of tck: a request is latched only when the wave has come to
\* rest, and completed only when it has reached every stage.
LEMMA WaveBridge ==
  ASSUME Bits, Wave, dtm.sel, NEW kind, NEW m, BridgeMoves(kind, m)
  PROVE  Bits' /\ Wave'
<1>1. Acknowledged
  BY Acknowledge
<1>2. /\ wbm'.state = wbm.state /\ dbg'.req_1 = dbg.req_1
      /\ core'.gpr_req = core.gpr_req /\ core'.done = core.done /\ core'.ack = core.ack
      /\ dtm'.req0 = dtm.req0 /\ dtm'.req1 = dtm.req1 /\ dtm'.sel
  BY Zenon DEF BridgeMoves
<1>3. effects' = IF Latches(kind, m) THEN 0 ELSE effects
  BY Zenon DEF BridgeMoves
<1>4. Bits'
  BY <1>2, <1>3 DEF BridgeMoves, Bits
<1>5. Acknowledged'
  BY <1>4, AcknowledgeNext
<1>6. CASE Latches(kind, m)
  <2>1. ~dtm.jtag_req /\ ~dtm.ack_1 /\ dtm'.jtag_req /\ effects' = 0
    BY <1>3, <1>6, Zenon DEF Latches, jtag_bsy, BridgeMoves
  <2>2. Falling
    BY <2>1 DEF Wave
  <2>3. ~dtm.ack_0 /\ ~dmi_ack /\ ~dtm.req1 /\ ~dtm.req0
    BY <2>1, <2>2, Zenon DEF Falling
  <2>4. /\ wbm.state # "WB_CYCLE"
        /\ ~core.gpr_req /\ ~core.done /\ ~core.ack
    BY <1>1, <2>2, <2>3 DEF Falling, Acknowledged
  <2>5. /\ ~dtm'.ack_0 /\ ~dtm'.ack_1 /\ ~dtm'.req1 /\ ~dtm'.req0
    BY <1>2, <2>3, Zenon DEF BridgeMoves
  <2>6. ~dmi_ack'
    BY <1>2, <1>5, <2>4, <2>5 DEF Acknowledged
  <2>7. Rising'
    BY <1>2, <2>1, <2>4, <2>5, <2>6 DEF Rising
  <2> QED BY <1>2, <1>4, <2>1, <2>7, Zenon DEF Wave
<1>7. CASE ~Latches(kind, m)
  <2>1. addr' = addr /\ (Commanding' <=> Commanding) /\ effects' = effects
    BY <1>7, Zenon DEF BridgeMoves, Commanding, Commands, wr
  <2>2. dmi_ack' <=> dmi_ack
    BY <1>1, <1>2, <1>5, <2>1, Zenon DEF Acknowledged
  <2>3. dtm'.ack_0 <=> dmi_ack'
    BY <2>2, Zenon DEF BridgeMoves
  <2>4. CASE dtm.jtag_req /\ dtm.ack_1
    <3>1. ~dtm'.jtag_req /\ Rising
      BY <1>7, <2>4 DEF BridgeMoves, Completes, Wave
    <3>2. dtm.ack_0 /\ dmi_ack /\ dtm.req1 /\ dtm.req0
      BY <2>4, <3>1, Zenon DEF Rising
    <3>3. /\ dtm'.req1 => dmi_ack'
          /\ dmi_ack' => dtm'.ack_0
          /\ dtm'.ack_0 => dtm'.ack_1
          /\ dtm'.req0 => dtm'.req1
      BY <1>2, <2>2, <2>3, <3>2, Zenon DEF BridgeMoves
    <3>4. /\ addr = "WB_DATA" => wbm.state = "DMI_WAIT"
          /\ addr = "GSPR_DATA" => core.ack
      BY <1>1, <3>2, Zenon DEF Acknowledged
    <3>5. Falling'
      BY <1>2, <2>1, <3>1, <3>2, <3>3, <3>4 DEF Falling, Rising
    <3> QED BY <1>2, <1>4, <3>1, <3>5, Zenon DEF Wave
  <2>5. CASE dtm.jtag_req /\ ~dtm.ack_1
    <3>1. dtm'.jtag_req /\ Rising
      BY <2>5 DEF BridgeMoves, Completes, Wave
    <3>2. /\ dtm'.ack_0 => dmi_ack'
          /\ dtm'.ack_1 => dtm'.ack_0
          /\ dmi_ack' => dtm'.req1
      BY <1>2, <2>2, <2>3, <3>1, Zenon DEF BridgeMoves, Rising
    <3>3. Rising'
      BY <1>2, <2>1, <3>1, <3>2 DEF Rising
    <3> QED BY <1>2, <1>4, <3>1, <3>3, Zenon DEF Wave
  <2>6. CASE ~dtm.jtag_req
    <3>1. ~dtm'.jtag_req /\ Falling
      BY <1>7, <2>6 DEF BridgeMoves, Wave
    <3>2. /\ dtm'.req1 => dmi_ack'
          /\ dmi_ack' => dtm'.ack_0
          /\ dtm'.ack_0 => dtm'.ack_1
      BY <1>2, <2>2, <2>3, <3>1, Zenon DEF BridgeMoves, Falling
    <3>3. Falling'
      BY <1>2, <2>1, <3>1, <3>2 DEF Falling
    <3> QED BY <1>2, <1>4, <3>1, <3>3, Zenon DEF Wave
  <2> QED BY <2>4, <2>5, <2>6, Zenon
<1> QED BY <1>6, <1>7, Zenon

\* A bridge that is idle stays so until it latches a request, and what it has
\* carried is then done.
LEMMA Rests ==
  ASSUME Bits, Wave, dtm.sel, Idle
  PROVE  /\ ~dtm.ack_0 /\ ~dmi_ack /\ ~dtm.req0 /\ ~dtm.req1
         /\ addr = "WB_DATA" \/ Commanding => effects = 1
<1>1. Falling
  BY DEF Wave, Idle
<1>2. ~dtm.ack_0 /\ ~dmi_ack /\ ~dtm.req0 /\ ~dtm.req1
  BY <1>1, Zenon DEF Falling, Idle
<1> QED BY <1>1, <1>2 DEF Falling

\* A reset of the TAP: the bridge forgets the request.
LEMMA WaveReset ==
  ASSUME Shape, Bits, Jtag, TapReset, UNCHANGED <<wbm, bus, mem, dbg, log, core, effects, scen>>
  PROVE  Bits' /\ Wave' /\ Idle' /\ ~dtm'.sel
<1>1. /\ dtm'.jtag_req = FALSE /\ dtm'.ack_0 = FALSE /\ dtm'.ack_1 = FALSE /\ dtm'.sel = FALSE
      /\ dtm'.req0 = dtm.req0 /\ dtm'.req1 = dtm.req1
      /\ dtm'.request = [op |-> NOP, addr |-> "WB_ADDR", data |-> 0]
  BY DEF TapReset, Shape, BridgeFields
<1>2. Bits'
  BY <1>1, Zenon DEF Bits
<1>3. dtm'.request.op = NOP /\ addr' = "WB_ADDR" /\ Jtag'
  BY <1>1 DEF addr, Jtag
<1>4. Deselected'
  BY <1>1, <1>3 DEF Deselected
<1> QED BY <1>1, <1>2, <1>4 DEF Wave, Idle

\* Selecting the chain: the target has come to rest.
LEMMA WaveSelect ==
  ASSUME Shape, Bits, Wave, Jtag => Quiet, dtm' = [dtm EXCEPT !.sel = TRUE],
         UNCHANGED <<wbm, bus, mem, dbg, log, core, effects, scen>>
  PROVE  Bits' /\ Wave' /\ (Idle => Idle') /\ dtm'.sel /\ UNCHANGED dtm.request
<1>1. /\ dtm'.sel = TRUE /\ dtm'.jtag_req = dtm.jtag_req /\ dtm'.ack_0 = dtm.ack_0
      /\ dtm'.ack_1 = dtm.ack_1 /\ dtm'.req0 = dtm.req0 /\ dtm'.req1 = dtm.req1
      /\ dtm'.request = dtm.request
  BY DEF Shape, BridgeFields
<1>2. Bits'
  BY <1>1 DEF Bits
<1>3. Acknowledged /\ Acknowledged'
  BY <1>2, Acknowledge, AcknowledgeNext
<1>4. addr' = addr /\ (Commanding' <=> Commanding)
  BY <1>1, Zenon DEF addr, Commanding, Commands, wr, dout
<1>5. dmi_ack' <=> dmi_ack
  BY <1>1, <1>3, <1>4, Zenon DEF Acknowledged
<1>6. CASE dtm.sel
  <2>1. CASE dtm.jtag_req
    <3>1. Rising BY <1>6, <2>1, Zenon DEF Wave
    <3>2. Rising' BY <1>1, <1>4, <1>5, <3>1 DEF Rising
    <3> QED BY <1>1, <1>2, <2>1, <3>2, Zenon DEF Wave, Idle
  <2>2. CASE ~dtm.jtag_req
    <3>1. Falling BY <1>6, <2>2, Zenon DEF Wave
    <3>2. Falling' BY <1>1, <1>4, <1>5, <3>1 DEF Falling
    <3> QED BY <1>1, <1>2, <2>2, <3>2, Zenon DEF Wave, Idle
  <2> QED BY <2>1, <2>2
<1>7. CASE ~dtm.sel
  <2>1. Deselected /\ Quiet
    BY <1>7 DEF Wave, Deselected
  <2>2. ~dmi_ack
    BY <1>3, <2>1 DEF Acknowledged, Deselected, Quiet
  <2>3. Falling'
    BY <1>1, <1>4, <1>5, <2>1, <2>2 DEF Falling, Deselected, Quiet, Commanding
  <2> QED BY <1>1, <1>2, <2>1, <2>3, Zenon DEF Wave, Deselected, Idle
<1> QED BY <1>6, <1>7, Zenon DEF Bits

----------------------------------------------------------------------------
\* The client.

\* A result more: the operations already known stay what they were, since
\* core_step and log_dump look only at their first result.
LEMMA OneMore ==
  ASSUME NEW c, NEW got, NEW v, Listed(got)
  PROVE  /\ Len(Append(got, v)) = Len(got) + 1
         /\ Listed(Append(got, v))
         /\ Append(got, v) # <<>>
         /\ Ops(c, Append(got, v))[Len(got) + 1] = Ops(c, got)[Len(got) + 1]
<1> DEFINE S == {got[i] : i \in 1 .. Len(got)} \cup {v}
           new == Append(got, v)
<1> USE DEF Listed
<1>1. got \in Seq(S) /\ v \in S
  <2>1. got \in [1 .. Len(got) -> S]
    BY Zenon
  <2> QED BY <2>1
<1>2. /\ Len(new) = Len(got) + 1
      /\ new \in Seq(S)
      /\ got # <<>> => new[1] = got[1]
  BY <1>1
<1>3. Listed(new) /\ new # <<>>
  <2> HIDE DEF new, S
  <2>1. new = [i \in 1 .. Len(new) |-> new[i]]
    BY <1>2
  <2>2. Len(<<>>) = 0
    OBVIOUS
  <2> QED BY <1>2, <2>1, <2>2
<1>4. CASE got # <<>>
  <2> HIDE DEF new
  <2>1. core_step(new) = core_step(got)
    BY <1>2, <1>3, <1>4, Zenon DEF core_step
  <2>2. log_dump(new) = log_dump(got)
    BY <1>2, <1>3, <1>4, Zenon DEF log_dump
  <2>3. Ops(c, new) = Ops(c, got)
    BY <2>1, <2>2, Zenon DEF Ops
  <2> QED BY <1>2, <1>3, <2>3 DEF new
<1>5. CASE got = <<>>
  <2>1. Len(got) + 1 = 1
    BY <1>5
  <2>2. CASE c.cmd = "step"
    <3>1. \A g : Ops(c, g) = core_step(g)
      BY <2>2 DEF Ops
    <3>2. core_step(new)[1] = R("STAT") /\ core_step(got)[1] = R("STAT")
      BY <1>5 DEF core_step
    <3> QED BY <1>2, <1>3, <2>1, <3>1, <3>2
  <2>3. CASE c.cmd = "ldump"
    <3>1. \A g : Ops(c, g) = log_dump(g)
      BY <2>3 DEF Ops
    <3>2. log_dump(new)[1] = R("LOG_ADDR") /\ log_dump(got)[1] = R("LOG_ADDR")
      BY <1>5 DEF log_dump
    <3> QED BY <1>2, <1>3, <2>1, <3>1, <3>2
  <2>4. CASE c.cmd # "step" /\ c.cmd # "ldump"
    <3>1. Ops(c, new) = Ops(c, got)
      <4> HIDE DEF new
      <4> QED BY <2>4, SMT DEF Ops
    <3> QED BY <1>2, <1>3, <3>1
  <2> QED BY <2>2, <2>3, <2>4, Zenon
<1> QED BY <1>4, <1>5, Zenon

\* The operation and the scan to come depend only on where the client is.
LEMMA SamePlace ==
  ASSUME UNCHANGED scen, h'.st = h.st, h'.client = h.client, h'.cmd = h.cmd, h'.got = h.got
  PROVE  /\ ops' = ops /\ (CommandDone' <=> CommandDone)
         /\ h'.ph = h.ph => msg' = msg
<1>1. argv' = argv /\ cmd' = cmd
  BY Zenon DEF argv, cmd
<1>2. ops' = ops
  BY <1>1, Zenon DEF ops
<1>3. CommandDone' <=> CommandDone
  BY <1>1, <1>2, Zenon DEF CommandDone
<1>4. h'.ph = h.ph => msg' = msg
  BY <1>2, Zenon DEF msg
<1> QED BY <1>2, <1>3, <1>4, Zenon

\* What a step leaves of the request, and that an idle bridge is left idle.
Kept == /\ dtm'.request.op = dtm.request.op /\ addr' = addr /\ (wr => dout' = dout)
        /\ dtm'.sel = dtm.sel
        /\ Idle => Idle'

\* Steps of the client alone leave the target as it is.
LEMMA TargetSame ==
  ASSUME Shape, Bits, Wave, UNCHANGED <<tvars, scen>>
  PROVE  Bits' /\ Wave' /\ Kept
<1>1. UNCHANGED dtm /\ UNCHANGED wbm /\ UNCHANGED dbg /\ UNCHANGED core /\ UNCHANGED effects
  BY DEF tvars
<1>2. Bits'
  BY <1>1 DEF Bits
<1>3. addr' = addr /\ dout' = dout /\ (Commanding' <=> Commanding)
  BY <1>1, Zenon DEF addr, dout, wr, Commanding, Commands
<1>4. dmi_ack' <=> dmi_ack
  <2>1. Acknowledged /\ Acknowledged'
    BY <1>2, Acknowledge, AcknowledgeNext
  <2> QED BY <1>1, <1>3, <2>1, Zenon DEF Acknowledged
<1>5. (Rising' <=> Rising) /\ (Falling' <=> Falling)
  BY <1>1, <1>3, <1>4, Zenon DEF Rising, Falling
<1>6. Deselected' <=> Deselected
  BY <1>1, <1>3, Zenon DEF Deselected, Jtag, Quiet
<1>7. Wave'
  BY <1>1, <1>5, <1>6, Zenon DEF Wave
<1>8. Kept
  BY <1>1, <1>3, Zenon DEF Kept, Idle
<1> QED BY <1>2, <1>7, <1>8, Zenon

\* An edge of the system clock changes no request.
LEMMA SystemKeeps == ASSUME SystemMoves PROVE Kept
BY Zenon DEF SystemMoves, Kept, Idle, addr, dout

\* Nor does an edge of tck that latches none.
LEMMA BridgeKeeps ==
  ASSUME Bits, Wave, dtm.sel, NEW kind, NEW m, BridgeMoves(kind, m), ~Latches(kind, m)
  PROVE  Kept
<1>1. Idle => Idle'
  <2> SUFFICES ASSUME Idle PROVE Idle'
    BY Zenon
  <2>1. ~dtm.ack_0
    BY Rests, Zenon
  <2> QED BY <2>1, Zenon DEF Idle, BridgeMoves
<1> QED BY <1>1, Zenon DEF Kept, BridgeMoves

\* A request that is kept is the one the client means while it stays where it is.
LEMMA StillCarries ==
  ASSUME Kept, ops' = ops, h'.got = h.got
  PROVE  (Carrying => Carrying') /\ (Carried => Carried')
<1>1. wr <=> dtm.request.op = WR
  BY DEF wr
<1>2. Carrying => Carrying'
  BY <1>1, Zenon DEF Kept, Carrying, Carries
<1>3. Carried => Carried'
  BY <1>1, Zenon DEF Kept, Carried, Carries
<1> QED BY <1>2, <1>3, Zenon

\* A command begins with no results.
LEMMA NoResults == ASSUME h'.got = <<>> PROVE Results'
<1>1. Len(<<>>) = 0 /\ <<>> = [i \in 1 .. 0 |-> <<>>[i]]
  OBVIOUS
<1> QED BY <1>1, Zenon DEF Results, Listed

\* The client starts (main), after the last one has ended.
LEMMA StartInv == ASSUME IInv, Start PROVE IInv'
<1>1. /\ h'.st = "init" /\ h'.ph = "req" /\ h'.got = <<>> /\ h'.init = 1
      /\ h'.refused = FALSE /\ h'.abandoned = h.abandoned /\ h.st = "off"
      /\ UNCHANGED dtm /\ UNCHANGED link /\ UNCHANGED scen /\ UNCHANGED tvars
      /\ Shape'
  BY Zenon DEF IInv, Shape, BridgeFields, Start, tvars
<1>2. Bits' /\ Wave' /\ Kept
  BY <1>1, TargetSame, Zenon DEF IInv
<1>3. HostBits'
  <2>1. Results'
    BY <1>1, NoResults, Zenon
  <2>2. h'.init \in Nat \ {0}
    BY <1>1
  <2> QED BY <1>1, <2>1, <2>2, Zenon DEF IInv, HostBits
<1>4. Scanning'
  BY <1>1, <1>2, Zenon DEF IInv, Scanning, Jtag
<1>5. Asking'
  BY <1>1, <1>2, Zenon DEF IInv, Asking, Kept
<1> QED BY <1>1, <1>2, <1>3, <1>4, <1>5, Zenon DEF IInv

\* A call of the initialisation; chain_connect, which only the UrJTAG backends
\* make, resets the TAP and with it what an earlier client left in the bridge.
LEMMA InitCallInv == ASSUME IInv, InitCall PROVE IInv'
<1>1. /\ h'.st = h.st /\ h'.client = h.client /\ h'.cmd = h.cmd /\ h'.got = h.got
      /\ h'.ph = h.ph /\ h'.init = h.init + 1 /\ h'.refused = h.refused
      /\ h'.abandoned = (h.abandoned /\ InitCalls[h.init] # "chain_connect")
      /\ h.st = "init" /\ UNCHANGED link /\ UNCHANGED scen
  BY DEF IInv, Shape, InitCall
<1>2. Shape'
  BY Zenon DEF IInv, Shape, BridgeFields, InitCall, TapReset, tvars
<1>3. HostBits'
  <2>1. Results'
    BY <1>1, Zenon DEF IInv, HostBits, Results
  <2>2. h'.abandoned \in BOOLEAN
    BY <1>1, Zenon
  <2> QED BY <1>1, <2>1, <2>2 DEF IInv, HostBits
<1>4. CASE InitCalls[h.init] = "chain_connect"
  <2>1. Jtag
    <3> SUFFICES ASSUME ~Jtag PROVE FALSE
      BY Zenon
    <3>1. InitCalls = <<"socket", "gethostbyname", "connect">>
      BY DEF Jtag, InitCalls, sim_init
    <3>2. h.init \in 1 .. 3
      BY <3>1 DEF InitCall, IInv, HostBits
    <3> QED BY <1>4, <3>1, <3>2
  <2>2. TapReset /\ UNCHANGED <<wbm, bus, mem, dbg, log, core, effects, scen>>
    BY <1>4, Zenon DEF InitCall
  <2>3. Bits' /\ Wave' /\ Idle' /\ ~dtm'.sel
    BY <2>1, <2>2, WaveReset, Zenon DEF IInv
  <2>4. link.alive /\ ~link.orphan /\ link.st = "none"
    BY <1>1, <2>1 DEF IInv, Scanning
  <2>5. Scanning'
    BY <1>1, <2>3, <2>4 DEF IInv, Scanning, Jtag
  <2>6. Asking'
    <3>1. ~h.refused
      BY <1>1, <1>4, <2>3 DEF IInv, Asking
    <3> QED BY <1>1, <2>3, <3>1 DEF Asking
  <2> QED BY <1>2, <1>3, <2>3, <2>5, <2>6, Zenon DEF IInv
<1>5. CASE InitCalls[h.init] # "chain_connect"
  <2>1. UNCHANGED tvars /\ (h'.abandoned <=> h.abandoned)
    BY <1>1, <1>5, Zenon DEF InitCall
  <2>2. Bits' /\ Wave' /\ Kept
    BY <1>1, <2>1, TargetSame, Zenon DEF IInv
  <2>3. Scanning'
    BY <1>1, <2>1, <2>2, Zenon DEF IInv, Scanning, Jtag, Kept
  <2>4. Asking'
    BY <1>1, <2>1, <2>2, Zenon DEF IInv, Asking, Kept
  <2> QED BY <1>2, <1>3, <2>2, <2>3, <2>4, Zenon DEF IInv
<1> QED BY <1>4, <1>5, Zenon

\* A call of the initialisation fails, and the client exits.
LEMMA InitFailsInv == ASSUME IInv, InitFails PROVE IInv'
<1>1. /\ h'.st = "off" /\ h'.got = h.got /\ h'.ph = h.ph /\ h'.init = h.init
      /\ h'.refused = h.refused /\ h'.abandoned = h.abandoned
      /\ h.st = "init" /\ UNCHANGED link /\ UNCHANGED scen /\ UNCHANGED tvars
      /\ UNCHANGED dtm /\ Shape'
  BY DEF IInv, Shape, BridgeFields, InitFails, tvars
<1>2. Bits' /\ Wave' /\ Kept
  BY <1>1, TargetSame, Zenon DEF IInv
<1>3. HostBits'
  BY <1>1, Zenon DEF IInv, HostBits, Results
<1>4. Scanning'
  BY <1>1, Zenon DEF IInv, Scanning, Jtag
<1>5. Asking'
  BY <1>1, <1>2, Zenon DEF IInv, Asking, Kept
<1> QED BY <1>1, <1>2, <1>3, <1>4, <1>5, Zenon DEF IInv

\* The chain is selected and the client runs its first command.
LEMMA InitDoneInv == ASSUME IInv, InitDone PROVE IInv'
<1>1. /\ h'.st = "run" /\ h'.got = h.got /\ h'.ph = h.ph /\ h'.init = h.init
      /\ h'.refused = h.refused /\ h'.abandoned = h.abandoned
      /\ h.st = "init" /\ UNCHANGED link /\ UNCHANGED scen /\ Shape'
  BY Zenon DEF IInv, Shape, BridgeFields, InitDone
<1>2. Bits' /\ Wave' /\ (Idle => Idle') /\ dtm'.sel
  <2>1. /\ Jtag => Quiet
        /\ dtm' = [dtm EXCEPT !.sel = TRUE]
        /\ UNCHANGED <<wbm, bus, mem, dbg, log, core, effects, scen>>
    BY DEF InitDone
  <2> QED BY <2>1, WaveSelect, Zenon DEF IInv
<1>3. HostBits'
  BY <1>1, Zenon DEF IInv, HostBits, Results
<1>4. h.ph = "req" /\ h.got = <<>> /\ (link.alive /\ ~link.orphan => link.st = "none")
  BY <1>1, Zenon DEF IInv, Scanning
<1>5. Scanning'
  BY <1>1, <1>2, <1>4 DEF IInv, Scanning, Jtag
<1>6. Asking'
  <2>1. link.alive => link.st # "done"
    BY <1>4 DEF IInv, Scanning, HostBits
  <2> QED BY <1>1, <1>2, <1>4, <2>1 DEF IInv, Asking
<1> QED BY <1>1, <1>2, <1>3, <1>5, <1>6, Zenon DEF IInv

\* On to the next command, or the end: no scan is under way, and unless one was
\* abandoned the bridge is idle.
LEMMA NextCommandInv == ASSUME IInv, NextCommand PROVE IInv'
<1>1. /\ h'.st \in {"off", "run"} /\ h'.ph = h.ph /\ h'.init = h.init
      /\ (h'.st = "run" => h'.got = <<>>) /\ (h'.got = <<>> \/ h'.got = h.got)
      /\ h'.refused = h.refused /\ h'.abandoned = h.abandoned
      /\ h.st = "run" /\ CommandDone
      /\ UNCHANGED link /\ UNCHANGED scen /\ UNCHANGED tvars /\ UNCHANGED dtm
      /\ Shape'
  <2>1. h.st = "run" /\ CommandDone
    BY DEF NextCommand, CommandDone
  <2>2. CASE h.cmd = Len(argv)
    BY <2>1, <2>2 DEF IInv, Shape, BridgeFields, NextCommand, tvars
  <2>3. CASE h.cmd # Len(argv)
    BY <2>1, <2>3, Zenon DEF IInv, Shape, BridgeFields, NextCommand, tvars
  <2> QED BY <2>2, <2>3, Zenon
<1>2. Bits' /\ Wave' /\ Kept
  BY <1>1, TargetSame, Zenon DEF IInv
<1>3. HostBits'
  <2>1. Results'
    BY <1>1, NoResults, Zenon DEF IInv, HostBits, Results
  <2> QED BY <1>1, <2>1, Zenon DEF IInv, HostBits
<1>4. /\ link.alive => h.ph = "req"
      /\ link.alive => link.st = "none" \/ link.orphan
  BY <1>1 DEF IInv, Scanning, HostBits
<1>5. Scanning'
  BY <1>1, <1>4 DEF IInv, Scanning, Jtag
<1>6. Asking'
  <2>1. link.alive => link.st # "done"
    BY <1>4 DEF IInv, Scanning, HostBits
  <2> QED BY <1>1, <1>2, <1>4, <2>1 DEF IInv, Asking, Kept
<1> QED BY <1>1, <1>2, <1>3, <1>5, <1>6, Zenon DEF IInv

\* The client is killed, and what it had under way is abandoned.
LEMMA KillInv == ASSUME IInv, Kill PROVE IInv'
<1>1. /\ h'.st = "off" /\ h'.ph = h.ph /\ h'.init = h.init /\ h'.got = h.got
      /\ h'.refused = h.refused /\ h'.abandoned = TRUE
      /\ link'.alive = link.alive
      /\ UNCHANGED scen /\ UNCHANGED tvars /\ UNCHANGED dtm
      /\ Shape'
  BY Zenon DEF IInv, Shape, BridgeFields, Kill, tvars
<1>2. Bits' /\ Wave' /\ Kept
  BY <1>1, TargetSame, Zenon DEF IInv
<1>3. CASE Jtag \/ link.st = "done"
  <2>1. link'.st = "none" /\ link'.orphan = link.orphan
    BY <1>3 DEF IInv, Shape, Kill
  <2>2. link.alive => ~link.orphan
    BY <1>3 DEF IInv, Scanning
  <2>3. HostBits'
    BY <1>1, <2>1, Zenon DEF IInv, HostBits, Results
  <2>4. Scanning'
    BY <1>1, <2>1, <2>2, Zenon DEF IInv, Scanning, Jtag
  <2>5. Asking'
    BY <1>1, Zenon DEF Asking
  <2> QED BY <1>1, <1>2, <2>3, <2>4, <2>5, Zenon DEF IInv
<1>4. CASE ~Jtag /\ link.st # "done"
  <2>1. link'.st = link.st /\ link'.orphan = (link.st # "none")
    BY <1>4 DEF IInv, Shape, Kill
  <2>2. HostBits'
    BY <1>1, <2>1, Zenon DEF IInv, HostBits, Results
  <2>3. link'.orphan => link'.st \in {"sent", "shift"}
    BY <1>4, <2>1, Zenon DEF IInv, HostBits
  <2>4. Scanning'
    BY <1>1, <1>4, <2>1, <2>3, Zenon DEF IInv, Scanning, Jtag
  <2>5. Asking'
    BY <1>1, Zenon DEF Asking
  <2> QED BY <1>1, <1>2, <2>2, <2>4, <2>5, Zenon DEF IInv
<1> QED BY <1>3, <1>4, Zenon

\* The client sends a scan: the request, or a poll.
LEMMA IssueInv == ASSUME IInv, Issue PROVE IInv'
<1>1. /\ link'.st = "sent" /\ link'.msg = msg /\ link'.resp = link.resp
      /\ link'.orphan = link.orphan /\ link'.alive = link.alive
      /\ h.st = "run" /\ ~CommandDone /\ link.st = "none" /\ link.alive
      /\ UNCHANGED h /\ UNCHANGED scen /\ UNCHANGED tvars /\ UNCHANGED dtm
      /\ Shape'
  BY Zenon DEF IInv, Shape, BridgeFields, Issue, tvars
<1>2. Bits' /\ Wave' /\ Kept
  BY <1>1, TargetSame, Zenon DEF IInv
<1>3. ops' = ops /\ (CommandDone' <=> CommandDone) /\ msg' = msg
  BY <1>1, SamePlace, Zenon
<1>4. HostBits'
  BY <1>1, Zenon DEF IInv, HostBits, Results
<1>5. ~link.orphan
  BY <1>1 DEF IInv, Scanning
<1>6. Scanning'
  BY <1>1, <1>3, <1>5 DEF IInv, Scanning, Jtag
<1>7. Asking'
  <2>1. Carrying => Carrying'
    BY <1>1, <1>2, <1>3, StillCarries, Zenon
  <2> QED BY <1>1, <1>2, <2>1 DEF IInv, Asking, Kept
<1> QED BY <1>1, <1>2, <1>4, <1>6, <1>7, Zenon DEF IInv

\* An edge of tck under a scan that latches no request.
LEMMA Clocked ==
  ASSUME IInv, dtm.sel, NEW kind, NEW m, TckEdge(kind, m), ~Latches(kind, m),
         UNCHANGED scen, UNCHANGED h
  PROVE  /\ BridgeFields' /\ Bits' /\ Wave' /\ Kept /\ BridgeMoves(kind, m)
         /\ ops' = ops /\ (CommandDone' <=> CommandDone) /\ msg' = msg
         /\ Carrying => Carrying'
         /\ Carried => Carried'
<1>1. BridgeMoves(kind, m)
  <2>1. dmi_ack \in BOOLEAN
    BY Acknowledge, Zenon DEF IInv, Acknowledged
  <2> QED BY <2>1, BridgeEdge, Zenon DEF IInv
<1>2. Bits' /\ Wave'
  BY <1>1, WaveBridge, Zenon DEF IInv
<1>3. Kept
  BY <1>1, BridgeKeeps, Zenon DEF IInv
<1>4. ops' = ops /\ (CommandDone' <=> CommandDone) /\ msg' = msg
  BY SamePlace, Zenon
<1>5. (Carrying => Carrying') /\ (Carried => Carried')
  BY <1>3, <1>4, StillCarries, Zenon
<1>6. BridgeFields'
  BY <1>1, Zenon DEF BridgeMoves
<1> QED BY <1>1, <1>2, <1>3, <1>4, <1>5, <1>6, Zenon

\* The capture of a scan: the answer is zero only when the bridge is idle.
LEMMA CaptureInv == ASSUME IInv, Capture PROVE IInv'
<1>1. /\ link'.st = "shift" /\ link'.msg = link.msg /\ link'.resp = dtm'.shiftr
      /\ link'.orphan = link.orphan /\ link'.alive = link.alive
      /\ link.st = "sent" /\ link.alive
      /\ UNCHANGED h /\ UNCHANGED scen
      /\ link' = [st |-> link'.st, msg |-> link'.msg, resp |-> link'.resp, n |-> link'.n,
                  orphan |-> link'.orphan, alive |-> link'.alive]
  BY Zenon DEF IInv, Shape, Capture
<1>2. dtm.sel /\ TckEdge("capture", link.msg) /\ ~Latches("capture", link.msg)
  BY <1>1 DEF Capture, Latches, IInv, Scanning
<1>3. Shape'
  BY <1>1, <1>2, Clocked, Zenon DEF Shape, IInv
<1>4. /\ Bits' /\ Wave' /\ Kept /\ BridgeMoves("capture", link.msg)
      /\ ops' = ops /\ (CommandDone' <=> CommandDone) /\ msg' = msg
      /\ Carrying => Carrying'
  BY <1>1, <1>2, Clocked, Zenon
<1>5. HostBits'
  BY <1>1, Zenon DEF IInv, HostBits, Results
<1>6. Scanning'
  BY <1>1, <1>2, <1>4 DEF IInv, Scanning, Jtag, Kept
<1>7. link'.resp.op = NOP => Idle
  <2>1. link'.resp.op = rsp_op
    BY <1>1, <1>2, <1>4, Zenon DEF BridgeMoves
  <2> QED BY <2>1 DEF rsp_op, jtag_bsy, Idle, NOP, BSY
<1>8. Asking'
  BY <1>1, <1>4, <1>7 DEF IInv, Asking, Kept
<1> QED BY <1>3, <1>4, <1>5, <1>6, <1>8, Zenon DEF IInv

\* The bits of a scan go through.
LEMMA ShiftInv == ASSUME IInv, Shift PROVE IInv'
<1>1. link.st = "shift" /\ link.alive /\ UNCHANGED h /\ UNCHANGED scen /\ UNCHANGED link
  BY DEF Shift
<1>2. dtm.sel /\ TckEdge("shift", link.msg) /\ ~Latches("shift", link.msg)
  BY <1>1, Zenon DEF Shift, Latches, IInv, Scanning
<1>3. Shape'
  BY <1>1, <1>2, Clocked, Zenon DEF Shape, IInv
<1>4. /\ Bits' /\ Wave' /\ Kept
      /\ ops' = ops /\ (CommandDone' <=> CommandDone) /\ msg' = msg
      /\ Carrying => Carrying'
  BY <1>1, <1>2, Clocked, Zenon
<1>5. HostBits'
  BY <1>1, Zenon DEF IInv, HostBits, Results
<1>6. Scanning'
  BY <1>1, <1>2, <1>4, Zenon DEF IInv, Scanning, Jtag, Kept
<1>7. Asking'
  BY <1>1, <1>4, Zenon DEF IInv, Asking, Kept
<1> QED BY <1>3, <1>4, <1>5, <1>6, <1>7, Zenon DEF IInv

\* The clocks after a scan.
LEMMA DummyInv == ASSUME IInv, Dummy PROVE IInv'
<1>1. link.alive /\ UNCHANGED h /\ UNCHANGED scen /\ UNCHANGED link
  BY DEF Dummy
<1>2. dtm.sel /\ TckEdge("idle", Poll) /\ ~Latches("idle", Poll)
  BY DEF Dummy, Latches
<1>3. Shape'
  BY <1>1, <1>2, Clocked, Zenon DEF Shape, IInv
<1>4. /\ Bits' /\ Wave' /\ Kept
      /\ ops' = ops /\ (CommandDone' <=> CommandDone) /\ msg' = msg
      /\ Carrying => Carrying'
      /\ Carried => Carried'
  BY <1>1, <1>2, Clocked, Zenon
<1>5. HostBits'
  BY <1>1, Zenon DEF IInv, HostBits, Results
<1>6. Scanning'
  BY <1>1, <1>2, <1>4, Zenon DEF IInv, Scanning, Jtag, Kept
<1>7. Asking'
  BY <1>1, <1>4, Zenon DEF IInv, Asking, Kept
<1> QED BY <1>3, <1>4, <1>5, <1>6, <1>7, Zenon DEF IInv

\* The end of a scan.  An idle bridge takes the request the client means; a
\* busy one refuses it, which happens only to a client that came after an
\* operation was abandoned.
LEMMA UpdateInv == ASSUME IInv, Update PROVE IInv'
<1>1. /\ link.st = "shift" /\ link.alive /\ UNCHANGED scen
      /\ link'.st = (IF link.orphan THEN "none" ELSE "done") /\ link'.orphan = FALSE
      /\ link'.msg = link.msg /\ link'.resp = link.resp /\ link'.alive = link.alive
      /\ link' = [st |-> link'.st, msg |-> link'.msg, resp |-> link'.resp, n |-> link'.n,
                  orphan |-> link'.orphan, alive |-> link'.alive]
  BY Zenon DEF IInv, Shape, Update
<1>2. /\ h'.st = h.st /\ h'.client = h.client /\ h'.cmd = h.cmd /\ h'.got = h.got
      /\ h'.ph = h.ph /\ h'.init = h.init /\ h'.abandoned = h.abandoned
      /\ h'.refused = (h.refused \/ (link.msg.op # NOP /\ jtag_bsy /\ ~link.orphan))
      /\ h' = [st |-> h'.st, client |-> h'.client, cmd |-> h'.cmd, got |-> h'.got, ph |-> h'.ph,
               init |-> h'.init, refused |-> h'.refused, abandoned |-> h'.abandoned]
  BY DEF IInv, Shape, Update
<1>3. dtm.sel /\ TckEdge("update", link.msg)
  BY <1>1 DEF Update, IInv, Scanning
<1>4. BridgeMoves("update", link.msg)
  <2>1. dmi_ack \in BOOLEAN
    BY Acknowledge, Zenon DEF IInv, Acknowledged
  <2> QED BY <1>3, <2>1, BridgeEdge, Zenon DEF IInv
<1>5. Bits' /\ Wave'
  BY <1>3, <1>4, WaveBridge, Zenon DEF IInv
<1>6. Shape'
  BY <1>1, <1>2, <1>4, Zenon DEF Shape, BridgeMoves
<1>7. HostBits'
  <2>1. h'.refused \in BOOLEAN
    BY <1>2, Zenon
  <2>2. link'.st \in {"none", "sent", "shift", "done"}
    BY <1>1, Zenon
  <2> QED BY <1>1, <1>2, <2>1, <2>2, Zenon DEF IInv, HostBits, Results
<1>8. ops' = ops /\ (CommandDone' <=> CommandDone) /\ msg' = msg
  BY <1>1, <1>2, SamePlace, Zenon
<1>9. dtm'.sel
  BY <1>3, <1>4, Zenon DEF BridgeMoves
<1>10. Scanning'
  BY <1>1, <1>2, <1>8, <1>9, Zenon DEF IInv, Scanning, Jtag
<1>11. CASE link.orphan
  <2>1. /\ h.abandoned /\ (h.st = "run" => h.ph = "req" /\ h.got = <<>>)
        /\ link'.st = "none" /\ (h'.refused <=> h.refused)
    BY <1>1, <1>2, <1>11, Zenon DEF IInv, Scanning
  <2>2. Asking'
    BY <1>1, <1>2, <2>1, Zenon DEF IInv, Asking
  <2> QED BY <1>5, <1>6, <1>7, <1>10, <2>2, Zenon DEF IInv
<1>12. CASE ~link.orphan
  <2>1. h.st = "run" /\ link.msg = msg /\ link'.st = "done"
    BY <1>1, <1>12, Zenon DEF IInv, Scanning
  <2>2. CASE h.ph = "poll"
    <3>1. link.msg.op = NOP
      BY <2>1, <2>2 DEF msg, Poll
    <3>2. ~Latches("update", link.msg)
      BY <3>1 DEF Latches, NOP, RD, WR
    <3>3. Kept /\ (Carrying => Carrying') /\ (h'.refused <=> h.refused)
      BY <1>2, <1>3, <1>4, <1>8, <3>1, <3>2, BridgeKeeps, StillCarries, Zenon DEF IInv
    <3>4. Asking'
      BY <1>1, <1>2, <2>1, <2>2, <3>3, Zenon DEF IInv, Asking, Kept
    <3> QED BY <1>5, <1>6, <1>7, <1>10, <3>4, Zenon DEF IInv
  <2>3. CASE h.ph = "req"
    <3>1. h'.refused => h'.abandoned
      <4>1. ~h.abandoned => Idle
        BY <1>1, <2>1, <2>3 DEF IInv, Asking
      <4>2. Idle => ~jtag_bsy
        BY Zenon DEF Idle, jtag_bsy
      <4> QED BY <1>2, <4>1, <4>2, Zenon DEF IInv, Asking
    <3>2. ASSUME ~h'.refused PROVE Carrying'
      <4> DEFINE o == ops[Len(h.got) + 1]
      <4>1. link.msg = o
        BY <2>1, <2>3, Zenon DEF msg
      <4>2. ASSUME o.op \in {RD, WR} PROVE dtm'.request = o
        <5>1. o.op # NOP
          BY <4>2 DEF RD, WR, NOP
        <5>2. ~jtag_bsy
          BY <1>2, <1>12, <3>2, <4>1, <5>1, Zenon
        <5>3. Latches("update", link.msg)
          BY <1>3, <4>1, <4>2, <5>2, Zenon DEF Latches
        <5> QED BY <1>4, <4>1, <5>3, Zenon DEF BridgeMoves
      <4>3. ops'[Len(h'.got) + 1] = o
        BY <1>2, <1>8, Zenon
      <4>4. o.op \in {RD, WR} => /\ dtm'.request.op = o.op /\ addr' = o.addr
                                 /\ o.op = WR => dout' = o.data
        BY <4>2, Zenon DEF addr, dout
      <4> HIDE DEF o
      <4> QED BY <4>3, <4>4, Zenon DEF Carrying, Carries, RD, WR
    <3>3. Asking'
      BY <1>1, <1>2, <2>1, <2>3, <3>1, <3>2 DEF Asking
    <3> QED BY <1>5, <1>6, <1>7, <1>10, <3>3, Zenon DEF IInv
  <2> QED BY <2>2, <2>3, Zenon DEF IInv, HostBits
<1> QED BY <1>11, <1>12, Zenon

\* What dmi_read and dmi_write do with the answer to a scan.
LEMMA Answer ==
  ASSUME Shape, HostBits, NEW rc, NEW data, h' = dmi_rw(rc, data)
  PROVE  /\ h'.st = h.st /\ h'.client = h.client /\ h'.cmd = h.cmd /\ h'.init = h.init
         /\ h'.refused = h.refused /\ h'.abandoned = h.abandoned
         /\ h' = [st |-> h'.st, client |-> h'.client, cmd |-> h'.cmd, got |-> h'.got,
                  ph |-> h'.ph, init |-> h'.init, refused |-> h'.refused,
                  abandoned |-> h'.abandoned]
         /\ Results'
         /\ h.ph = "req" => h'.ph = "poll" /\ h'.got = h.got
         /\ h.ph = "poll" /\ rc # 0 => h'.ph = "poll" /\ h'.got = h.got
         /\ h.ph = "poll" /\ rc = 0 =>
              /\ h'.ph = "req" /\ Len(h'.got) = Len(h.got) + 1 /\ h'.got # <<>>
              /\ Ops(cmd, h'.got)[Len(h.got) + 1] = Ops(cmd, h.got)[Len(h.got) + 1]
<1> DEFINE v == IF ops[Len(h.got) + 1].op = RD THEN data ELSE 0
           new == Append(h.got, v)
<1>1. /\ Len(new) = Len(h.got) + 1 /\ new # <<>>
      /\ Listed(new)
      /\ Ops(cmd, new)[Len(h.got) + 1] = Ops(cmd, h.got)[Len(h.got) + 1]
  <2> HIDE DEF v
  <2>1. Listed(h.got)
    BY Zenon DEF HostBits, Results
  <2> QED BY <2>1, OneMore
<1>2. CASE h.ph = "req"
  <2>1. h' = [h EXCEPT !.ph = "poll"]
    BY <1>2, Zenon DEF dmi_rw
  <2>2. /\ h'.st = h.st /\ h'.client = h.client /\ h'.cmd = h.cmd /\ h'.init = h.init
        /\ h'.refused = h.refused /\ h'.abandoned = h.abandoned /\ h'.got = h.got /\ h'.ph = "poll"
        /\ h' = [st |-> h'.st, client |-> h'.client, cmd |-> h'.cmd, got |-> h'.got,
                 ph |-> h'.ph, init |-> h'.init, refused |-> h'.refused,
                 abandoned |-> h'.abandoned]
    BY <2>1 DEF Shape
  <2>3. Results'
    BY <2>2, Zenon DEF HostBits, Results
  <2> QED BY <1>2, <2>2, <2>3
<1>3. CASE h.ph = "poll" /\ rc # 0
  <2>1. h' = h
    BY <1>3 DEF dmi_rw
  <2>2. Results'
    BY <2>1, Zenon DEF HostBits, Results
  <2> QED BY <1>3, <2>1, <2>2, Zenon DEF Shape
<1>4. CASE h.ph = "poll" /\ rc = 0
  <2>1. h' = [h EXCEPT !.ph = "req", !.got = new]
    BY <1>4 DEF dmi_rw
  <2>2. /\ h'.st = h.st /\ h'.client = h.client /\ h'.cmd = h.cmd /\ h'.init = h.init
        /\ h'.refused = h.refused /\ h'.abandoned = h.abandoned /\ h'.got = new /\ h'.ph = "req"
        /\ h' = [st |-> h'.st, client |-> h'.client, cmd |-> h'.cmd, got |-> h'.got,
                 ph |-> h'.ph, init |-> h'.init, refused |-> h'.refused,
                 abandoned |-> h'.abandoned]
    <3> HIDE DEF new
    <3> QED BY <2>1, Zenon DEF Shape
  <2> HIDE DEF new
  <2>3. Results'
    BY <1>1, <2>2, Zenon DEF Results
  <2> QED BY <1>1, <1>4, <2>2, <2>3
<1> QED BY <1>2, <1>3, <1>4, Zenon DEF HostBits

\* The answer to a scan: the client goes on to poll, and when a poll is
\* answered with zero the request it sent is the last one the bridge carried.
LEMMA ReceiveInv == ASSUME IInv, Receive PROVE IInv'
<1>1. /\ h.st = "run" /\ link.st = "done" /\ UNCHANGED scen /\ UNCHANGED tvars /\ UNCHANGED dtm
      /\ link'.st = "none" /\ link'.orphan = link.orphan /\ link'.msg = link.msg
      /\ link'.resp = link.resp /\ link'.alive = link.alive
      /\ link' = [st |-> link'.st, msg |-> link'.msg, resp |-> link'.resp, n |-> link'.n,
                  orphan |-> link'.orphan, alive |-> link'.alive]
  BY DEF IInv, Shape, Receive, tvars
<1>2. h' = dmi_rw(link.resp.op, link.resp.data)
  BY DEF Receive
<1>3. /\ h'.st = h.st /\ h'.client = h.client /\ h'.cmd = h.cmd /\ h'.init = h.init
      /\ h'.refused = h.refused /\ h'.abandoned = h.abandoned
      /\ h' = [st |-> h'.st, client |-> h'.client, cmd |-> h'.cmd, got |-> h'.got,
               ph |-> h'.ph, init |-> h'.init, refused |-> h'.refused,
               abandoned |-> h'.abandoned]
      /\ Results'
      /\ h.ph = "req" => h'.ph = "poll" /\ h'.got = h.got
      /\ h.ph = "poll" /\ link.resp.op # 0 => h'.ph = "poll" /\ h'.got = h.got
      /\ h.ph = "poll" /\ link.resp.op = 0 =>
           /\ h'.ph = "req" /\ Len(h'.got) = Len(h.got) + 1 /\ h'.got # <<>>
           /\ Ops(cmd, h'.got)[Len(h.got) + 1] = Ops(cmd, h.got)[Len(h.got) + 1]
  BY <1>2, Answer, Zenon DEF IInv
<1>4. Bits' /\ Wave' /\ Kept
  BY <1>1, TargetSame, Zenon DEF IInv
<1>5. Shape'
  BY <1>1, <1>3, Zenon DEF IInv, Shape, BridgeFields
<1>6. HostBits'
  <2>1. h'.ph \in {"req", "poll"}
    BY <1>3, Zenon DEF IInv, HostBits
  <2> QED BY <1>1, <1>3, <2>1, Zenon DEF IInv, HostBits
<1>7. link.alive => ~link.orphan /\ ~CommandDone
  BY <1>1 DEF IInv, Scanning
<1>8. dtm.sel
  BY <1>1 DEF IInv, Scanning
<1>9. CASE h'.ph = "poll" /\ h'.got = h.got
  <2>1. ops' = ops /\ (CommandDone' <=> CommandDone)
    BY <1>1, <1>3, <1>9, SamePlace, Zenon
  <2>2. Carrying => Carrying'
    BY <1>4, <1>9, <2>1, StillCarries, Zenon
  <2>3. Scanning'
    BY <1>1, <1>3, <1>7, <1>8, <1>9, <2>1, Zenon DEF IInv, Scanning, Jtag
  <2>4. Asking'
    BY <1>1, <1>3, <1>9, <2>2, Zenon DEF IInv, Asking
  <2> QED BY <1>4, <1>5, <1>6, <2>3, <2>4, Zenon DEF IInv
<1>10. CASE h.ph = "poll" /\ link.resp.op = 0
  <2>1. h'.ph = "req"
    BY <1>3, <1>10, Zenon
  <2>2. link.alive => Idle /\ Idle'
    BY <1>1, <1>4, <1>10 DEF IInv, Asking, Kept, NOP
  <2>3. ops'[Len(h'.got)] = ops[Len(h.got) + 1]
    <3>1. cmd' = cmd
      BY <1>1, <1>3, Zenon DEF cmd, argv
    <3> QED BY <1>3, <1>10, <3>1, Zenon DEF ops
  <2>4. Carrying => Carried'
    BY <1>4, <2>3, Zenon DEF Carrying, Carried, Carries, Kept, wr
  <2>5. Scanning'
    BY <1>1, <1>3, <1>7, <1>8, <2>1, Zenon DEF IInv, Scanning, Jtag
  <2>6. Asking'
    BY <1>1, <1>3, <1>10, <2>1, <2>2, <2>4, Zenon DEF IInv, Asking
  <2> QED BY <1>4, <1>5, <1>6, <2>5, <2>6, Zenon DEF IInv
<1> QED BY <1>3, <1>9, <1>10, Zenon DEF IInv, HostBits

\* The simulator has gone; nothing is asked of the target any more.
LEMMA DeadAnswerInv == ASSUME IInv, DeadAnswer PROVE IInv'
<1>1. /\ h.st = "run" /\ ~link.alive /\ UNCHANGED scen /\ UNCHANGED tvars /\ UNCHANGED dtm
      /\ link'.st = "none" /\ link'.orphan = link.orphan /\ link'.alive = link.alive
      /\ link' = [st |-> link'.st, msg |-> link'.msg, resp |-> link'.resp, n |-> link'.n,
                  orphan |-> link'.orphan, alive |-> link'.alive]
  BY DEF IInv, Shape, DeadAnswer, tvars
<1>2. h' = dmi_rw(msg.op, msg.data)
  BY DEF DeadAnswer
<1>3. /\ h'.st = h.st /\ h'.init = h.init
      /\ h'.refused = h.refused /\ h'.abandoned = h.abandoned
      /\ h' = [st |-> h'.st, client |-> h'.client, cmd |-> h'.cmd, got |-> h'.got,
               ph |-> h'.ph, init |-> h'.init, refused |-> h'.refused,
               abandoned |-> h'.abandoned]
      /\ Results' /\ h'.ph \in {"req", "poll"}
  BY <1>2, Answer, Zenon DEF IInv, HostBits
<1>4. Bits' /\ Wave'
  BY <1>1, TargetSame, Zenon DEF IInv
<1>5. Shape'
  BY <1>1, <1>3, Zenon DEF IInv, Shape, BridgeFields
<1>6. HostBits'
  BY <1>1, <1>3, Zenon DEF IInv, HostBits
<1>7. Scanning'
  BY <1>1, <1>3, Zenon DEF IInv, Scanning, Jtag
<1>8. Asking'
  BY <1>1, <1>3 DEF IInv, Asking
<1> QED BY <1>4, <1>5, <1>6, <1>7, <1>8, Zenon DEF IInv

\* A scan fails: the operation is abandoned.
LEMMA ScanFailsInv == ASSUME IInv, ScanFails PROVE IInv'
<1>1. /\ h.st = "run" /\ (Jtag \/ ~link.alive)
      /\ UNCHANGED scen /\ UNCHANGED tvars /\ UNCHANGED dtm
      /\ link'.st = "none" /\ link'.orphan = link.orphan /\ link'.alive = link.alive
      /\ link' = [st |-> link'.st, msg |-> link'.msg, resp |-> link'.resp, n |-> link'.n,
                  orphan |-> link'.orphan, alive |-> link'.alive]
  BY DEF IInv, Shape, ScanFails, tvars
<1>2. /\ \/ h'.st = "off" /\ h'.got = h.got /\ h'.ph = h.ph
         \/ h'.st = "run" /\ h'.got = <<>> /\ h'.ph = "req"
      /\ h'.abandoned = TRUE /\ h'.refused = h.refused /\ h'.init = h.init
      /\ h' = [st |-> h'.st, client |-> h'.client, cmd |-> h'.cmd, got |-> h'.got, ph |-> h'.ph,
               init |-> h'.init, refused |-> h'.refused, abandoned |-> h'.abandoned]
  <2>1. CASE ExitsOnError
    BY <2>1, Zenon DEF IInv, Shape, ScanFails
  <2>2. CASE ~ExitsOnError
    BY <1>1, <2>2, Zenon DEF IInv, Shape, ScanFails
  <2> QED BY <2>1, <2>2, Zenon
<1>3. Bits' /\ Wave'
  BY <1>1, TargetSame, Zenon DEF IInv
<1>4. Shape'
  BY <1>1, <1>2, Zenon DEF IInv, Shape, BridgeFields
<1>5. HostBits'
  <2>1. Results'
    BY <1>2, NoResults, Zenon DEF IInv, HostBits, Results
  <2> QED BY <1>1, <1>2, <2>1, Zenon DEF IInv, HostBits
<1>6. link.alive => ~link.orphan
  BY <1>1, Zenon DEF IInv, Scanning
<1>7. Scanning'
  BY <1>1, <1>2, <1>6, Zenon DEF IInv, Scanning, Jtag
<1>8. Asking'
  BY <1>1, <1>2, Zenon DEF Asking
<1> QED BY <1>3, <1>4, <1>5, <1>7, <1>8, Zenon DEF IInv

\* A clock of the system is an edge of it, with some input.
LEMMA ClockMoves == ASSUME IInv, Clock PROVE SystemMoves
<1>1. PICK ack, stall, terminate, stops, free \in BOOLEAN, hit \in SUBSET scen.hits :
        /\ terminate => scen.terminates
        /\ stall => wbm.stb
        /\ stops => core_stop
        /\ free => core.gpr_req
        /\ SysEdge(ack, stall, hit, terminate, stops, free)
  BY Zenon DEF Clock
<1>2. SysEdge(ack, stall, hit, terminate, stops, free) /\ Shape /\ Bits
  BY <1>1, Zenon DEF IInv
<1> QED BY <1>2, SystemEdge, SMT

\* A clock of the system.
LEMMA ClockInv == ASSUME IInv, Clock PROVE IInv'
<1>1. /\ link.alive /\ UNCHANGED h /\ UNCHANGED scen
      /\ link'.st = link.st /\ link'.orphan = link.orphan /\ link'.msg = link.msg
      /\ link'.resp = link.resp /\ link'.alive = ~Exit
      /\ link' = [st |-> link'.st, msg |-> link'.msg, resp |-> link'.resp, n |-> link'.n,
                  orphan |-> link'.orphan, alive |-> link'.alive]
  BY Zenon DEF IInv, Shape, Clock
<1>2. SystemMoves
  BY ClockMoves
<1>3. Bits' /\ Wave' /\ Kept
  BY <1>1, <1>2, WaveSystem, SystemKeeps, Zenon DEF IInv
<1>4. Shape'
  BY <1>1, <1>2, Zenon DEF IInv, Shape, SystemMoves
<1>5. link'.alive \in BOOLEAN /\ (Jtag => link'.alive)
  BY <1>1, Zenon DEF Exit, Jtag
<1>6. HostBits'
  BY <1>1, <1>5, Zenon DEF IInv, HostBits, Results
<1>7. ops' = ops /\ (CommandDone' <=> CommandDone) /\ msg' = msg
  BY <1>1, SamePlace, Zenon
<1>8. (Carrying => Carrying') /\ (Carried => Carried')
  BY <1>1, <1>3, <1>7, StillCarries, Zenon
<1>9. Scanning'
  BY <1>1, <1>3, <1>5, <1>7, Zenon DEF IInv, Scanning, Jtag, Kept
<1>10. Asking'
  BY <1>1, <1>3, <1>8, Zenon DEF IInv, Asking, Kept
<1> QED BY <1>3, <1>4, <1>6, <1>9, <1>10, Zenon DEF IInv

\* Nothing happens.
LEMMA StutterInv == ASSUME IInv, UNCHANGED vars PROVE IInv'
<1>1. UNCHANGED h /\ UNCHANGED link /\ UNCHANGED scen /\ UNCHANGED tvars /\ UNCHANGED dtm
  BY DEF vars, tvars
<1>2. Bits' /\ Wave' /\ Kept
  BY <1>1, TargetSame, Zenon DEF IInv
<1>3. ops' = ops /\ (CommandDone' <=> CommandDone) /\ msg' = msg
  BY <1>1, SamePlace, Zenon
<1>4. (Carrying => Carrying') /\ (Carried => Carried')
  BY <1>1, <1>2, <1>3, StillCarries, Zenon
<1>5. Shape' /\ HostBits'
  BY <1>1, Zenon DEF IInv, Shape, BridgeFields, HostBits, Results
<1>6. Scanning'
  BY <1>1, <1>3, Zenon DEF IInv, Scanning, Jtag
<1>7. Asking'
  BY <1>1, <1>2, <1>4, Zenon DEF IInv, Asking, Kept
<1> QED BY <1>2, <1>5, <1>6, <1>7, Zenon DEF IInv

\* After reset, before the first client.
LEMMA InitInv == ASSUME Init PROVE IInv
<1>1. Shape
  BY Zenon DEF Init, TargetInit, Shape, BridgeFields
<1>2. Bits
  BY Zenon DEF Init, TargetInit, Bits
<1>3. Wave
  BY Zenon DEF Init, TargetInit, Wave, Deselected, Quiet, addr
<1>4. HostBits
  <2>1. Len(<<>>) = 0 /\ <<>> = [i \in 1 .. 0 |-> <<>>[i]]
    OBVIOUS
  <2>2. Results
    BY <2>1, Zenon DEF Init, Results, Listed
  <2> QED BY <2>2 DEF Init, HostBits
<1>5. Scanning
  BY Zenon DEF Init, TargetInit, Scanning
<1>6. Asking
  BY Zenon DEF Init, TargetInit, Asking, Idle
<1> QED BY <1>1, <1>2, <1>3, <1>4, <1>5, <1>6, Zenon DEF IInv

\* Every step of the debugger and of the target.
LEMMA StepInv == ASSUME IInv, [Next]_vars PROVE IInv'
BY StartInv, InitCallInv, InitFailsInv, InitDoneInv, NextCommandInv, KillInv, IssueInv,
   CaptureInv, ShiftInv, UpdateInv, DummyInv, ReceiveInv, DeadAnswerInv, ScanFailsInv,
   ClockInv, StutterInv, Zenon DEF Next

\* The invariant holds of every behaviour of mw_debug and its target.
THEOREM Linked == Spec => []IInv
<1>1. Init => IInv
  BY InitInv
<1>2. IInv /\ [Next]_vars => IInv'
  BY StepInv
<1> QED BY <1>1, <1>2, PTL DEF Spec

----------------------------------------------------------------------------
\* What follows.

\* A request that is not refused has had its effect once when dmi_read or
\* dmi_write returns.
LEMMA Effective == ASSUME IInv PROVE ExactlyOnce
<1>1. effects <= 1
  BY DEF IInv, Bits
<1>2. ASSUME h.st = "run", h.got # <<>>, h.ph = "req", link.st = "none", ~h.refused, link.alive,
             HasEffect(ops[Len(h.got)])
      PROVE  effects = 1
  <2> DEFINE o == ops[Len(h.got)]
  <2>1. Idle /\ Carries(o) /\ dtm.sel
    BY <1>2, Zenon DEF IInv, Asking, Scanning, Carried
  <2>2. addr = "WB_DATA" \/ Commanding => effects = 1
    BY <2>1, Rests, Zenon DEF IInv
  <2>3. HasEffect(o)
    BY <1>2
  <2> HIDE DEF o
  <2>4. CASE o.op \in {RD, WR} /\ o.addr = "WB_DATA"
    BY <2>1, <2>2, <2>4, Zenon DEF Carries
  <2>5. CASE /\ o.op = WR /\ o.addr = "CTRL"
             /\ \E b \in {STOP, RESET, ICRESET, STEP, START} : Bit(o.data, b)
    <3>1. wr /\ addr = "CTRL" /\ dout = o.data
      BY <2>1, <2>5, Zenon DEF Carries, wr
    <3>2. Commanding
      BY <2>5, <3>1, Zenon DEF Commanding, Commands
    <3> QED BY <2>2, <3>2, Zenon
  <2> QED BY <2>3, <2>4, <2>5, Zenon DEF HasEffect
<1>3. OneEffect
  BY <1>1, <1>2, Zenon DEF OneEffect
<1>4. RefusedOnlyAfterAbandon
  BY Zenon DEF IInv, Asking, RefusedOnlyAfterAbandon
<1> QED BY <1>3, <1>4, Zenon DEF ExactlyOnce

\* Whatever the command lines, the clocks and the failures: an operation of
\* mw_debug that the bridge does not refuse acts on the bus or on the core
\* exactly once (one_shot, the states of wishbone_debug_master), and the bridge
\* refuses a request only after an operation was abandoned.
THEOREM Once == Spec => []ExactlyOnce
<1>1. IInv => ExactlyOnce
  BY Effective
<1> QED BY <1>1, Linked, PTL

\* A request is raised by an edge of tck that latches it, and then the last
\* one has gone from every stage.
LEMMA LatchApart ==
  ASSUME IInv, dtm.sel, NEW kind, NEW m, TckEdge(kind, m)
  PROVE  /\ BridgeMoves(kind, m)
         /\ Latches(kind, m) => ~dtm.req0 /\ ~dtm.req1 /\ ~dmi_ack
         /\ RequestsApart
<1>1. BridgeMoves(kind, m)
  <2>1. dmi_ack \in BOOLEAN
    BY Acknowledge, Zenon DEF IInv, Acknowledged
  <2> QED BY <2>1, BridgeEdge, Zenon DEF IInv
<1>2. Latches(kind, m) => Idle
  BY Zenon DEF Latches, jtag_bsy, Idle
<1>3. Latches(kind, m) => ~dtm.req0 /\ ~dtm.req1 /\ ~dmi_ack
  BY <1>2, Rests, Zenon DEF IInv
<1> QED BY <1>1, <1>3, Zenon DEF BridgeMoves, RequestsApart

\* An edge of tck needs the chain to be selected.
LEMMA Selected ==
  ASSUME IInv, Capture \/ Shift \/ Update \/ Dummy
  PROVE  dtm.sel /\ \E kind, m : TckEdge(kind, m)
<1>1. CASE Capture
  BY <1>1 DEF Capture, IInv, Scanning
<1>2. CASE Shift
  BY <1>2 DEF Shift, IInv, Scanning
<1>3. CASE Update
  BY <1>3 DEF Update, IInv, Scanning
<1>4. CASE Dummy
  BY <1>4 DEF Dummy
<1> QED BY <1>1, <1>2, <1>3, <1>4, Zenon

\* The other steps leave the target's registers, and the request unless they
\* reset the TAP.
LEMMA Elsewhere ==
  ASSUME IInv, \/ Start \/ InitCall \/ InitFails \/ InitDone \/ NextCommand \/ Kill
               \/ Issue \/ Receive \/ DeadAnswer \/ ScanFails \/ UNCHANGED vars
  PROVE  /\ UNCHANGED wbm /\ UNCHANGED dbg /\ UNCHANGED core /\ UNCHANGED log
         /\ dtm'.req0 = dtm.req0 /\ dtm'.req1 = dtm.req1
         /\ \/ dtm'.jtag_req = dtm.jtag_req /\ dtm'.request = dtm.request
            \/ ~dtm'.jtag_req /\ addr' = "WB_ADDR"
<1>1. CASE InitCall
  <2>1. (TapReset /\ UNCHANGED <<wbm, dbg, core, log>>) \/ UNCHANGED tvars
    BY <1>1, Zenon DEF InitCall
  <2>2. TapReset => /\ ~dtm'.jtag_req /\ addr' = "WB_ADDR"
                    /\ dtm'.req0 = dtm.req0 /\ dtm'.req1 = dtm.req1
    BY DEF TapReset, addr, IInv, Shape, BridgeFields
  <2> QED BY <2>1, <2>2 DEF tvars
<1>2. CASE InitDone
  BY <1>2 DEF InitDone, IInv, Shape, BridgeFields
<1>3. CASE \/ Start \/ InitFails \/ NextCommand \/ Kill \/ Issue \/ Receive \/ DeadAnswer
           \/ ScanFails \/ UNCHANGED vars
  <2>1. UNCHANGED tvars
    BY <1>3, Zenon DEF Start, InitFails, NextCommand, Kill, Issue, Receive, DeadAnswer, ScanFails, vars
  <2> QED BY <2>1 DEF tvars
<1> QED BY <1>1, <1>2, <1>3, Zenon

\* Every step keeps requests apart.
LEMMA ApartStep == ASSUME IInv, [Next]_vars PROVE RequestsApart
<1>1. CASE Capture \/ Shift \/ Update \/ Dummy
  BY <1>1, Selected, LatchApart, Zenon
<1>2. CASE Clock
  BY <1>2, ClockMoves, Zenon DEF SystemMoves, RequestsApart
<1>3. CASE \/ Start \/ InitCall \/ InitFails \/ InitDone \/ NextCommand \/ Kill
           \/ Issue \/ Receive \/ DeadAnswer \/ ScanFails \/ UNCHANGED vars
  BY <1>3, Elsewhere, Zenon DEF RequestsApart
<1> QED BY <1>1, <1>2, <1>3, Zenon DEF Next

\* A request is raised only after the last one has left both stages of the
\* synchroniser and its acknowledge has gone down, as dmi_dtm_xilinx.vhdl asks:
\* also when a client was killed, a scan failed or the TAP was reset.
THEOREM Apart == Spec => [][RequestsApart]_vars
<1>1. IInv /\ [Next]_vars => RequestsApart
  BY ApartStep
<1> QED BY <1>1, Linked, PTL DEF Spec

----------------------------------------------------------------------------
\* The data.

DataMoves ==
  /\ wbm.state = "DMI_WAIT" => wbm'.latch = wbm.latch
  /\ core.ack => core'.data = core.data
  /\ ~log.done => log'.data = log.data
  /\ dbg'.rd_log \in BOOLEAN /\ (dbg'.rd_log <=> dtm.req1 /\ addr = "LOG_DATA")
  /\ dbg'.rd_log_1 = dbg.rd_log
  /\ dbg'.do_log_rd \in BOOLEAN
  /\ dbg'.do_log_rd => (dtm.req1 /\ addr = "LOG_ADDR") \/ (~dbg.rd_log /\ dbg.rd_log_1)
  /\ log'.reading = dbg.do_log_rd /\ log'.done = log.reading

\* On an edge of the system clock: who changes the data a slave answers with,
\* and the pipeline that reads the log ahead.
LEMMA ClockData == ASSUME IInv, Clock PROVE DataMoves
<1>1. PICK ack, stall, terminate, stops, free \in BOOLEAN, hit \in SUBSET scen.hits :
        /\ terminate => scen.terminates
        /\ stall => wbm.stb
        /\ stops => core_stop
        /\ free => core.gpr_req
        /\ SysEdge(ack, stall, hit, terminate, stops, free)
  BY Zenon DEF Clock
<1>2. wbm.state = "DMI_WAIT" => wbm'.latch = wbm.latch
  BY <1>1 DEF SysEdge, WbEdge
<1>3. core.ack => core'.data = core.data
  BY <1>1 DEF SysEdge, CoreEdge
<1>4. /\ ~log.done => log'.data = log.data
      /\ log'.reading = dbg.do_log_rd /\ log'.done = log.reading
  BY <1>1 DEF SysEdge, log_buffer
<1>5. /\ dbg'.rd_log = ((dtm.req1 /\ addr \in CoreRegs) /\ addr = "LOG_DATA")
      /\ dbg'.rd_log_1 = dbg.rd_log
      /\ dbg'.do_log_rd = IF one_shot THEN wr /\ addr = "LOG_ADDR" ELSE ~dbg.rd_log /\ dbg.rd_log_1
  BY <1>1 DEF SysEdge, reg_write, core_req, req, inc_log_addr
<1>6. "LOG_DATA" \in CoreRegs
  BY DEF CoreRegs
<1>7. /\ dbg'.rd_log \in BOOLEAN /\ (dbg'.rd_log <=> dtm.req1 /\ addr = "LOG_DATA")
  BY <1>5, <1>6, Zenon
<1>8. CASE one_shot
  <2>1. dbg'.do_log_rd = (wr /\ addr = "LOG_ADDR")
    BY <1>5, <1>8, Zenon
  <2>2. dtm.req1
    BY <1>8, Zenon DEF one_shot, core_req, req
  <2> QED BY <1>2, <1>3, <1>4, <1>5, <1>7, <2>1, <2>2, Zenon DEF DataMoves
<1>9. CASE ~one_shot
  <2>1. dbg'.do_log_rd = (~dbg.rd_log /\ dbg.rd_log_1)
    BY <1>5, <1>9, Zenon
  <2> QED BY <1>2, <1>3, <1>4, <1>5, <1>7, <2>1, Zenon DEF DataMoves
<1> QED BY <1>8, <1>9, Zenon

\* An edge of the system clock, for a client that is careful.
LEMMA ClockSettles ==
  ASSUME IInv, LogInv, Clock, Careful
  PROVE  LogWave' /\ Settling'
<1>1. /\ link.alive /\ UNCHANGED h /\ UNCHANGED scen
      /\ link'.st = link.st /\ link'.resp = link.resp
      /\ link'.n = IF link.st = "shift" /\ link.n < scen.minsys THEN link.n + 1 ELSE link.n
  BY DEF IInv, Shape, Clock
<1>2. SystemMoves /\ DataMoves /\ LogBits /\ LogWave /\ Settling
  BY <1>1, ClockMoves, ClockData, Zenon DEF LogInv
<1>3. addr' = addr
  BY <1>2, Zenon DEF SystemMoves, addr
<1>4. ~dtm.sel => ~dtm.jtag_req /\ addr = "WB_ADDR"
  BY Zenon DEF IInv, Wave, Deselected
<1>5. dtm.sel => (dtm.jtag_req => (dtm.req1 => dtm.req0)) /\ (~dtm.jtag_req => (dtm.req0 => dtm.req1))
  BY Zenon DEF IInv, Wave, Rising, Falling
<1>6. LogWave'
  <2>1. dtm'.jtag_req /\ ~dtm'.req1 => /\ ~dbg'.rd_log /\ ~dbg'.rd_log_1 /\ ~dbg'.do_log_rd
                                       /\ dtm'.req0 => ~log'.reading
    BY <1>2, <1>4, <1>5, Zenon DEF SystemMoves, DataMoves, LogWave
  <2>2. ASSUME dtm'.req1, addr' = "LOG_DATA"
        PROVE  /\ ~dbg'.do_log_rd /\ ~log'.reading /\ ~log'.done
               /\ dbg'.rd_log_1 => dbg'.rd_log
    <3>1. dtm.req0 /\ dtm.sel /\ addr # "LOG_ADDR" /\ addr = "LOG_DATA"
      BY <1>2, <1>3, <1>4, <2>2, Zenon DEF SystemMoves
    <3>2. CASE dtm.req1
      BY <1>2, <3>1, <3>2, Zenon DEF DataMoves, LogWave
    <3>3. CASE ~dtm.req1
      <4>1. dtm.jtag_req
        BY <1>5, <3>1, <3>3, Zenon
      <4> QED BY <1>2, <3>1, <3>3, <4>1, Zenon DEF DataMoves, LogWave
    <3> QED BY <3>2, <3>3
  <2> QED BY <2>1, <2>2, Zenon DEF LogWave
<1>7. Idle => ~dbg'.rd_log
  <2>1. CASE dtm.sel
    BY <1>2, <2>1, Rests, Zenon DEF IInv, DataMoves
  <2>2. CASE ~dtm.sel
    BY <1>2, <1>4, <2>2 DEF DataMoves
  <2> QED BY <2>1, <2>2, Zenon
<1>8. ~h.abandoned
  BY <1>2, Zenon DEF Settling
<1>9. ~(h.st = "run" /\ (h.ph = "poll" \/ link.st = "done")) =>
         Idle /\ ~dbg.rd_log /\ ~dbg.rd_log_1
  BY <1>1, <1>2, <1>8, Zenon DEF IInv, Asking, Settling
<1>10. h.st = "run" /\ h.ph = "req" /\ link.st = "shift" => ~dbg'.do_log_rd
  <2> SUFFICES ASSUME h.st = "run", h.ph = "req", link.st = "shift" PROVE ~dbg'.do_log_rd
    BY Zenon
  <2>1. Idle /\ ~dbg.rd_log_1 /\ dtm.sel
    BY <1>9 DEF IInv, Scanning
  <2>2. ~dtm.req1
    BY <2>1, Rests, Zenon DEF IInv
  <2> QED BY <1>2, <2>1, <2>2, Zenon DEF DataMoves
<1>11. link.n \in Nat /\ (link'.n >= 2 => link.n >= 1) /\ link.n \in Int
  <2>1. scen.minsys \in Nat
    BY <1>2, ScenariosAssumption DEF LogBits
  <2> QED BY <1>1, <1>2, <2>1 DEF LogBits
<1>12. ASSUME h.st = "run", h.ph = "poll", link.resp.op = NOP
       PROVE  /\ link.st = "shift" => ~dbg'.rd_log
              /\ link.st = "shift" /\ link'.n >= 2 => ~dbg'.rd_log_1
              /\ link.st = "done" => ~dbg'.rd_log /\ ~dbg'.rd_log_1
  <2>1. link.st \in {"shift", "done"} => Idle
    BY <1>1, <1>12, Zenon DEF IInv, Asking
  <2>2. link.st \in {"shift", "done"} => ~dbg'.rd_log
    BY <1>7, <2>1, Zenon
  <2>3. link.st = "shift" /\ link'.n >= 2 => ~dbg.rd_log
    BY <1>2, <1>11, <1>12, Zenon DEF Settling
  <2>4. link.st = "done" => ~dbg.rd_log
    BY <1>2, <1>12, Zenon DEF Settling
  <2> QED BY <1>2, <2>2, <2>3, <2>4, Zenon DEF DataMoves
<1>13. Settling'
  BY <1>1, <1>2, <1>7, <1>8, <1>9, <1>10, <1>12, Zenon DEF Settling, DataMoves
<1> QED BY <1>6, <1>13, Zenon

\* The scan counts the system clocks it takes, and only issues one anew.
LEMMA Counting ==
  ASSUME IInv, LogBits, [Next]_vars
  PROVE  /\ UNCHANGED scen /\ link'.n \in Nat /\ (link'.st = "sent" => link'.n = 0)
         /\ link'.alive => link.alive
<1>1. CASE Start \/ InitCall \/ InitFails \/ InitDone \/ NextCommand \/ Shift \/ Dummy \/ UNCHANGED vars
  <2>1. UNCHANGED scen /\ UNCHANGED link
    BY <1>1 DEF Start, InitCall, InitFails, InitDone, NextCommand, Shift, Dummy, vars
  <2> QED BY <2>1, Zenon DEF LogBits
<1>2. CASE Kill
  BY <1>2 DEF Kill, IInv, Shape, LogBits
<1>3. CASE Issue
  BY <1>3 DEF Issue, IInv, Shape
<1>4. CASE Capture
  BY <1>4 DEF Capture, IInv, Shape, LogBits
<1>5. CASE Update
  BY <1>5 DEF Update, IInv, Shape, LogBits
<1>6. CASE Receive \/ DeadAnswer \/ ScanFails
  <2>1. UNCHANGED scen /\ link' = [link EXCEPT !.st = "none"]
    BY <1>6, Zenon DEF Receive, DeadAnswer, ScanFails
  <2> QED BY <2>1 DEF IInv, Shape, LogBits
<1>7. CASE Clock
  BY <1>7 DEF Clock, IInv, Shape, LogBits
<1> QED BY <1>1, <1>2, <1>3, <1>4, <1>5, <1>6, <1>7, Zenon DEF Next

\* An edge of tck, for a client that is careful.  The update of a scan finds
\* the read ahead over.
LEMMA BridgeSettles ==
  ASSUME IInv, LogInv, Careful, Capture \/ Shift \/ Update \/ Dummy
  PROVE  LogWave' /\ Settling' /\ UNCHANGED dbg /\ UNCHANGED log
<1>1. link.alive /\ dtm.sel
  BY Selected DEF Capture, Shift, Update, Dummy
<1>2. LogBits /\ LogWave /\ Settling /\ ~h.abandoned
  BY <1>1, Zenon DEF LogInv, Settling
<1>3. ASSUME NEW kind, NEW m, TckEdge(kind, m)
      PROVE  /\ UNCHANGED dbg /\ UNCHANGED log
             /\ dtm'.req0 = dtm.req0 /\ dtm'.req1 = dtm.req1
             /\ ~Latches(kind, m) => addr' = addr /\ (dtm'.jtag_req => dtm.jtag_req)
             /\ Latches(kind, m) => ~dtm.req0 /\ ~dtm.req1
  BY <1>1, <1>3, LatchApart, Zenon DEF BridgeMoves
<1>4. CASE Capture
  <2>1. /\ link.st = "sent" /\ link'.st = "shift" /\ link'.n = link.n /\ UNCHANGED h
        /\ TckEdge("capture", link.msg) /\ ~Latches("capture", link.msg)
    BY <1>4 DEF Capture, Latches, IInv, Shape
  <2>2. LogWave' /\ UNCHANGED dbg /\ UNCHANGED log
    BY <1>2, <1>3, <2>1, Zenon DEF LogWave
  <2>3. link'.n = 0
    BY <1>2, <2>1 DEF LogBits
  <2> QED BY <1>2, <2>1, <2>2, <2>3 DEF Settling
<1>5. CASE Shift
  <2>1. UNCHANGED h /\ UNCHANGED link /\ TckEdge("shift", link.msg) /\ ~Latches("shift", link.msg)
    BY <1>5 DEF Shift, Latches
  <2>2. LogWave' /\ UNCHANGED dbg /\ UNCHANGED log
    BY <1>2, <1>3, <2>1, Zenon DEF LogWave
  <2> QED BY <1>2, <2>1, <2>2, Zenon DEF Settling
<1>6. CASE Dummy
  <2>1. UNCHANGED h /\ UNCHANGED link /\ TckEdge("idle", Poll) /\ ~Latches("idle", Poll)
    BY <1>6 DEF Dummy, Latches
  <2>2. LogWave' /\ UNCHANGED dbg /\ UNCHANGED log
    BY <1>2, <1>3, <2>1, Zenon DEF LogWave
  <2> QED BY <1>2, <2>1, <2>2, Zenon DEF Settling
<1>7. CASE Update
  <2>1. /\ link.st = "shift" /\ link.n >= scen.minsys /\ TckEdge("update", link.msg)
        /\ link'.st = (IF link.orphan THEN "none" ELSE "done") /\ link'.resp = link.resp
        /\ h'.st = h.st /\ h'.ph = h.ph /\ h'.abandoned = h.abandoned
    BY <1>7 DEF Update, IInv, Shape
  <2>2. h.st = "run" /\ link.msg = msg /\ link'.st = "done"
    BY <1>1, <1>2, <2>1, Zenon DEF IInv, Scanning
  <2>3. link.n >= 2 /\ link.n >= 1
    <3>1. scen.minsys \in Nat /\ link.n \in Nat
      BY <1>2, ScenariosAssumption DEF LogBits
    <3> QED BY <2>1, <3>1 DEF Careful
  <2>4. UNCHANGED dbg /\ UNCHANGED log
    BY <1>3, <2>1, Zenon
  <2>5. CASE h.ph = "poll"
    <3>1. ~Latches("update", link.msg)
      BY <2>2, <2>5 DEF Latches, msg, Poll, NOP, RD, WR
    <3>2. LogWave'
      BY <1>2, <1>3, <2>1, <3>1, Zenon DEF LogWave
    <3>3. link.resp.op = NOP => ~dbg.rd_log /\ ~dbg.rd_log_1
      BY <1>2, <2>1, <2>2, <2>3, <2>5, Zenon DEF Settling
    <3>4. Settling'
      BY <1>2, <2>1, <2>2, <2>4, <2>5, <3>3, Zenon DEF Settling
    <3> QED BY <2>4, <3>2, <3>4
  <2>6. CASE h.ph = "req"
    <3>1. ~dbg.rd_log /\ ~dbg.rd_log_1 /\ ~dbg.do_log_rd
      BY <1>2, <2>1, <2>2, <2>3, <2>6, Zenon DEF Settling
    <3>2. LogWave'
      <4>1. CASE Latches("update", link.msg)
        BY <1>3, <2>1, <2>4, <3>1, <4>1, Zenon DEF LogWave
      <4>2. CASE ~Latches("update", link.msg)
        BY <1>2, <1>3, <2>1, <4>2, Zenon DEF LogWave
      <4> QED BY <4>1, <4>2, Zenon
    <3>3. Settling'
      BY <1>2, <2>1, <2>2, <2>4, <2>6, <3>1, Zenon DEF Settling
    <3> QED BY <2>4, <3>2, <3>3, Zenon
  <2> QED BY <2>5, <2>6, Zenon DEF IInv, HostBits
<1> QED BY <1>4, <1>5, <1>6, <1>7, Zenon

\* A step of a client that is careful: the poll that ends a read leaves it time.
LEMMA ClientSettles ==
  ASSUME IInv, LogInv, Careful, link.alive,
         \/ Start \/ InitCall \/ InitFails \/ InitDone \/ NextCommand \/ Kill
         \/ Issue \/ Receive \/ DeadAnswer \/ ScanFails \/ UNCHANGED vars
  PROVE  LogWave' /\ Settling' /\ UNCHANGED dbg /\ UNCHANGED log
<1>1. LogBits /\ LogWave /\ Settling /\ ~h.abandoned
  BY Zenon DEF LogInv, Settling
<1>2. UNCHANGED dbg /\ UNCHANGED log
  BY Elsewhere, Zenon
<1>3. LogWave'
  <2>1. "WB_ADDR" # "LOG_DATA"
    OBVIOUS
  <2> QED BY <1>1, <2>1, Elsewhere, Zenon DEF LogWave, addr
<1>4. ~link.orphan
  BY <1>1, Zenon DEF IInv, Scanning
<1>5. CASE Start
  <2>1. h'.st = "init" /\ h.st = "off" /\ h'.abandoned = h.abandoned
    BY <1>5 DEF Start, IInv, Shape
  <2> QED BY <1>1, <1>2, <1>3, <2>1, Zenon DEF Settling
<1>6. CASE InitCall
  <2>1. h'.st = "init" /\ h.st = "init" /\ (h'.abandoned => h.abandoned)
    BY <1>6, Zenon DEF InitCall, IInv, Shape
  <2> QED BY <1>1, <1>2, <1>3, <2>1, Zenon DEF Settling
<1>7. CASE InitDone
  <2>1. /\ h'.st = "run" /\ h.st = "init" /\ h'.abandoned = h.abandoned /\ h'.ph = "req"
        /\ link' = link /\ link.st = "none"
    BY <1>4, <1>7 DEF InitDone, IInv, Shape, Scanning
  <2> QED BY <1>1, <1>2, <1>3, <2>1, Zenon DEF Settling
<1>8. CASE NextCommand
  <2>1. /\ h'.abandoned = h.abandoned /\ h'.ph = h.ph /\ h.st = "run" /\ CommandDone /\ link' = link
    BY <1>8 DEF NextCommand, CommandDone, IInv, Shape
  <2>2. h.ph = "req" /\ link.st = "none"
    BY <1>4, <2>1, Zenon DEF IInv, Scanning, HostBits
  <2> QED BY <1>1, <1>2, <1>3, <2>1, <2>2, Zenon DEF Settling
<1>9. CASE Issue
  <2>1. UNCHANGED h /\ link.st = "none" /\ link'.st = "sent"
    BY <1>9 DEF Issue, IInv, Shape
  <2> QED BY <1>1, <1>2, <1>3, <2>1, Zenon DEF Settling
<1>10. CASE Receive
  <2>1. h.st = "run" /\ link.st = "done" /\ link'.st = "none" /\ link'.resp = link.resp
    BY <1>10 DEF Receive, IInv, Shape
  <2>2. /\ h'.st = h.st /\ h'.abandoned = h.abandoned
        /\ h.ph = "req" => h'.ph = "poll"
        /\ h.ph = "poll" /\ link.resp.op # 0 => h'.ph = "poll"
    BY <1>10, Answer, Zenon DEF Receive, IInv
  <2>3. h'.ph # "poll" => ~dbg.rd_log /\ ~dbg.rd_log_1
    BY <1>1, <2>1, <2>2, Zenon DEF Settling, IInv, HostBits, NOP
  <2> QED BY <1>1, <1>2, <1>3, <2>1, <2>2, <2>3, Zenon DEF Settling
<1>11. CASE InitFails \/ Kill \/ DeadAnswer \/ ScanFails
  <2>1. FALSE
    <3>1. ~Kill /\ ~DeadAnswer
      BY Zenon DEF Careful, Kill, DeadAnswer
    <3>2. ~InitFails
      BY Zenon DEF Careful, InitFails
    <3>3. ~ScanFails
      BY Zenon DEF Careful, ScanFails
    <3> QED BY <1>11, <3>1, <3>2, <3>3
  <2> QED BY <2>1
<1>12. CASE UNCHANGED vars
  <2>1. UNCHANGED h /\ UNCHANGED link
    BY <1>12 DEF vars
  <2> QED BY <1>1, <1>2, <1>3, <2>1, Zenon DEF Settling
<1> QED BY <1>5, <1>6, <1>7, <1>8, <1>9, <1>10, <1>11, <1>12, Zenon

\* Every step keeps the read ahead of the log out of the way.
LEMMA LogStep == ASSUME IInv, LogInv, [Next]_vars PROVE LogInv'
<1>1. LogBits
  BY DEF LogInv
<1>2. /\ UNCHANGED scen /\ link'.n \in Nat /\ (link'.st = "sent" => link'.n = 0)
      /\ link'.alive => link.alive
  BY <1>1, Counting
<1>3. LogBits'
  <2>1. CASE Clock
    <3>1. DataMoves
      BY <2>1, ClockData
    <3> QED BY <1>1, <1>2, <3>1, Zenon DEF LogBits, DataMoves
  <2>2. CASE ~Clock
    <3>1. UNCHANGED dbg /\ UNCHANGED log
      <4>1. CASE Capture \/ Shift \/ Update \/ Dummy
        BY <4>1, Selected, LatchApart, Zenon DEF BridgeMoves
      <4>2. CASE ~(Capture \/ Shift \/ Update \/ Dummy)
        BY <2>2, <4>2, Elsewhere, Zenon DEF Next
      <4> QED BY <4>1, <4>2
    <3> QED BY <1>1, <1>2, <3>1, Zenon DEF LogBits
  <2> QED BY <2>1, <2>2, Zenon
<1>4. ASSUME Careful', link'.alive PROVE LogWave' /\ Settling'
  <2>1. Careful /\ link.alive
    BY <1>2, <1>4, Zenon DEF Careful
  <2> QED BY <2>1, ClockSettles, BridgeSettles, ClientSettles, Zenon DEF Next
<1> QED BY <1>3, <1>4, Zenon DEF LogInv

\* After reset the log is not being read.
LEMMA LogInit == ASSUME Init PROVE LogInv
BY Zenon DEF Init, TargetInit, LogInv, LogBits, LogWave, Settling

\* While a read is acknowledged the data stand still, but for LOG_DATA: there
\* they do as long as no read ahead ends.
LEMMA StableStep ==
  ASSUME IInv, [Next]_vars, addr = "LOG_DATA" /\ Clock => ~log.done
  PROVE  DinStable
<1> SUFFICES ASSUME req, req', addr' = addr, dmi_ack, ~wr, addr \in DataRegs
             PROVE  dmi_din' = dmi_din
  BY Zenon DEF DinStable
<1>1. SUFFICES /\ addr = "WB_DATA" => wbm'.latch = wbm.latch
               /\ addr = "GSPR_DATA" => core'.data = core.data
               /\ addr = "LOG_DATA" => log'.data = log.data
  <2>1. CASE addr = "WB_DATA"
    BY <1>1, <2>1 DEF dmi_din, Triggers
  <2>2. CASE addr = "GSPR_DATA"
    BY <1>1, <2>2 DEF dmi_din, Triggers
  <2>3. CASE addr = "LOG_DATA"
    BY <1>1, <2>3 DEF dmi_din, Triggers
  <2> QED BY <2>1, <2>2, <2>3 DEF DataRegs
<1>2. CASE Clock
  <2>1. DataMoves
    BY <1>2, ClockData
  <2>2. addr = "WB_DATA" => wbm.state = "DMI_WAIT"
    BY DEF dmi_ack, wb_ack, WbRegs
  <2>3. addr = "GSPR_DATA" => core.ack
    BY DEF dmi_ack, core_ack, WbRegs, CoreRegs
  <2> QED BY <1>2, <2>1, <2>2, <2>3, Zenon DEF DataMoves
<1>3. CASE ~Clock
  <2>1. CASE Capture \/ Shift \/ Update \/ Dummy
    BY <2>1, Selected, LatchApart, Zenon DEF BridgeMoves
  <2>2. CASE ~(Capture \/ Shift \/ Update \/ Dummy)
    BY <1>3, <2>2, Elsewhere, Zenon DEF Next
  <2> QED BY <2>1, <2>2
<1> QED BY <1>2, <1>3, Zenon

\* Whatever the command lines, the clocks and the failures: the word read by
\* wishbone_debug_master and the register read by core_debug stand still while
\* they are acknowledged, so that the bridge takes them whole in its own clock
\* domain.
THEOREM Whole == Spec => [][addr # "LOG_DATA" => DinStable]_vars
<1>1. IInv /\ [Next]_vars => (addr # "LOG_DATA" => DinStable)
  BY StableStep, Zenon
<1> QED BY <1>1, Linked, PTL DEF Spec

\* When at least two system clocks fit in a scan, no client is killed and no
\* call fails, everything crosses whole, the entries of the log included: the
\* read ahead that the end of a read of LOG_DATA starts is over before the
\* next request reaches core_debug.
THEOREM Crossing ==
  ASSUME \A s \in Scenarios : s.minsys >= 2 /\ ~s.kill /\ ~s.fails
  PROVE  Spec => CrossingSafe
<1>1. Init => LogInv
  BY LogInit
<1>2. IInv /\ LogInv /\ [Next]_vars => LogInv'
  BY LogStep
<1>3. IInv /\ LogInv /\ [Next]_vars => RequestsApart /\ DinStable
  <2> SUFFICES ASSUME IInv, LogInv, [Next]_vars PROVE RequestsApart /\ DinStable
    OBVIOUS
  <2>1. Careful
    BY DEF LogInv, LogBits, Careful
  <2>2. ASSUME req, addr = "LOG_DATA", Clock PROVE ~log.done
    <3>1. link.alive
      BY <2>2, Zenon DEF Clock
    <3> QED BY <2>1, <2>2, <3>1, Zenon DEF LogInv, LogWave, req
  <2>3. req => DinStable
    BY <2>2, StableStep, Zenon
  <2>4. ~req => DinStable
    BY Zenon DEF DinStable
  <2> QED BY <2>3, <2>4, ApartStep, Zenon
<1> QED BY <1>1, <1>2, <1>3, Linked, PTL DEF Spec, CrossingSafe
=============================================================================
