------------------------------- MODULE MwDebug -------------------------------
(***************************************************************************)
(* The debugger scripts/mw_debug/mw_debug.c, driving the target of Dmi     *)
(* through one of its backends: UrJTAG (bscane2, ecp5) or the socket of    *)
(* the simulator ("sim", sim_jtag_socket_c.c and sim_jtag.vhdl).           *)
(*                                                                         *)
(* Clients run one after the other; each is a command line, a sequence of  *)
(* command records.  A command is a sequence of DMI operations, each of    *)
(* which is one request scan and as many polling scans as it takes.        *)
(***************************************************************************)
EXTENDS Dmi

CONSTANT Scenarios   \* what is run: backend, command lines, what may happen

ASSUME ScenariosAssumption == \A s \in Scenarios : s.minsys \in Nat

VARIABLES scen,   \* the scenario, fixed at the start
          h,      \* the client that runs
          link    \* the scan in progress

vars == <<tvars, scen, h, link>>

R(a) == [op |-> RD, addr |-> a, data |-> 0]
W(a, d) == [op |-> WR, addr |-> a, data |-> d]
Poll == [op |-> NOP, addr |-> "WB_ADDR", data |-> 0]

----------------------------------------------------------------------------
\* The commands: the DMI operations of a command c, as far as they are known
\* from the results got so far.

log_size(waddr) == CHOOSE l \in {2 ^ k : k \in 0 .. 8} :
                     /\ waddr \div 2 < l
                     /\ \A k \in 0 .. 8 : waddr \div 2 < 2 ^ k => l <= 2 ^ k

\* waddr with the bit of value lsize cleared: the marker above the pointer.
ClearBit(waddr, lsize) == IF Bit(waddr, lsize) THEN waddr - lsize ELSE waddr

Times(n, s) == [i \in 1 .. n * Len(s) |-> s[((i - 1) % Len(s)) + 1]]

core_status == <<R("STAT"), R("NIA"), R("MSR")>>

CtrlCommand(bit) == <<W("CTRL", bit)>>

icache_reset == <<W("CTRL", ICRESET)>>

core_step(got) == <<R("STAT")>> \o (IF got # <<>> /\ Bit(got[1], 2)
                                    THEN <<W("CTRL", STEP)>> ELSE <<>>)

\* Counts are unsigned; 2^16 stands for 2^64.
ULONG == 2 ^ 16

gpr_read(reg, count) ==
  LET n == IF reg + count > 96 THEN (96 - reg) % ULONG ELSE count
  IN [i \in 1 .. 2 * n |-> IF i % 2 = 1 THEN W("GSPR_INDEX", reg + (i - 1) \div 2)
                           ELSE R("GSPR_DATA")]

\* variant: the auto-increment is left off.
SetAddrNoInc(a) == <<W("WB_CTRL", 255), W("WB_ADDR", a)>>

\* The start of every memory command: all byte lanes, auto-increment by 8.
SetAddr(a) == <<W("WB_CTRL", 2047), W("WB_ADDR", a)>>

mem_read(a, count) == SetAddr(a) \o Times(count, <<R("WB_DATA")>>)

mem_write(a, d) == SetAddr(a) \o <<W("WB_DATA", d)>>

load(file, a) == SetAddr(a) \o [i \in 1 .. Len(file) |-> W("WB_DATA", file[i])]

\* Rounds up to doublewords, and reads one for a size of zero.
save(a, size) == SetAddr(a) \o Times(IF size = 0 THEN 1 ELSE (size + 7) \div 8, <<R("WB_DATA")>>)

log_start == <<W("LOG_ADDR", 0)>>

log_stop == <<W("LOG_ADDR", LOG_STOP), R("LOG_ADDR")>>

\* The write pointer is the one read before the log is stopped.
log_dump(got) ==
  <<R("LOG_ADDR")>> \o
  (IF got = <<>> THEN <<>>
   ELSE LET waddr == got[1] \div LowWord
            lsize == log_size(waddr)
        IN (IF Bit(got[1], LOG_STOP) THEN <<>> ELSE <<W("LOG_ADDR", LOG_STOP)>>)
           \o <<W("LOG_ADDR", LOG_STOP + LOG_WORDS * ClearBit(waddr, lsize))>>
           \o Times(LOG_WORDS * lsize, <<R("LOG_DATA")>>)
           \o <<W("LOG_ADDR", got[1])>>)

trig_set(t, a) == <<W(t, (a - 2 * Num(Bit(a, 2))) + 1 - (a % 2))>>

Ops(c, got) ==
  CASE c.cmd = "status" -> core_status
    [] c.cmd = "stop" -> CtrlCommand(STOP)
    [] c.cmd = "start" -> CtrlCommand(START)
    [] c.cmd = "creset" -> CtrlCommand(RESET)
    [] c.cmd = "icreset" -> icache_reset
    [] c.cmd = "step" -> core_step(got)
    [] c.cmd = "gpr" -> gpr_read(c.reg, c.count)
    [] c.cmd = "mr" -> mem_read(c.addr, c.count)
    [] c.cmd = "mw" -> mem_write(c.addr, c.data)
    [] c.cmd = "load" -> load(c.file, c.addr)
    [] c.cmd = "save" -> save(c.addr, c.size)
    [] c.cmd = "lstart" -> log_start
    [] c.cmd = "lstop" -> log_stop
    [] c.cmd = "ldump" -> log_dump(got)
    [] c.cmd = "trig" -> <<R(c.trig)>>
    [] c.cmd = "trig_off" -> <<W(c.trig, 0)>>
    [] c.cmd = "trig_set" -> trig_set(c.trig, c.addr)
    [] c.cmd = "dmiread" -> <<R(c.reg)>>
    [] c.cmd = "dmiwrite" -> <<W(c.reg, c.data)>>
    [] c.cmd = "quit" -> <<W("EXIT", 0)>>

\* main: the commands of the command line, then the status.
argv == Append(scen.clients[h.client], [cmd |-> "status"])
cmd == argv[h.cmd]
ops == Ops(cmd, h.got)
CommandDone == h.st = "run" /\ h.cmd <= Len(argv) /\ Len(h.got) = Len(ops)

\* What a failing scan does: check() exits, mem_read gives up, and the raw
\* accesses and quit do not look.
ExitsOnError == cmd.cmd \notin {"mr", "dmiread", "dmiwrite", "quit"}

----------------------------------------------------------------------------
\* Starting and ending a client.

\* The calls that can fail, in order.
sim_init == <<"socket", "gethostbyname", "connect">>
common_jtag_init == <<"chain_alloc", "usb_probe", "chain_connect">>
bscane2_init == common_jtag_init \o <<"manual_add", "parts", "active_part", "IDCODE_REG", "IDCODE", "USER2_REG", "USER2">>
ecp5_init == common_jtag_init \o <<"manual_add", "parts", "active_part", "IDCODE_REG", "IDCODE", "USER2_REG", "USER2">>
InitCalls == CASE scen.backend = "sim" -> sim_init
               [] scen.backend = "bscane2" -> bscane2_init
               [] scen.backend = "ecp5" -> ecp5_init
Jtag == scen.backend # "sim"

\* Nothing of an abandoned request is left in the system clock domain.
Quiet == /\ ~dtm.req0 /\ ~dtm.req1 /\ wbm.state = "IDLE"
         /\ ~core.gpr_req /\ ~core.done /\ ~core.ack

Start ==
  /\ h.st = "off" /\ h.client < Len(scen.clients)
  /\ h' = [h EXCEPT !.st = "init", !.client = @ + 1, !.cmd = 1, !.got = <<>>, !.ph = "req", !.init = 1,
                !.refused = FALSE]
  /\ UNCHANGED <<tvars, scen, link>>

\* Connecting the cable resets the TAP, and with it the bridge.
TapReset == dtm' = [dtm EXCEPT !.shiftr = [op |-> NOP, data |-> 0], !.jtag_req = FALSE,
                               !.request = [op |-> NOP, addr |-> "WB_ADDR", data |-> 0],
                               !.ack_0 = FALSE, !.ack_1 = FALSE, !.sel = FALSE]

InitCall ==
  /\ h.st = "init" /\ h.init <= Len(InitCalls)
  /\ h' = [h EXCEPT !.init = @ + 1,
                    !.abandoned = @ /\ InitCalls[h.init] # "chain_connect"]
  /\ IF InitCalls[h.init] = "chain_connect"
     THEN TapReset /\ UNCHANGED <<wbm, bus, mem, dbg, log, core, effects>>
     ELSE UNCHANGED tvars
  /\ InitCalls[h.init] = "connect" => link.alive
  /\ UNCHANGED <<scen, link>>

InitFails ==
  /\ h.st = "init" /\ h.init <= Len(InitCalls)
  /\ scen.fails \/ (InitCalls[h.init] = "connect" /\ ~link.alive)
  /\ h' = [h EXCEPT !.st = "off"]
  /\ UNCHANGED <<tvars, scen, link>>

\* USER2 is selected last.  The instruction and data scans of the
\* initialisation give an abandoned request the time to end.
InitDone ==
  /\ h.st = "init" /\ h.init > Len(InitCalls)
  /\ Jtag => Quiet
  /\ h' = [h EXCEPT !.st = "run"]
  /\ dtm' = [dtm EXCEPT !.sel = TRUE]
  /\ UNCHANGED <<wbm, bus, mem, dbg, log, core, effects, scen, link>>

\* main: on to the next word of the command line; exit after the status.
NextCommand ==
  /\ CommandDone
  /\ h' = IF h.cmd = Len(argv) THEN [h EXCEPT !.st = "off"]
          ELSE [h EXCEPT !.cmd = @ + 1, !.got = <<>>]
  /\ UNCHANGED <<tvars, scen, link>>

\* The client is killed.  A scan of the UrJTAG backend stops half way; the
\* simulator goes on with the message it has.
Kill ==
  /\ scen.kill /\ h.st # "off" /\ h.client < Len(scen.clients)
  /\ h' = [h EXCEPT !.st = "off", !.abandoned = TRUE]
  /\ link' = IF Jtag \/ link.st = "done" THEN [link EXCEPT !.st = "none"]
             ELSE [link EXCEPT !.orphan = link.st # "none"]
  /\ UNCHANGED <<tvars, scen>>

----------------------------------------------------------------------------
\* One scan: backend->command.

msg == IF h.ph = "req" THEN ops[Len(h.got) + 1] ELSE Poll

Issue ==
  /\ h.st = "run" /\ ~CommandDone /\ link.st = "none" /\ link.alive
  /\ link' = [link EXCEPT !.st = "sent", !.msg = msg, !.n = 0]
  /\ UNCHANGED <<tvars, scen, h>>

Capture ==
  /\ link.st = "sent" /\ link.alive
  /\ TckEdge("capture", link.msg)
  /\ link' = [link EXCEPT !.st = "shift", !.resp = dtm'.shiftr]
  /\ UNCHANGED <<scen, h>>

Shift ==
  /\ link.st = "shift" /\ link.alive
  /\ TckEdge("shift", link.msg)
  /\ UNCHANGED <<scen, h, link>>

\* The register is as long as 74 clocks of tck: MinSys system clocks at least.
Update ==
  /\ link.st = "shift" /\ link.n >= scen.minsys /\ link.alive
  /\ TckEdge("update", link.msg)
  /\ link' = [link EXCEPT !.st = IF link.orphan THEN "none" ELSE "done", !.orphan = FALSE]
  /\ h' = [h EXCEPT !.refused = @ \/ (link.msg.op # NOP /\ jtag_bsy /\ ~link.orphan)]
  /\ UNCHANGED scen

\* Clocks after a scan.
Dummy ==
  /\ link.st \in {"none", "done"} /\ dtm.sel /\ link.alive
  /\ TckEdge("idle", Poll)
  /\ UNCHANGED <<scen, h, link>>

\* variant: a busy answer starts the operation again.
Restart(rc, data) ==
  IF h.ph = "req" THEN [h EXCEPT !.ph = "poll"]
  ELSE IF rc # 0 THEN [h EXCEPT !.ph = "req"]
  ELSE [h EXCEPT !.ph = "req",
                 !.got = Append(@, IF ops[Len(@) + 1].op = RD THEN data ELSE 0)]

\* dmi_read, dmi_write: the code of the request scan is not looked at, polling
\* goes on until it is zero.
dmi_rw(rc, data) ==
  IF h.ph = "req" THEN [h EXCEPT !.ph = "poll"]
  ELSE IF rc # 0 THEN h
  ELSE [h EXCEPT !.ph = "req",
                 !.got = Append(@, IF ops[Len(@) + 1].op = RD THEN data ELSE 0)]

Receive ==
  /\ h.st = "run" /\ link.st = "done"
  /\ h' = dmi_rw(link.resp.op, link.resp.data)
  /\ link' = [link EXCEPT !.st = "none"]
  /\ UNCHANGED <<tvars, scen>>

\* The simulator has gone: the answer read is what was sent.
DeadAnswer ==
  /\ h.st = "run" /\ ~CommandDone /\ ~link.alive /\ link.st # "done"
  /\ h' = dmi_rw(msg.op, msg.data)
  /\ link' = [link EXCEPT !.st = "none"]
  /\ UNCHANGED <<tvars, scen>>

\* The scan fails: a UrJTAG call, or the write to a socket that is closed.
ScanFails ==
  /\ h.st = "run" /\ ~CommandDone
  /\ IF Jtag THEN scen.fails /\ link.st = "sent" ELSE ~link.alive /\ link.st # "done"
  /\ link' = [link EXCEPT !.st = "none"]
  /\ h' = IF ExitsOnError THEN [h EXCEPT !.st = "off", !.abandoned = TRUE]
          ELSE [h EXCEPT !.cmd = @ + 1, !.got = <<>>, !.ph = "req", !.abandoned = TRUE]
  /\ UNCHANGED <<tvars, scen>>

\* The simulator stops itself when register 0xff is written.
Exit == scen.backend = "sim" /\ req /\ wr /\ addr = "EXIT"

\* A clock of the system.
Clock ==
  /\ link.alive
  /\ \E ack, stall, terminate, stops, free \in BOOLEAN, hit \in SUBSET scen.hits :
       /\ terminate => scen.terminates
       \* inputs that nothing looks at are left at one value
       /\ stall => wbm.stb
       /\ stops => core_stop
       /\ free => core.gpr_req
       /\ SysEdge(ack, stall, hit, terminate, stops, free)
  /\ link' = [link EXCEPT !.n = IF link.st = "shift" /\ @ < scen.minsys THEN @ + 1 ELSE @,
                          !.alive = ~Exit]
  /\ UNCHANGED <<scen, h>>

Init ==
  /\ scen \in Scenarios
  /\ TargetInit(scen.logging)
  /\ h = [st |-> "off", client |-> 0, cmd |-> 1, got |-> <<>>, ph |-> "req", init |-> 1,
          refused |-> FALSE, abandoned |-> FALSE]
  /\ link = [st |-> "none", msg |-> Poll, resp |-> [op |-> NOP, data |-> 0], n |-> 0,
             orphan |-> FALSE, alive |-> TRUE]

Next == \/ Start \/ InitCall \/ InitFails \/ InitDone \/ NextCommand \/ Kill
        \/ Issue \/ Capture \/ Shift \/ Update \/ Dummy \/ Receive \/ DeadAnswer \/ ScanFails
        \/ Clock

----------------------------------------------------------------------------
\* Fairness: both clocks run, a scan and the client go on, the bus answers and
\* does not stall for ever, the register file has a free cycle.
Fairness ==
  /\ WF_vars(Start) /\ WF_vars(InitCall \/ InitFails) /\ WF_vars(InitDone) /\ WF_vars(NextCommand)
  /\ WF_vars(Issue) /\ WF_vars(Capture) /\ WF_vars(Update) /\ WF_vars(Receive) /\ WF_vars(DeadAnswer)
  /\ WF_vars(Clock /\ (bus = "taken" => bus' = "none") /\ (wbm.stb => ~wbm'.stb)
                   /\ (core.gpr_req => core'.done))

Spec == Init /\ [][Next]_vars /\ Fairness

----------------------------------------------------------------------------
\* The types, and that the host never has more results than its command has
\* operations; the log address stays below the width of its register, so that
\* counting up in log_buffer never clears the stop bit.
TypeOK ==
  /\ dtm.request.op \in {NOP, RD, WR} /\ dtm.shiftr.op \in {NOP, BSY}
  /\ wbm.state \in {"IDLE", "WB_CYCLE", "DMI_WAIT"} /\ wbm.addr \in 0 .. 8 * MEM_WORDS - 1
  /\ dbg.log_addr \in 0 .. LowWord - 1 /\ log.wr_ptr \in 0 .. LOG_LENGTH - 1
  /\ h.st \in {"off", "init", "run"} /\ link.st \in {"none", "sent", "shift", "done"}
  /\ h.st = "run" => h.cmd <= Len(argv) /\ Len(h.got) <= Len(ops)

Word(a, i) == mem[((a \div 8) + i - 1) % MEM_WORDS]

\* When a command of mw_debug ends, and none of the client's requests was
\* refused as busy, it has done what it says: what mr and save print or store
\* is what memory holds, what mw and load were given is in memory, gpr prints
\* the registers asked for, stop has set the stop latch.  Also for a client
\* that comes after one that was killed in the middle of an operation.
CommandsDoWhatTheySay ==
  CommandDone /\ ~h.refused /\ link.alive =>
    CASE cmd.cmd = "mr" -> \A i \in 1 .. cmd.count : h.got[i + 2] = Word(cmd.addr, i)
      [] cmd.cmd = "save" -> \A i \in 1 .. (cmd.size + 7) \div 8 : h.got[i + 2] = Word(cmd.addr, i)
      [] cmd.cmd = "mw" -> Word(cmd.addr, 1) = cmd.data
      [] cmd.cmd = "load" -> \A i \in 1 .. Len(cmd.file) : Word(cmd.addr, i) = cmd.file[i]
      [] cmd.cmd = "gpr" -> \A i \in 1 .. Len(h.got) \div 2 : h.got[2 * i] = cmd.reg + i - 1
      [] cmd.cmd = "stop" -> dbg.stopping
      [] OTHER -> TRUE

HasEffect(o) == \/ o.op \in {RD, WR} /\ o.addr = "WB_DATA"
                \/ /\ o.op = WR /\ o.addr = "CTRL"
                   /\ \E b \in {STOP, RESET, ICRESET, STEP, START} : Bit(o.data, b)

\* A request that starts a bus cycle or acts on the core does so once, however
\* long the request line stays up in the other clock domain, and it has done
\* so by the time dmi_read or dmi_write returns.
OneEffect ==
  /\ effects <= 1
  /\ h.st = "run" /\ h.got # <<>> /\ h.ph = "req" /\ link.st = "none" /\ ~h.refused /\ link.alive
       => (HasEffect(ops[Len(h.got)]) => effects = 1)

\* The bridge refuses a request (its answer to the request scan, which mw_debug
\* does not look at) only when an earlier operation was abandoned half way: its
\* client was killed, or a scan failed.  Polling until the code is zero is
\* enough for every other request to be accepted.
RefusedOnlyAfterAbandon == h.refused => h.abandoned

\* A dump of a log that was stopped before ldump is the buffer from its oldest
\* entry to its newest, every doubleword in its place: log_dump's arithmetic on
\* the write pointer and the target's read-ahead agree.
DumpInOrder ==
  CommandDone /\ cmd.cmd = "ldump" /\ Bit(h.got[1], LOG_STOP) =>
    \A i \in 0 .. LOG_WORDS * LOG_LENGTH - 1 :
       h.got[i + 3] = LOG_WORDS * log.array[(log.wr_ptr + (i \div LOG_WORDS)) % LOG_LENGTH]
                      + (i % LOG_WORDS)

\* A request is raised only after the last one has gone from both stages of
\* the synchroniser and its acknowledge has gone down, as the header of
\* dmi_dtm_xilinx.vhdl asks.
RequestsApart == dtm'.jtag_req /\ ~dtm.jtag_req => ~dtm.req0 /\ ~dtm.req1 /\ ~dmi_ack

DataRegs == {"WB_DATA", "GSPR_DATA", "LOG_DATA"}

\* While a read of a data register is acknowledged and requested, and not
\* withdrawn by a reset of the TAP, the data does not change, so that the
\* bridge, which takes it without a synchroniser in another clock domain,
\* takes a whole word.
DinStable == req /\ req' /\ addr' = addr /\ dmi_ack /\ ~wr /\ addr \in DataRegs
               => dmi_din' = dmi_din

\* Every command line does what it says, the dump of a stopped log included.
CommandsTrue == CommandsDoWhatTheySay /\ DumpInOrder

\* A request that is not refused acts exactly once, and one is refused only
\* when an earlier one was abandoned half way.
ExactlyOnce == OneEffect /\ RefusedOnlyAfterAbandon

\* Requests and data cross between the JTAG clock and the system clock whole:
\* a request starts only when the last one is gone, data stand still while
\* they are taken.
CrossingSafe == [][RequestsApart /\ DinStable]_vars

\* Every client ends: no polling loop of dmi_read or dmi_write runs for ever,
\* also when an earlier client left an operation behind, a call fails, or the
\* simulator exits under it.
ClientEnds == h.st # "off" ~> h.st = "off"
=============================================================================
