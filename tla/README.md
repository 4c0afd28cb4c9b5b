# Microwatt in TLA+

A verification development for the Microwatt POWER core, its SoC and the C programs kept with
it. The modules are translated from the VHDL and C sources; TLC checks them on small instances,
TLAPS proves the most important safety facts about six of them for every value of the constants.
`PROJECT.json` lists components, runs, mutants, findings, hazards and theorems, and maps every
definition that models code to the lines it stands for.

A step is one rising clock edge in the hardware modules (one edge of either clock in `Dmi`), and
one access, call or line in the software modules. Registers are variables with the names of the
source; combinational signals are operators; inputs from outside are chosen with `\E`. Data are
reduced to what the properties tell apart: an operand to the instruction that produced it, a
memory word to one of three values, an address to a line and a row.

## The system and the modules

The core is a single-issue in-order pipeline. decode2 issues an instruction when control's
scoreboard of tags says its operands are there; execute1, loadstore1 and the FPU carry it out;
writeback takes one completion per clock, and raises interrupts that flush the rest. loadstore1
talks to the data cache and the MMU, the caches and the debug master share a Wishbone bus through
an arbiter. Around the core are the interrupt controller, the debug unit behind JTAG, the UARTs;
on the C side the boot loader, the console library, the debugger, the log formatter and the
functions a simulation calls.

| Module | Source | State and actions |
| --- | --- | --- |
| `SyncFifo`, `BoundedQueue` | sync_fifo.vhdl | indices, memory, last operation; one clock with any of push and pop. `BoundedQueue` is the abstract queue it implements. |
| `WishboneArbiter` | wishbone_arbiter.vhdl | selected master, the masters' cyc and strobes, a pipelined slave; one clock. |
| `Xics` | xics.vhdl | source unit and presenter with the four registers from an input to the core; register writes, accept, level changes. |
| `Control`, `Decode2` | control.vhdl, decode2.vhdl, output of decode1 | tags, scoreboard, the held instruction and its operands; one clock with any issue, completion, bypass, deferral, flush; reset. |
| `Loadstore1` | loadstore1.vhdl | three stages, hash unit, cache and MMU handshakes; one clock; reset. |
| `Execute1`, `Fpu`, `Pipeline`, `PipelineLive` | execute1.vhdl, fpu.vhdl, writeback.vhdl, cr_file.vhdl | `Pipeline` composes the control of the execution units, `Loadstore1` included, as core.vhdl wires them. |
| `Dcache` | dcache.vhdl | one set, one byte column: stage 0, hits, RAMs and forwarding, slow state machine, reservation, snooping; one clock; reset. |
| `Dmi`, `MwDebug` | dmi_dtm_xilinx.vhdl, wishbone_debug_master.vhdl, core_debug.vhdl, scripts/mw_debug | both clock domains of the bridge, the DMI slaves, and the debugger's commands with their polling; clients killed, calls failing, the simulator exiting. |
| `Boot` | sdram_init/main.c | one access to the flash controller or one stage of main; resets of SoC and core between any two. |
| `Libc` | sdram_init/libc | each function as an operator, checked against a reference definition. |
| `Console` | lib/console.c, sim_16550_uart.vhdl, sim_pp_uart.vhdl, sim_console_c.c | library, UART and terminal, clock by clock. |
| `VerilatorUart` | verilator/uart-verilator.c | decoder and driver of the serial line, clock by clock. |
| `SimCalls`, `LitedramPort` | sim_bram_helpers_c.c, sim_vhpi_c.c, sim_jtag_socket_c.c, sim_litedram_c.cpp | memory regions, vectors, messages, DRAM ports. |
| `FmtLog` | scripts/fmt_log, log vectors of the core | the recorded layout against the C struct. |

`MC*` modules give the constants their values. Where an `MC` module has a variable `mode`, a run
is the sum of several small instances: each initial state picks one, and only that one moves.
The instances of such a run do not interact.

## Runs that pass

* **soc**: the FIFO implements the queue (`IsBoundedQueue`); every acknowledge reaches the master
  that strobed and none is lost (`AcksRouted`); the first master is served
  (`TopPriorityServed`); four clocks after the last change the presented interrupt is the right
  one, and one that stays due is presented (`Presents`). Depth 3 is not a power of two, so both indices wrap unevenly; three
  masters select early and five do not; one CPU with two sources.
* **decode2**: no tag is reused in flight (`TagWindow`), operands are those of sequential
  execution (`OperandsFresh`), single-issue instructions are alone (`SglAlone`), decode2 is not
  blocked for good (`Unblocked`). Three tags and two registers are enough for two writers of one
  register and a reader between them.
* **loadstore1**: answers are expected and no two requests meet, as the assertions of
  loadstore1 and dcache ask (`Handshakes`); the oldest completes, once and after
  its answers (`OldestCompletes`), interrupts are precise, store data follow their request
  (`DataFollowsRequest`), everything finishes (`Finishes`).
* **pipeline**, **pipeline_fp**: completion in order, never two at once nor over a stall, and the
  FPU not overrun (`UnitsInStep`); precise interrupts; the forwarded carry (`CarryFresh`); what
  control relies on (`ControlContract`); FPSCR after a flush from elsewhere (`RollbackExact`); no mutual stall
  (`Drains`). Instructions come in three mixes, each of units that meet in writeback; a mix of all
  kinds at once is out of reach.
* **dcache**: a load returns the newest value (`LoadFresh`), cache and memory agree (`Coherent`),
  a line is in one way (`OneWay`), answers are in order, the bus is drained before it is released
  (`BusDrained`), stcx. succeeds only without a foreign write (`Atomic`). Two lines of two rows in
  two ways, two acknowledges outstanding.
* **debug**: commands do what they say, and a dump of a stopped log is in order (`CommandsTrue`);
  a request acts once, and is refused only after one was abandoned (`ExactlyOnce`); requests stay
  apart and data stable across the clocks (`CrossingSafe`); clients end (`ClientEnds`).
* **software**: the C sources, each on its own instance. Console characters in order
  (`ConsoleFaithful`, `GetcharReturns`), every byte once on the serial line (`LineFaithful`); the
  flash readable with its settings kept (`FlashSafe`), DRAM set up and the program loaded
  (`ProgramReady`), main returns (`MainReturns`); library functions against their definitions on
  some ten thousand calls with narrow integers, `CHAR_BITS` = 3 (`LibraryRight`); memory words,
  messages and ports carried whole (`CallsTrue`); log columns and addresses (`LogTrue`).

A property that is a conjunction of named parts (`AcksRouted`, `Presents`, `Handshakes`,
`UnitsInStep`, the first three of `debug`, and seven of `software`) has one mutant in `PROJECT.json`,
which breaks one of the parts; the list gives no mutant for the others. The type invariants,
`Decode2`'s apart, are written in their modules but are not among the runs' properties.

Deadlock is checked except in `debug`, `software` and `fmt_log`, whose programs end.

## Assumptions the code does not ensure

These passing runs hold because an input that the code allows is left out. What happens with it
is known, and is stated here so that the runs are not read for more than they show.

* `loadstore1` has `HashAlone = TRUE`: a hash instruction has no other access beside it. decode1
  does not arrange this (sgl_pipe is '0', decode1.vhdl 202-205). Without it TLC finds `Finishes`
  violated (`MCLoadstore1HashWait.cfg`), a comparison with another access's data
  (`MCLoadstore1HashCheck.cfg`, `HashOwnData`), and `PreciseInterrupt` violated.
* `loadstore1` has `hash_enable = TRUE`. The bit comes from DEXCR and may be 0; then
  `OldestCompletes` fails for plain loads and stores (`MCLoadstore1HashOff.cfg`).
* The `pipeline` runs have no hash instructions, and put bit sorts and FP instructions that trap
  beside no load (`pipeline_behind` shows what a load behind a trapping one does), and have
  three tags where the core has four. `MCPipelineSort.cfg` shows a flushed bit sort completing an instruction
  that is not its own (`CompletesTagged`); `MCPipelineOwnIntr.cfg` and `MCPipelineRollback.cfg`
  show FPSCR after the FPU's own interrupt and with FPRF written late.
* `dcache` has `MidTag = FALSE`: no reset while a tag write is pending. The reset branch leaves
  write_tag set; with `MidTag = TRUE` `Coherent` is violated. Its request mixes leave out the
  two that the violation runs below use.
* `debug`: ldump is given a stopped log; gpr reads registers 95 and 96, below where the count
  wraps.
* `software`: `SettingsKept` leaves out core resets while the loader holds the chip select (with
  them it is violated); `JumpsToLoaded` is about header tables whose loadable entries come first
  (the loop does not advance past another entry); `PrintFits` leaves out a padded `%c`; a socket
  message arrives in one piece.

The six configurations named above that are not runs are kept to reproduce these violations.

## Runs that show a disagreement

* **pipeline_behind** (`NoSpuriousCompletion`): the FPU drops its stall a cycle before it raises
  its interrupt, so a load behind it completes after the flush.
* **dcache_dcbz** (`Coherent`): rows that dcbz writes after its first acknowledge take the data of
  the next request.
* **dcache_link** (`Atomic`): a plain load waiting for its row sets a reservation again that a
  foreign write has cleared.
* **fmt_log** (`BypassTrue`): the bypass flags of operands a and c are exchanged.

The findings in `PROJECT.json` quote the lines that disagree.

## Fairness

Every formula says that something outside the module ends, or that the clock runs.

* `Completes` (Decode2): the oldest instruction in flight completes in the end. `Drains` and
  `Finishes` are the matching promises of the units, on their own instances.
* `Prompt` under weak fairness (Loadstore1), `Ticks` and `Ends` (PipelineLive): the clock runs;
  cache, MMU walk and FPU arithmetic end.
* `Clocked` and `MastersYield` (arbiter): no master owns the bus for ever. Nothing in dcache
  bounds a stream of stores to one page, so this is an assumption on programs.
* `MwDebug`: both clocks run, scans and client go on, the bus answers, the register file has a
  free cycle. `MCSoftware`: the program and the loader take their next step, a flash write ends.

## What is proved

`SyncFifoProofs`, for every `Depth >= 1`: type correctness, and that `SyncFifo` implements
`BoundedQueue`. The mapping reads the queue off the indices; type correctness is the only
invariant needed.

`Decode2Proofs`, for every number of tags that `TagAssumption` allows, any registers and
instructions, and either value of `EX1_BYPASS`: `TypeOK`, `TagWindow`, `OperandsFresh`,
`SglAlone`. None but the first is inductive alone. `IInv` adds: the scoreboard describes the
instructions in flight and marks the youngest writer of each register (`Scoreboard`, `IdleTags`);
the CR and OV tags name the youngest writers (`CrLast`, `OvLast`); operands captured while an
instruction waits have not been overwritten (`HeldOps`, `HeldInsn`); the previous tag is that of
the last instruction (`PrevLast`, `LastSgl`). The steps are issue, completion and flush on the
queue in flight, each with its lemmas, joined in `StepInv`. The units are seen only through
what `Decode2` assumes of them: they complete the oldest instruction (`Results`), never one that
is still in dc2 (`Retirable`), and defer when no tag is free (`Room`), which control itself does
not check. The proofs do not show that the units keep to this. `ControlContract` checks it on the
mixes of the `pipeline` run; `pipeline_behind` shows a mix in which they do not, and there the
theorems say nothing.

`WishboneArbiterProofs`, for any number of masters, with and without early selection, and any bound
on outstanding strobes: `AcksRouted`. It is not inductive: it does not say that the selection stays
with the owner of the strobes in the slave. `IInv` adds that all of them belong to the selected
master, which holds its cycle and waits for exactly them, and that no other master waits. Assumed
of the masters is what `WishboneArbiter` has them do: they hold cyc until every strobe is
acknowledged.

`XicsProofs`, for any number of CPUs and sources, `PRIO_BITS` from 1 to 6 and any register accesses:
`Presents`. The property speaks of the fourth clock; `XInv` says what each clock before it has
established in the latch, the source unit's choice, the presenter and the core's line, once for a
quiet controller and once for an input that stays due while everything else changes. The choice
itself is a minimum over the sources (`irq_gen`), whose lemmas come first.

`DcacheSteps` and `DcacheProofs`, for any lines, ways, rows and values, `MaxAcks` up to 7, and
under `Spec`, in which loadstore1 and the MMU may send any request at any time the cache accepts
one, other masters write anything, and stalls, acknowledges and resets come at will:
`AnswersInOrder`, `BusDrained` and, unless a reset meets a pending tag write (`~MidTag`), `OneWay`.
`DcacheSteps` says what each state of the slow machine does to the registers (`IdleIs`, `ReloadIs`,
`StoreIs`, ...) and that it keeps the parts of the invariant; `DcacheProofs` puts them together.
`IInv` ties three things that the code keeps apart: the requests asked and not answered are those
in stage 0 and in the slow request, less the answer on its way (`Queue`); state, cyc, stb and the
reload flag agree (`Control`); the accesses on the bus are exactly what the distance of the row
counters, or acks_pending corrected by the decrement that lags, accounts for (`BusOK`). `TagInv`
adds that the line a miss is about to fill is in no way, through the cycle in which its tag is
not yet written. `OneWay` is false when a reset comes in that cycle, hence the hypothesis.

`MwDebugProofs`, for any set of scenarios (back ends, command lines, kills, failures, clock ratios),
memory and log sizes: `ExactlyOnce`, and `CrossingSafe` in parts. `Wave` says that request,
synchronisers, slave, acknowledge and its synchronisers rise and fall one after the other, and where
the slave is at each stage; `Scanning` and `Asking` say what the client may conclude from the answers
it has: a poll answered with zero means that the bridge is idle and that the last request it carried
is the client's. `RequestsApart` follows without further assumption (`Apart`), and so does
`DinStable` for the registers other than LOG_DATA (`Whole`). LOG_DATA is read ahead: the end of one
read starts the next fetch, which must be over before the next request arrives. `LogInv` shows that
it is when at least two system clocks fit in a scan, no client is killed and no call fails, and
`Crossing` then has all of `CrossingSafe`. A scan is 74 clocks of tck, so the first condition fails
only on a system clock far below tck. (The run has scenarios without it, and with kills, that read no
log.) What is assumed of InitDone (`Quiet`): the many scans that
initialise the cable take long enough for what an earlier client left in the slaves to end.

Only model-checked, and why:

* All liveness (`TopPriorityServed`, `Unblocked`, `Finishes`, `Drains`, `ClientEnds`,
  `GetcharReturns`, `MainReturns`): outside the prover's reach.
* `Coherent`, `LoadFresh` and `Atomic`: the first and the last are false under `Spec` (the
  violation runs), and hold on the run's separate mixes of requests; `LoadFresh` needs `Coherent`.
* `CommandsTrue`: what a command prints is a function of the whole sequence of its operations, an
  induction over data; `LibraryRight` rests on `RECURSIVE` operators.
* The safety properties of `Loadstore1`, `Pipeline` and the other C programs: no inductive invariant is
  written for them yet.

## Not modelled

* fetch1, icache and branch prediction: the pipeline is fed with any instruction instead.
* The radix walk of mmu.vhdl, TLB arrays, PLRU order, quadword atomics: an outcome is any outcome.
* Results of arithmetic, FPU arithmetic, special registers, MSR, timers, doorbells, pmu.
* `stopped_out` of control; the decode tables; address decoding in soc.vhdl.
* SPI shift register, gpio, 16550 Verilog, the LiteDRAM wrapper with its L2 cache.
* DRAM training and board top levels (generated or not in the repository), option parsing, file
  handling, terminal modes and wording of output in the C programs; one-line string functions.

The hazards in `PROJECT.json` that no property covers each say why. That list is of the most
important ones. These are known too, and nothing here checks that they are harmless:

* An accept in xics takes the new CPPR from this cycle's choice and returns the XISR formed a cycle
  earlier (xics.vhdl 196). `Xics` has both registers; no source line says which one is meant.
* `stopped_out` does not count an instruction that decode2 still holds (control.vhdl 306); a
  doorbell that comes as the last one is cleared is dropped (execute1.vhdl 630). Not modelled.
* mw_debug reads the log's write pointer before it stops the log (720), and a register number from
  97 on wraps the count of its loop (568); when the simulator exits, the answer read is what was in
  the buffer (192, in the model as `DeadAnswer`).
* The loader clears ALT_RESET before the program is in DRAM, so a core reset between the two starts
  at address 0 (main.c 331; the step is in `Boot`). A flash that is not recognised is booted from
  too (323).
* The 16550 model decrements its poll counter only inside the branch the counter guards
  (sim_16550_uart.vhdl 245): a program that waits for an interrupt without reading LSR may not see
  a character. Only the polling library is modelled.
* console.c computes the divisor from the processor clock although it has read `uart_freq` (210);
  `DivisorKept` states what the code does.
* behavioural_read and _write compare the offset with `>` (sim_bram_helpers_c.c 126); the accesses
  modelled are aligned and do not begin at the size. fmt_log initialises fifteen of sixteen entries
  of `full_nia` (129); `AddressTrue` is about addresses the log has shown.
