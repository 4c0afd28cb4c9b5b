--------------------------------- MODULE Boot ---------------------------------
(***************************************************************************)
(* The boot loader of a SoC with DRAM, litedram/gen-src/sdram_init/main.c: *)
(* it identifies the SPI flash, puts it in quad mode, sets the DRAM up,    *)
(* and starts a program from block RAM, from an ELF image in flash, or     *)
(* from the payload behind the loader.                                     *)
(*                                                                         *)
(* One step is one access to the SPI controller, or one stage of main.     *)
(* The flash is external; a reset of the SoC or of the core may come       *)
(* between any two steps.                                                  *)
(***************************************************************************)
EXTENDS Integers, Sequences, FiniteSets

CONSTANTS Boards,      \* records: what is on the board and in the flash
          MaxResets    \* resets in a behaviour

ASSUME BootAssumption == MaxResets \in Nat

VARIABLES board,   \* the board, fixed
          fw,      \* the loader: stage, accesses to make, bytes read, the ELF loop
          spi,     \* the controller: manual chip select, automatic read mode
          flash,   \* the flash: registers, and the command it is receiving
          ram      \* DRAM set up, what is loaded, alt_reset, resets so far
bvars == <<board, fw, spi, flash, ram>>

Has(v, b) == (v \div b) % 2 = 1
With(v, b) == IF Has(v, b) THEN v ELSE v + b

----------------------------------------------------------------------------
\* Commands of the flash.
RDID == 159
RDCR == 53
WREN == 6
RDSR == 5
WWR == 1

WIP == 1       \* status register: write in progress
ISSI_QE == 64  \* status register: quad enable, ISSI
SPAN_QE == 2   \* configuration register: quad enable, Spansion

\* The automatic mode of the controller: read command, wires, address bytes.
SingleRead == [cmd |-> "READ", quad |-> FALSE, addr4 |-> FALSE]
QuadRead == [cmd |-> "QUAD_FREAD", quad |-> TRUE, addr4 |-> FALSE]
QuadRead4 == [cmd |-> "QUAD_FREAD_4BA", quad |-> TRUE, addr4 |-> TRUE]

----------------------------------------------------------------------------
\* The flash (external).  While a status write is in progress it answers only
\* RDSR; bytes nobody drives read as 255.

Family == CASE board.id[1] = 1 -> "spansion"
            [] board.id[1] = 32 -> "micron"
            [] board.id[1] = 157 -> "issi"
            [] OTHER -> "other"

Answer(f) ==
  LET n == Len(f.got) + f.reads
  IN CASE f.got = <<>> \/ board.id = <<255, 255, 255>> -> 255
       [] f.got[1] = RDSR -> f.sr + (IF f.wip THEN WIP ELSE 0)
       [] f.got[1] = RDID /\ ~f.wip -> IF n \in 1 .. 3 THEN board.id[n] ELSE 255
       [] f.got[1] = RDCR /\ ~f.wip -> f.cr
       [] OTHER -> 255

\* The chip select rises: a command of whole bytes is carried out.
Deselect(f) ==
  LET done == [f EXCEPT !.got = <<>>, !.reads = 0]
  IN CASE f.got = <<>> \/ f.wip -> done
       [] f.got[1] = WREN -> [done EXCEPT !.wel = TRUE]
       [] f.got[1] = WWR /\ f.wel /\ Len(f.got) \in {2, 3} ->
            [done EXCEPT !.wel = FALSE, !.wip = TRUE, !.new = Tail(f.got)]
       [] OTHER -> done

\* The write in progress ends; the two low status bits are not writable.
FlashDone ==
  /\ flash.wip
  /\ flash' = [flash EXCEPT !.wip = FALSE, !.sr = 4 * (flash.new[1] \div 4), !.new = <<>>,
                            !.cr = IF Len(flash.new) = 2 THEN flash.new[2] ELSE @]
  /\ UNCHANGED <<board, fw, spi, ram>>

QuadEnabled == CASE Family = "spansion" -> Has(flash.cr, SPAN_QE)
                 [] Family = "issi" -> Has(flash.sr, ISSI_QE)
                 [] Family = "micron" -> TRUE
                 [] OTHER -> FALSE

\* A read through the memory map returns what the flash holds.
MapReads == /\ ~flash.wip /\ board.id # <<255, 255, 255>> /\ ~spi.cs
            /\ \/ spi.auto = SingleRead
               \/ spi.auto = QuadRead /\ QuadEnabled
               \/ spi.auto = QuadRead4 /\ QuadEnabled /\ Family = "issi"

----------------------------------------------------------------------------
\* The accesses to the controller that the loader's routines make.

CsOn == [op |-> "cs", v |-> 1]
CsOff == [op |-> "cs", v |-> 0]
Put(b) == [op |-> "wr", v |-> b]
Get == [op |-> "rd", v |-> 0]

ReadStatus == <<CsOn, Put(RDSR), Get, CsOff>>
send_wren == <<CsOn, Put(WREN), CsOff>>
ReadId == <<CsOn, Put(RDID), Get, Get, Get, CsOff>>

\* The first RDCR goes to a controller that is not in manual mode.
ReadCf1 == <<Put(RDCR), CsOn, Put(RDCR), Get, CsOff>>

\* variant: the other bits of the configuration register are cleared.
EnableOnly(cf1) == send_wren \o <<CsOn, Put(WWR), Put(0), Put(SPAN_QE), CsOff, CsOff>>

EnableSpansion(cf1) == send_wren \o <<CsOn, Put(WWR), Put(0), Put(With(cf1, SPAN_QE)), CsOff, CsOff>>

EnableIssi(sr) == send_wren \o <<CsOn, Put(WWR), Put(With(sr, ISSI_QE)), CsOff>>

\* One access.  The data register does nothing outside manual mode.
Access1 ==
  LET a == Head(fw.ops)
  IN /\ fw.ops # <<>>
     /\ CASE a.op = "cs" -> /\ spi' = [spi EXCEPT !.cs = a.v = 1]
                            /\ flash' = IF spi.cs /\ a.v = 0 THEN Deselect(flash) ELSE flash
          [] a.op = "wr" /\ spi.cs -> flash' = [flash EXCEPT !.got = Append(@, a.v)] /\ UNCHANGED spi
          [] a.op = "rd" /\ spi.cs -> flash' = [flash EXCEPT !.reads = @ + 1] /\ UNCHANGED spi
          [] OTHER -> UNCHANGED <<spi, flash>>
     /\ fw' = [fw EXCEPT !.ops = Tail(@), !.buf = IF a.op = "rd" THEN Append(@, Answer(flash)) ELSE @]
     /\ UNCHANGED <<board, ram>>

\* From a stage whose accesses are made to the next one.
At(pc) == fw.pc = pc /\ fw.ops = <<>>
Go(pc, ops) == fw' = [fw EXCEPT !.pc = pc, !.ops = ops, !.buf = <<>>]

----------------------------------------------------------------------------
\* check_flash

NoFlash(id) == id \in {<<0, 0, 0>>, <<255, 255, 255>>}
Spansion(id) == id[1] = 1 /\ id[2] \in {2, 32, 96} /\ id[3] \in {24, 25}
Micron(id) == id = <<32, 186, 24>>
Issi(id) == id[1] = 157 /\ id[2] \in {96, 112} /\ id[3] = 25

start ==
  /\ At("start")
  /\ IF board.has_flash THEN Go("id", ReadId) ELSE Go("sdram", <<>>)
  /\ UNCHANGED <<board, spi, flash, ram>>

check_flash ==
  /\ At("id")
  /\ fw' = [fw EXCEPT !.buf = <<>>, !.try_flash = TRUE,
                      !.pc = CASE NoFlash(fw.buf) -> "sdram"
                               [] Spansion(fw.buf) -> "cf1"
                               [] Micron(fw.buf) -> "quad"
                               [] Issi(fw.buf) -> "sr"
                               [] OTHER -> "sdram",
                      !.ops = CASE Spansion(fw.buf) -> ReadCf1
                                [] Issi(fw.buf) -> ReadStatus
                                [] OTHER -> <<>>,
                      !.quad = Spansion(fw.buf) \/ Micron(fw.buf) \/ Issi(fw.buf),
                      !.autocfg = IF Issi(fw.buf) THEN QuadRead4 ELSE QuadRead]
  /\ UNCHANGED <<board, spi, flash, ram>>

check_spansion_quad_mode ==
  /\ At("cf1")
  /\ IF Has(fw.buf[1], SPAN_QE) THEN Go("quad", <<>>) ELSE Go("enable", EnableSpansion(fw.buf[1]))
  /\ UNCHANGED <<board, spi, flash, ram>>

check_enable_issi_quad ==
  /\ At("sr")
  /\ IF Has(fw.buf[1], ISSI_QE) THEN Go("quad", <<>>) ELSE Go("enable", EnableIssi(fw.buf[1]))
  /\ UNCHANGED <<board, spi, flash, ram>>

EnableSent ==
  /\ At("enable")
  /\ Go("wip", ReadStatus)
  /\ UNCHANGED <<board, spi, flash, ram>>

\* variant: the whole status is waited for.
WaitAllClear ==
  /\ At("wip")
  /\ IF fw.buf[1] # 0 THEN Go("wip", ReadStatus) ELSE Go("quad", <<>>)
  /\ UNCHANGED <<board, spi, flash, ram>>

wait_wip ==
  /\ At("wip")
  /\ IF Has(fw.buf[1], WIP) THEN Go("wip", ReadStatus) ELSE Go("quad", <<>>)
  /\ UNCHANGED <<board, spi, flash, ram>>

\* The new read mode is written to the controller; the clock divider is kept.
SetAutoCfg ==
  /\ At("quad")
  /\ spi' = [spi EXCEPT !.auto = fw.autocfg]
  /\ Go("sdram", <<>>)
  /\ UNCHANGED <<board, flash, ram>>

----------------------------------------------------------------------------
\* main

sdram_init ==
  /\ At("sdram")
  /\ ram' = [ram EXCEPT !.init_done = TRUE]
  /\ Go("alt", <<>>)
  /\ UNCHANGED <<board, spi, flash>>

ClearAltReset ==
  /\ At("alt")
  /\ ram' = [ram EXCEPT !.alt_reset = FALSE]
  /\ Go(IF board.has_bram THEN "bram" ELSE IF fw.try_flash THEN "ehdr" ELSE "payload", <<>>)
  /\ UNCHANGED <<board, spi, flash>>

boot_bram ==
  /\ At("bram")
  /\ Go("program", <<>>)
  /\ UNCHANGED <<board, spi, flash, ram>>

\* boot_flash: the header.  What is not read from the flash is 255s, which are
\* no ELF header.
boot_flash ==
  /\ At("ehdr")
  /\ LET elf == MapReads /\ board.image.ident = "elf64le"
     IN fw' = [fw EXCEPT !.pc = IF elf THEN "phdr" ELSE "payload", !.i = 0, !.poff = 0]
  /\ UNCHANGED <<board, spi, flash, ram>>

\* variant: the loop stops one header early.
StopsEarly == fw.i + 1 < Len(board.image.phdrs)

PhdrsLeft == fw.i < Len(board.image.phdrs)

\* boot_flash: program header i.  One that is not PT_LOAD is passed over
\* without moving on in the table.
LoadSegment ==
  /\ At("phdr") /\ PhdrsLeft
  /\ LET ph == board.image.phdrs[fw.poff + 1]
     IN /\ ram' = [ram EXCEPT !.loaded = IF ph.load THEN @ \cup {ph.seg} ELSE @]
        /\ fw' = [fw EXCEPT !.i = @ + 1, !.poff = IF ph.load THEN @ + 1 ELSE @]
  /\ UNCHANGED <<board, spi, flash>>

boot_elf ==
  /\ At("phdr") /\ ~PhdrsLeft
  /\ fw' = [fw EXCEPT !.pc = "program", !.elf = TRUE]
  /\ UNCHANGED <<board, spi, flash, ram>>

boot_sdram ==
  /\ At("payload")
  /\ ram' = [ram EXCEPT !.loaded = @ \cup {"payload"}]
  /\ Go("program", <<>>)
  /\ UNCHANGED <<board, spi, flash>>

----------------------------------------------------------------------------
FwStart == [pc |-> "start", ops |-> <<>>, buf |-> <<>>, try_flash |-> FALSE, quad |-> FALSE,
            autocfg |-> QuadRead, i |-> 0, poff |-> 0, elf |-> FALSE]
SpiReset == [cs |-> FALSE, auto |-> IF board.def_quad THEN QuadRead ELSE SingleRead]

\* A reset of the SoC: the controller lets go of the flash, in the middle of a
\* byte or after a whole one.  The flash and the DRAM are not reset.
SocReset ==
  /\ ram.resets < MaxResets
  /\ fw' = FwStart /\ spi' = SpiReset
  /\ \E whole \in BOOLEAN :
       flash' = IF whole THEN Deselect(flash) ELSE [flash EXCEPT !.got = <<>>, !.reads = 0]
  /\ ram' = [ram EXCEPT !.resets = @ + 1, !.alt_reset = TRUE, !.loaded = {}]
  /\ UNCHANGED board

\* A reset of the core alone, by the debugger or syscon: the loader runs again
\* while alt_reset is set, and the core starts at address 0 once it is not.
CoreReset ==
  /\ ram.resets < MaxResets
  /\ fw' = IF ram.alt_reset THEN FwStart ELSE [FwStart EXCEPT !.pc = "zero"]
  /\ ram' = [ram EXCEPT !.resets = @ + 1, !.cut = @ \/ spi.cs]
  /\ UNCHANGED <<board, spi, flash>>

BootStart(b, pc) ==
  /\ board = b
  /\ fw = [FwStart EXCEPT !.pc = pc] /\ spi = SpiReset
  /\ flash = [sr |-> b.sr, cr |-> b.cr, wel |-> FALSE, wip |-> FALSE, new |-> <<>>, got |-> <<>>, reads |-> 0]
  /\ ram = [init_done |-> FALSE, alt_reset |-> TRUE, loaded |-> {}, resets |-> 0, cut |-> FALSE]

BootInit == \E b \in Boards : BootStart(b, "start")

Loader == \/ Access1 \/ start \/ check_flash \/ check_spansion_quad_mode \/ check_enable_issi_quad
          \/ EnableSent \/ wait_wip \/ SetAutoCfg \/ sdram_init \/ ClearAltReset \/ boot_bram
          \/ boot_flash \/ LoadSegment \/ boot_elf \/ boot_sdram

BootNext == Loader \/ FlashDone \/ SocReset \/ CoreReset

----------------------------------------------------------------------------
\* The bytes are bytes, and a status write in progress has its one or two
\* bytes to write; between its commands the loader lets go of the flash.
BootTypeOK ==
  /\ fw.ops = <<>> /\ ~ram.cut => ~spi.cs
  /\ flash.sr \in 0 .. 255 /\ flash.cr \in 0 .. 255
  /\ flash.wip = (Len(flash.new) \in {1, 2})
  /\ \A n \in DOMAIN fw.buf : fw.buf[n] \in 0 .. 255

\* When boot_flash reads a flash that check_flash recognised in this boot, the
\* read mode of the controller is one the flash is in: quad reads are set up
\* only after the enable bit is written and the write has ended, also when an
\* earlier boot was cut short by a reset of the SoC or of the core.
FlashReadable ==
  fw.pc \in {"ehdr", "phdr"} /\ fw.quad => MapReads

\* The non-volatile settings of the flash other than quad enable survive every
\* boot and every reset of the SoC (the status register of a Spansion flash,
\* which enabling clears, excepted), as long as no reset of the core hits
\* while the loader holds the chip select.
SettingsKept ==
  ~ram.cut => /\ flash.cr \in {board.cr, With(board.cr, SPAN_QE)}
              /\ flash.sr \in {board.sr, With(board.sr, ISSI_QE)} \cup (IF Family = "spansion" THEN {0} ELSE {})

\* Nothing is copied to the DRAM before it is set up.
DramReady == ram.loaded # {} => ram.init_done

\* The header table begins with the segments to load, as linkers lay it out.
LoadsFirst == \A k \in 2 .. Len(board.image.phdrs) :
                board.image.phdrs[k].load => board.image.phdrs[k - 1].load

\* main returns into a program that is in memory: every segment of the ELF
\* image (of those whose headers come before the first other header), or the
\* payload, unless it returns into block RAM.
JumpsToLoaded ==
  fw.pc = "program" /\ ~board.has_bram =>
    IF fw.elf THEN LoadsFirst => \A k \in DOMAIN board.image.phdrs :
                     board.image.phdrs[k].load => board.image.phdrs[k].seg \in ram.loaded
    ELSE "payload" \in ram.loaded

\* The loader leaves the flash readable in the mode it has chosen and its
\* settings intact, across resets.
FlashSafe == FlashReadable /\ SettingsKept

\* The program the loader returns into is in memory, and memory was set up
\* before anything was copied there.
ProgramReady == JumpsToLoaded /\ DramReady

\* The loader hands over: wait_wip ends with the flash's write, and no reset
\* leaves a state in which it waits for ever.
MainReturns == (fw.pc = "start") ~> (fw.pc \in {"program", "zero"})
================================================================================
