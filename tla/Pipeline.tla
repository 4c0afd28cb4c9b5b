------------------------------- MODULE Pipeline -------------------------------
(* execute1, loadstore1, the FPU and writeback between decode2 and the       *)
(* register files: the composition that core.vhdl wires together.  Decode2   *)
(* is seen as the source of any instruction in any cycle in which control    *)
(* may issue one; modules Control and Decode2 say when it does.  One step is *)
(* one clock edge of all the units.                                          *)
EXTENDS Naturals, Sequences, FiniteSets

CONSTANTS TagCount,     \* TAG_COUNT (4)
          Kinds,        \* the sorts of instruction that are issued
          Irqs,         \* whether interrupts arrive: a subset of BOOLEAN
          MulCycles, SortCycles,
          Refetch,      \* cycles without an instruction in e_in after a flush (3)
          MaxWalk

LoadStore == {"load", "split", "lfs", "lfssplit", "store", "tlbie", "mmu", "spr", "align"}
Floating  == {"fp", "fptrap", "fpill"}

ASSUME TagAssumption == TagCount \in Nat \ {0}
ASSUME IrqAssumption == Irqs \subseteq BOOLEAN /\ FALSE \in Irqs
ASSUME RefetchAssumption == Refetch \in Nat
ASSUME CycleAssumption == MulCycles \in Nat \ {0} /\ SortCycles \in Nat \ {0}

VARIABLES r1, r2, r3, flushing, stage1_dreq, hash_r, dc, mmu, ops,
          fpu, fpscr, comm_fpscr, fp_done,
          e_in, ex1, ex2, wait_state, mult, sorter,
          inflight,     \* issued and not completed, oldest first: tag and k
          curr_tag, refetch,
          read_xerc,    \* cr_file: CA as written by writeback
          ca_done       \* ghost: CA as the instructions completed so far leave it

lsVars == <<r1, r2, r3, flushing, stage1_dreq, hash_r, dc, mmu, ops>>
fpVars == <<fpu, fpscr, comm_fpscr, fp_done>>
vars == <<lsVars, fpVars, e_in, ex1, ex2, wait_state, mult, sorter, inflight, curr_tag,
          refetch, read_xerc, ca_done>>

Tag == 0 .. TagCount - 1

LS == INSTANCE Loadstore1 WITH Kinds <- Kinds \cap LoadStore, hash_enable <- TRUE,
                               HashAlone <- TRUE, HashSteps <- 1
FP == INSTANCE Fpu
EX == INSTANCE Execute1

-----------------------------------------------------------------------------
(* writeback.vhdl: what completes, what interrupts, what is flushed. *)

Done == (IF ex2.valid THEN {<<"ex", ex2.tag>>} ELSE {})
        \cup (IF LS!complete THEN {<<"ls", [valid |-> TRUE, tag |-> r2.req.id]>>} ELSE {})
        \cup (IF fpu.complete THEN {<<"fp", [valid |-> TRUE, tag |-> fpu.complete_tag]>>} ELSE {})

complete_out ==
    IF ex2.valid THEN ex2.tag
    ELSE IF LS!complete THEN [valid |-> TRUE, tag |-> r2.req.id]
    ELSE IF fpu.complete THEN [valid |-> TRUE, tag |-> fpu.complete_tag]
    ELSE EX!NoTag

intr == ex2.interrupt \/ r3.interrupt \/ fpu.do_intr

flush_out == ex2.redirect \/ intr

(* The signals that execute1 sees. *)
Signals(irq, wake) ==
    [l_busy |-> LS!busy, l2stall |-> LS!stalled, f_busy |-> fpu.busy, f2stall |-> fpu.f2stall,
     flush |-> flush_out, intr |-> intr, irq |-> irq, wake |-> wake]

l_in(u) == IF EX!starts(u, LoadStore) THEN [valid |-> TRUE, id |-> e_in.tag.tag, k |-> e_in.k]
           ELSE LS!NoInsn

fp_in(u) == IF EX!starts(u, Floating) THEN [valid |-> TRUE, tag |-> e_in.tag.tag, k |-> e_in.k]
            ELSE FP!NoFp

-----------------------------------------------------------------------------
(* decode2 and control: an instruction is issued with the next tag unless    *)
(* execute1 defers the previous one; wait is issued alone.  What e_in holds  *)
(* between instructions may look like a compare.                             *)

deferred(u) == e_in.valid /\ EX!busy_out(u)

Rest == IF complete_out.valid /\ inflight # <<>> THEN Tail(inflight) ELSE inflight

Sgl == {"wait"}

issuable(k) == \/ Rest = <<>>
               \/ k \notin Sgl /\ \A n \in DOMAIN Rest : Rest[n].k \notin Sgl

Offers(u) == IF deferred(u) \/ flush_out \/ refetch > 0 THEN {}
             ELSE {k \in Kinds : issuable(k)}

(* cr_file.vhdl: what is written in this cycle is read in this cycle. *)
xerc_read == IF ex2.xer /\ ~intr THEN ex2.ca ELSE read_xerc

Bubbles == {[valid |-> FALSE, tag |-> [valid |-> FALSE, tag |-> curr_tag], k |-> k, ca |-> xerc_read] :
                k \in {"exc"} \cup (Kinds \cap {"cr"})}

DecodeEdge(u, k) ==
    /\ e_in' \in (IF flush_out THEN {EX!Bubble}
                  ELSE IF deferred(u) THEN {e_in}
                  ELSE IF k = "none" THEN Bubbles
                  ELSE {[valid |-> TRUE, tag |-> [valid |-> TRUE, tag |-> curr_tag], k |-> k,
                         ca |-> xerc_read]})
    /\ inflight' = IF flush_out THEN <<>>
                   ELSE IF k = "none" THEN Rest
                   ELSE Append(Rest, [tag |-> curr_tag, k |-> k])
    /\ curr_tag' = IF k = "none" THEN curr_tag ELSE (curr_tag + 1) % TagCount
    /\ refetch' = IF flush_out THEN Refetch ELSE IF refetch > 0 THEN refetch - 1 ELSE 0
    /\ read_xerc' = xerc_read
    /\ ca_done' = IF complete_out.valid /\ inflight # <<>> /\ ~intr /\ Head(inflight).k = "ca"
                  THEN (ca_done + 1) % EX!CaCount ELSE ca_done

-----------------------------------------------------------------------------

Init == /\ LS!Init
        /\ FP!FpuInit
        /\ EX!ExInit
        /\ e_in = EX!Bubble
        /\ inflight = <<>>
        /\ curr_tag = 0
        /\ refetch = 0
        /\ read_xerc = 0
        /\ ca_done = 0

(* rst = '1'; cr_file keeps what it has. *)
Reset == /\ LS!Reset
         /\ FP!FpuReset
         /\ EX!ExReset
         /\ e_in' = EX!Bubble
         /\ inflight' = <<>>
         /\ curr_tag' = 0
         /\ refetch' = Refetch
         /\ read_xerc' = xerc_read
         /\ ca_done' = xerc_read

(* The choices of a cycle: an interrupt where one would be seen, the end of  *)
(* an FPU operation, what the cache and the MMU do.                          *)
IrqChoices == IF e_in.valid THEN Irqs ELSE {FALSE}
WakeChoices == IF wait_state \/ ex1.enter_wait THEN Irqs ELSE {FALSE}

Clock(u, k, act, outcome, finish, mchoice) ==
    /\ LS!Clock(l_in(u), TRUE, fpu.f2stall, outcome, finish, mchoice)
    /\ FP!FpuEdge(fp_in(u), LS!stalled, flush_out, act)
    /\ EX!ExEdge(u)
    /\ DecodeEdge(u, k)

Next == \/ Reset
        \/ \E irq \in IrqChoices, wake \in WakeChoices :
              LET u == Signals(irq, wake)
              IN \E k \in {"none"} \cup Offers(u), act \in FP!Acts,
                    outcome \in LS!Outcomes, finish \in LS!SlowEnds, mchoice \in LS!MmuChoices :
                    Clock(u, k, act, outcome, finish, mchoice)

Spec == Init /\ [][Next]_vars

-----------------------------------------------------------------------------

TypeOK ==
    /\ LS!TypeOK
    /\ fpu.tag \in Tag /\ fpu.complete_tag \in Tag
    /\ {fpscr, comm_fpscr, fp_done} \subseteq FP!Fpscr
    /\ mult \subseteq 1 .. MulCycles
    /\ sorter \in 0 .. SortCycles
    /\ inflight \in Seq([tag : Tag, k : Kinds])
    /\ refetch \in 0 .. Refetch
    /\ {read_xerc, ca_done} \subseteq 0 .. EX!CaCount - 1

(* The assertions of writeback_0 (lines 47-66) and more: at most one unit    *)
(* completes an instruction in a cycle, it has a valid tag, and it is the    *)
(* oldest instruction in flight, although the units take different times.    *)
InOrder == \A d \in Done : /\ Done = {d}
                           /\ d[2].valid
                           /\ inflight # <<>> /\ d[2].tag = Head(inflight).tag

(* At most one unit interrupts, the interrupted instruction is the oldest in *)
(* flight, no other one completes in that cycle, and the address that is     *)
(* saved in SRR0, ex2.last_nia, is that instruction's, also when the unit is *)
(* loadstore1 or the FPU and the interrupt comes many cycles after the       *)
(* instruction left execute1.                                                *)
Interrupters == (IF ex2.interrupt THEN {ex2.tag.tag} ELSE {})
                \cup (IF r3.interrupt THEN {r2.req.id} ELSE {})
                \cup (IF fpu.do_intr THEN {fpu.complete_tag} ELSE {})

PreciseInterrupt ==
    intr => /\ Cardinality({ex2.interrupt, r3.interrupt, fpu.do_intr}) = 2
            /\ inflight # <<>>
            /\ Interrupters = {Head(inflight).tag}
            /\ ex2.nia = [valid |-> TRUE, tag |-> Head(inflight).tag]

(* execute1.vhdl 820: stage 2 is never stalled in a cycle in which it        *)
(* completes an instruction or interrupts.                                   *)
NotStalledWhenDone == ex2.valid \/ ex2.interrupt => ~LS!stalled /\ ~fpu.f2stall

(* fpu.vhdl 778: the FPU is never sent an instruction while it has one, nor  *)
(* while an older load stalls it ("we rely on execute1", line 3765); and     *)
(* while the FPU stalls stage 2, loadstore1 is empty.                        *)
FpuNotOverrun ==
    /\ fp_in(Signals(FALSE, FALSE)).valid => fpu.state = "IDLE" /\ ~LS!stalled
    /\ fpu.f2stall => ops = <<>> /\ ~l_in(Signals(FALSE, FALSE)).valid

(* The assertions the units make about one another: writeback sees one       *)
(* completion at a time, the oldest's, with stage 2 not stalled, and the FPU *)
(* is not overrun.                                                           *)
UnitsInStep == InOrder /\ NotStalledWhenDone /\ FpuNotOverrun

(* When an older instruction flushes the pipeline, the committed FPSCR, to   *)
(* which the FPU rolls back, is that of the completed instructions, although *)
(* it is copied from the working FPSCR, which the next FP instruction may    *)
(* already have begun to change (the result class apart).                    *)
RollbackExact == flush_out /\ ~fpu.do_intr => [comm_fpscr EXCEPT !.stray = FALSE] = fp_done

(* The carry an instruction reads is that of the youngest older instruction  *)
(* that writes it, whether it is forwarded from stage 1 or was read from the *)
(* file at decode (execute1.vhdl 669-680: "unless a pipeline flush has       *)
(* happened in the meantime").                                               *)
CarryFresh ==
    EX!starts(Signals(FALSE, FALSE), {"ca"}) =>
        EX!xerc_in = (ca_done + Cardinality({n \in 1 .. Len(inflight) - 1 : inflight[n].k = "ca"})) % EX!CaCount

(* What control and decode2 see of the units is what module Control assumes: *)
(* completions in issue order, bypasses of instructions in flight, ordered   *)
(* by age, and a free tag unless the instruction is deferred.  While it is   *)
(* deferred decode2 takes no operand, and a tag that no instruction in       *)
(* flight has matches nothing.                                               *)
Entries == [n \in DOMAIN inflight |->
              [tag |-> inflight[n].tag,
               reg |-> IF EX!write_reg_enable(inflight[n].k) THEN "r" ELSE "none",
               cr |-> inflight[n].k = "cr", ov |-> FALSE, sgl |-> FALSE]]

CT == INSTANCE Control WITH Reg <- {"r"}, NoReg <- "none", EX1_BYPASS <- TRUE, Insns <- {},
                            tag_regs <- <<>>, prev_tag <- 0, curr_cr_tag <- 0, curr_ov_tag <- 0,
                            inflight <- Entries

Seen(t) == IF t.valid /\ \E n \in DOMAIN inflight : inflight[n].tag = t.tag THEN t ELSE CT!NoTag

Data(t) == IF Seen(t).valid THEN [valid |-> TRUE, tag |-> t.tag, reg |-> "r"] ELSE CT!NoBypass

Ports(u) ==
    LET off == deferred(u)
    IN [complete |-> IF complete_out.valid THEN complete_out ELSE CT!NoTag,
        x1   |-> IF off THEN CT!NoBypass ELSE Data(EX!bypass_data(u)),
        x2   |-> Data(EX!bypass2_data),
        wb   |-> IF complete_out.valid /\ Entries[1].reg = "r" THEN CT!Bypass(1) ELSE CT!NoBypass,
        xcr1 |-> IF off THEN CT!NoTag ELSE Seen(EX!bypass_cr_data(u)),
        xcr2 |-> Seen(EX!bypass2_cr_data)]

ControlContract ==
    ~flush_out =>
        LET u == Signals(FALSE, FALSE)
        IN /\ Ports(u) \in CT!Results
           /\ CT!Room(Ports(u), [deferred |-> deferred(u)])
           /\ e_in.valid /\ Len(inflight) = 1 => ~complete_out.valid

(* With no instruction in the FPU, FPSCR is what the completed instructions  *)
(* made it: a flush "not due to us generating an interrupt" rolls it "back   *)
(* to committed fpscr" (fpu.vhdl 773-774).                                   *)
RolledBack == fpu.state = "IDLE" /\ ~fpu.instr_done => fpscr = fp_done

(* The flush of an interrupt of the FPU's own is no roll back (fpu.vhdl 773):*)
(* FPSCR stays as the interrupting instruction has set it.                   *)
OwnInterruptKeepsFpscr == [][fpu.do_intr /\ fpu.complete => fpscr' # FP!Cleared]_fpscr

(* The assertion "spurious completion" of control0 (control.vhdl 105): an    *)
(* instruction that completes is in flight.                                  *)
NoSpuriousCompletion ==
    complete_out.valid => \E n \in DOMAIN inflight : inflight[n].tag = complete_out.tag

(* The assertion of writeback.vhdl 64: execute1 completes only instructions  *)
(* that have a tag.                                                          *)
CompletesTagged == ex2.valid => ex2.tag.valid
=============================================================================
