--------------------------------- MODULE Fpu ---------------------------------
(* fpu.vhdl, its control: how an instruction is taken from execute1, waits   *)
(* for older loads, is completed or interrupts, and how FPSCR is updated,    *)
(* committed and rolled back.  The arithmetic (the states between IDLE and   *)
(* the one that sets instr_done) is the single state "EXEC", which lasts any *)
(* number of cycles.  One step is one clock edge.                            *)
EXTENDS Naturals

(* The sorts of instruction: "fp": no enabled exception; "fptrap": sets FEX  *)
(* with MSR[FE0,FE1] # 00; "fpill": ends in DO_ILLEGAL.                      *)

VARIABLES fpu,          \* r: state, busy, f2stall, instr_done, complete, do_intr, illegal,
                        \* update_fprf, k, instr_tag, complete_tag
          fpscr, comm_fpscr,
          fp_done       \* ghost: FPSCR as the instructions completed so far leave it

fpuVars == <<fpu, fpscr, comm_fpscr, fp_done>>

(* FPSCR: which instruction (modulo 2; 2: cleared) wrote it last; whether    *)
(* the write is partial, for an instruction sets exception bits as it goes   *)
(* and the result class only in the cycle after it is done (update_fprf);    *)
(* and whether the class is a stray one, of an instruction that was flushed. *)
Fpscr == [n : 0 .. 2, partial : BOOLEAN, stray : BOOLEAN]
Value(n) == [n |-> n, partial |-> FALSE, stray |-> FALSE]
Cleared == Value(2)
Written(s) == [s EXCEPT !.partial = TRUE]
Ended(s, arith) == [s EXCEPT !.n = (@ + 1) % 2, !.partial = arith]
Settled(s) == [s EXCEPT !.partial = FALSE, !.stray = ~s.partial]

FpuIdle == [state |-> "IDLE", busy |-> FALSE, f2stall |-> FALSE, instr_done |-> FALSE,
            complete |-> FALSE, do_intr |-> FALSE, illegal |-> FALSE, update_fprf |-> FALSE,
            k |-> "fp", tag |-> 0, complete_tag |-> 0]

NoFp == [valid |-> FALSE, tag |-> 0, k |-> "fp"]

FpuInit == /\ fpu = FpuIdle
           /\ fpscr = Value(0)
           /\ comm_fpscr = Value(0)
           /\ fp_done = Value(0)

reported == fpu.complete \/ fpu.do_intr

keeps_done == fpu.instr_done /\ ~reported

(* What the state machine does in a cycle of "EXEC": nothing to FPSCR, set   *)
(* bits of it, end, or end an arithmetic instruction, whose class follows.   *)
Acts == IF fpu.state = "EXEC" THEN {"run", "set", "end", "arith"} ELSE {"run"}
ends(act) == act \in {"end", "arith"}

(* v.fpscr in a cycle; an illegal instruction leaves it alone. *)
next_fpscr(act) ==
    IF fpu.update_fprf THEN Settled(fpscr)
    ELSE IF fpu.k = "fpill" THEN fpscr
    ELSE IF ends(act) THEN Ended(fpscr, act = "arith")
    ELSE IF act = "set" THEN Written(fpscr) ELSE fpscr

\* variant: the committed copy is taken when the instruction is done
CommitEarly(act) ==
    IF ends(act) THEN next_fpscr(act) ELSE comm_fpscr

next_comm(act) ==
    IF reported THEN next_fpscr(act) ELSE comm_fpscr

(* f2stall holds back execute2; it is raised only when no older load does so. *)
next_f2stall(e, done, stall) ==
    IF done THEN fpu.f2stall /\ fpu.state = "IDLE"
    ELSE fpu.f2stall \/ (fpu.state # "IDLE" /\ ~stall)

\* variant: the FPU stays busy
BusyKept(e, left) == fpu.busy \/ e.valid

next_busy(e, left) == (fpu.busy \/ e.valid) /\ ~left

\* variant: the FPU does not wait for the older load
CompletesAtOnce(done, stall) == done

FpuComplete(done, stall) == done /\ ~stall

(* The clock edge with rst = '0' and flush_in = '0': e is the instruction    *)
(* from execute1, stall is l2stall.                                          *)
FpuStep(e, stall, act) ==
    LET done    == keeps_done \/ ends(act)
        illegal == IF fpu.state # "IDLE" /\ done THEN fpu.k = "fpill" ELSE fpu.illegal /\ ~reported
        left    == done /\ fpu.state # "IDLE"
    IN /\ fpu' = [state      |-> IF left THEN "IDLE"
                                 ELSE IF e.valid THEN "EXEC" ELSE fpu.state,
                  busy       |-> next_busy(e, left),
                  f2stall    |-> next_f2stall(e, done, stall),
                  instr_done |-> done,
                  complete   |-> FpuComplete(done, stall) /\ ~illegal,
                  do_intr    |-> FpuComplete(done, stall) /\ (fpu.k = "fptrap" \/ illegal),
                  illegal    |-> illegal,
                  update_fprf |-> act = "arith" /\ fpu.k # "fpill",
                  k   |-> IF e.valid THEN e.k ELSE fpu.k,
                  tag |-> IF e.valid THEN e.tag ELSE fpu.tag,
                  complete_tag |-> IF left THEN fpu.tag ELSE fpu.complete_tag]
       /\ fpscr' = next_fpscr(act)
       /\ comm_fpscr' = next_comm(act)
       /\ fp_done' = IF fpu.complete THEN Ended(fp_done, FALSE) ELSE fp_done

(* What rst and flush_in leave of r; update_fprf is not among what they      *)
(* clear.                                                                    *)
FpuDropped == [FpuIdle EXCEPT !.k = fpu.k, !.tag = fpu.tag, !.complete_tag = fpu.complete_tag,
                              !.update_fprf = fpu.update_fprf]

(* flush_in = '1': everything is dropped.  FPSCR goes back to the committed  *)
(* copy, unless the FPU itself interrupts: then it has been cleared.         *)
FpuFlush ==
    /\ fpu' = FpuDropped
    /\ fpscr' = IF fpu.do_intr THEN Cleared ELSE comm_fpscr
    /\ comm_fpscr' = comm_fpscr
    /\ fp_done' = IF fpu.complete THEN Ended(fp_done, FALSE) ELSE fp_done

(* rst = '1' clears both copies. *)
FpuReset ==
    /\ fpu' = FpuDropped
    /\ fpscr' = Value(0)
    /\ comm_fpscr' = Value(0)
    /\ fp_done' = Value(0)

FpuEdge(e, stall, flush, act) ==
    IF flush THEN FpuFlush ELSE FpuStep(e, stall, act)

=============================================================================
