------------------------------- MODULE Execute1 -------------------------------
(* execute1.vhdl, its control: the two execute stages, the instructions that *)
(* take several cycles (multiply, bit sort, bit permute), exceptions, traps  *)
(* and interrupts, branches that redirect the fetch, the wait state, and the *)
(* bypasses to decode2.  Results and special registers are left out.         *)
EXTENDS Naturals

CONSTANTS MulCycles,    \* from the start of a multiply to multiply_to_x.valid (3)
          SortCycles    \* from the start of a bit sort to bsort_done (64), or bit permute (8)

VARIABLES e_in,         \* from decode2: valid, tag, k, ca (of e_in.xerc)
          ex1,          \* valid, interrupt, redirect, busy, mul, mul_finish, sort, oe, tag, k,
                        \* nia (whose address last_nia is), enter_wait, ca (of ex1.e.xerc),
                        \* xerc (the CA of ex1.xerc), xerc_valid
          ex2,          \* valid, interrupt, redirect, tag, nia, xer (write_xerc_enable), ca
          wait_state,
          mult, sorter  \* cycles left of the operations in the multiplier and in the sorter

exVars == <<e_in, ex1, ex2, wait_state, mult, sorter>>

(* An instruction tag, and the sorts of instruction handled here:            *)
(*   alu, cr   write a GPR or CR in one cycle and bypass it                  *)
(*   ca        reads and writes CA (adde): CA is a count of writes (CaCount) *)
(*   slow      writes a GPR, not bypassed (mfspr of a slow SPR)              *)
(*   br        a branch (or rfid, isync) that redirects the fetch            *)
(*   mul, mulo, sort  take several cycles; mulo also sets OV                 *)
(*   trap      completes and interrupts (sc, tw); exc  does not execute      *)
(*   wait      enters the wait state                                         *)
NoTag == [valid |-> FALSE, tag |-> 0]
CaCount == 3
Sort  == {"sort"}
Mul   == {"mul", "mulo"}
Alu   == {"alu", "cr", "ca", "slow", "br", "trap", "exc", "wait"} \cup Mul \cup Sort

completes(k) == k \in {"alu", "cr", "ca", "slow", "br", "trap", "wait"}
write_reg_enable(k) == k \in {"alu", "ca", "slow"} \cup Mul \cup Sort
slow_op(k) == k \in {"slow"} \cup Mul \cup Sort
write_xerc_enable(k) == k \in {"ca", "mulo"}
Bubble == [valid |-> FALSE, tag |-> NoTag, k |-> "exc", ca |-> 0]

(* The signals of the other units in one cycle, a record                     *)
(*   l_busy, l2stall (loadstore1), f_busy, f2stall (FPU),                    *)
(*   flush, intr (writeback), irq: an interrupt is pending and enabled, or a *)
(*   trace or FP exception interrupt is due; wake: it clears the wait state. *)

\* variant: loadstore1 does not hold back execution
BusyNotLoad(u) == ex1.busy \/ u.f_busy \/ wait_state

busy_out(u) == u.l_busy \/ ex1.busy \/ u.f_busy \/ wait_state

valid_in(u) == e_in.valid /\ ~(busy_out(u) \/ u.flush \/ ex1.redirect \/ ex1.interrupt)

exception(u) == valid_in(u) /\ (u.irq \/ e_in.k = "exc")

go(u) == valid_in(u) /\ ~exception(u)

starts(u, kinds) == go(u) /\ e_in.k \in kinds

mul_done  == 1 \in mult
sort_done == sorter = 1

(* v.e.valid before the flush: the blocks that follow one another in         *)
(* execute1_1 override each other in this order.                             *)
ex1_valid(u) ==
    IF ex1.sort THEN sort_done
    ELSE IF ex1.mul_finish THEN TRUE
    ELSE IF ex1.mul THEN mul_done /\ ~ex1.oe
    ELSE IF go(u) THEN completes(e_in.k)
    ELSE busy_out(u) /\ ex1.valid

ex1_busy(u) == IF ex1.sort THEN ~sort_done
               ELSE IF ex1.mul THEN ~(mul_done /\ ~ex1.oe)
               ELSE starts(u, Mul \cup Sort)

latches_interrupt(u) == ~(ex1.busy \/ u.l_busy \/ u.f_busy)

(* CA of the instruction in e_in, and what it makes of it. *)
xerc_in == IF ex1.xerc_valid THEN ex1.xerc ELSE e_in.ca
xerc_out == IF e_in.k = "ca" THEN (xerc_in + 1) % CaCount ELSE xerc_in

\* variant: the forwarded XER outlives a flush
XercKept(u) == ex1.xerc_valid

xerc_survives(u) == ex1.xerc_valid /\ ~u.flush

Ex1Edge(u) ==
    LET held == busy_out(u)     \* v.e and v.se keep their values
        ca   == IF held THEN ex1.ca ELSE xerc_out
        xer  == ex1_valid(u) /\ write_xerc_enable(IF held THEN ex1.k ELSE e_in.k)
    IN ex1' =
       [valid     |-> ex1_valid(u) /\ ~u.flush,
        interrupt |-> /\ IF latches_interrupt(u) THEN exception(u) \/ starts(u, {"trap"})
                         ELSE held /\ ex1.interrupt
                      /\ ~u.flush,
        redirect  |-> /\ IF held THEN ex1.redirect ELSE e_in.k = "br"
                      /\ ex1_valid(u) /\ ~u.flush,
        busy      |-> ex1_busy(u) /\ ~u.flush,
        mul       |-> (IF ex1.mul THEN ~mul_done ELSE starts(u, Mul)) /\ ~u.flush,
        mul_finish |-> ex1.mul /\ mul_done /\ ex1.oe /\ ~ex1.mul_finish /\ ~u.flush,
        sort      |-> IF ex1.sort THEN ~sort_done ELSE starts(u, Sort),
        oe        |-> IF held THEN ex1.oe ELSE e_in.k = "mulo",
        tag       |-> IF held THEN ex1.tag ELSE e_in.tag,
        nia       |-> IF held THEN ex1.nia ELSE e_in.tag,
        k         |-> IF held THEN ex1.k ELSE e_in.k,
        enter_wait |-> IF held THEN ex1.enter_wait ELSE starts(u, {"wait"}),
        ca        |-> ca,
        xerc      |-> IF xer THEN ca ELSE ex1.xerc,
        xerc_valid |-> (xer /\ ~u.flush) \/ xerc_survives(u)]

stage2_stall(u) == u.l2stall \/ u.f2stall

\* variant: last_nia follows stage 1 although stage 2 is stalled
NiaFollows(u) == ex1.nia

last_nia(u) == IF stage2_stall(u) THEN ex2.nia ELSE ex1.nia

moves(u) == ~stage2_stall(u) /\ ~u.flush

Ex2Edge(u) ==
    ex2' = [valid     |-> ex1.valid /\ moves(u),
            interrupt |-> ex1.interrupt /\ moves(u),
            redirect  |-> ex1.valid /\ ex1.redirect /\ moves(u),
            tag       |-> ex1.tag,
            nia       |-> last_nia(u),
            xer       |-> ex1.valid /\ write_xerc_enable(ex1.k) /\ moves(u),
            ca        |-> ex1.ca]

WaitEdge(u) ==
    wait_state' = ((wait_state \/ (ex1.enter_wait /\ ~stage2_stall(u))) /\ ~u.wake /\ ~u.intr)

(* multiply.vhdl and bitsort.vhdl know nothing of a flush. *)
MultEdge(u) == mult' = {n - 1 : n \in mult \ {1}} \cup (IF starts(u, Mul) THEN {MulCycles} ELSE {})

SorterEdge(u) ==
    sorter' = IF starts(u, Sort) THEN SortCycles ELSE IF sorter = 0 THEN 0 ELSE sorter - 1

-----------------------------------------------------------------------------
(* The bypasses to decode2, as tags: of the result entering stage 1 and of   *)
(* the one entering stage 2.                                                 *)

Held(u, new, old) == IF busy_out(u) THEN old ELSE new

bypass_valid(u) == IF ex1.sort THEN sort_done
                   ELSE IF ex1.mul THEN mul_done /\ ~ex1.oe
                   ELSE e_in.valid /\ e_in.k \in Alu /\ ~slow_op(e_in.k)

\* variant: the tag is that of the instruction in stage 1
BypassStage1Tag(u) ==
    [valid |-> write_reg_enable(Held(u, e_in.k, ex1.k)) /\ bypass_valid(u), tag |-> ex1.tag.tag]

bypass_data(u) ==
    [valid |-> write_reg_enable(Held(u, e_in.k, ex1.k)) /\ bypass_valid(u),
     tag |-> Held(u, e_in.tag.tag, ex1.tag.tag)]

bypass_cr_data(u) == [valid |-> e_in.k = "cr" /\ bypass_valid(u), tag |-> e_in.tag.tag]

bypass2_data == [valid |-> ex1.valid /\ write_reg_enable(ex1.k) /\ ex1.k # "slow",
                 tag |-> ex1.tag.tag]

bypass2_cr_data == [valid |-> ex1.valid /\ ex1.k = "cr", tag |-> ex1.tag.tag]

Ex1Init == [valid |-> FALSE, interrupt |-> FALSE, redirect |-> FALSE, busy |-> FALSE,
            mul |-> FALSE, mul_finish |-> FALSE, sort |-> FALSE, oe |-> FALSE, tag |-> NoTag,
            nia |-> NoTag, k |-> "exc", enter_wait |-> FALSE, ca |-> 0, xerc |-> 0,
            xerc_valid |-> FALSE]
Ex2Init == [valid |-> FALSE, interrupt |-> FALSE, redirect |-> FALSE, tag |-> NoTag,
            nia |-> NoTag, xer |-> FALSE, ca |-> 0]

ExInit == /\ ex1 = Ex1Init
          /\ ex2 = Ex2Init
          /\ wait_state = FALSE
          /\ mult = {}
          /\ sorter = 0

(* rst = '1': the multiplier has no reset. *)
ExReset == /\ ex1' = Ex1Init
           /\ ex2' = Ex2Init
           /\ wait_state' = FALSE
           /\ mult' = {n - 1 : n \in mult \ {1}}
           /\ sorter' = 0

ExEdge(u) == Ex1Edge(u) /\ Ex2Edge(u) /\ WaitEdge(u) /\ MultEdge(u) /\ SorterEdge(u)
=============================================================================
