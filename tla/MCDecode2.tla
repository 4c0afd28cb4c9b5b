------------------------------ MODULE MCDecode2 ------------------------------
(* Two mixes of instructions, one for the general registers and one for CR    *)
(* and XER; what decode1 offers is enumerated only when decode2 takes it.     *)
EXTENDS Decode2

VARIABLE mode

I(reads, write, sgl) ==
    [reads |-> reads, write |-> write, cr_read |-> FALSE, cr_write |-> FALSE,
     ov_read |-> FALSE, ov_write |-> FALSE, sgl |-> sgl]

(* Writers of two registers, an instruction that waits for both, one that    *)
(* writes nothing, and one that is issued alone.                             *)
GprInsns == {I({}, "r1", FALSE), I({"r1"}, "r2", FALSE), I({"r1", "r2"}, "r1", FALSE),
             I({}, NoReg, FALSE), I({"r1"}, NoReg, TRUE)}

F(cr_read, cr_write, ov_read, ov_write) ==
    [reads |-> {}, write |-> NoReg, cr_read |-> cr_read, cr_write |-> cr_write,
     ov_read |-> ov_read, ov_write |-> ov_write, sgl |-> FALSE]

(* CR read and written, a record form that also reads and writes XER, and one *)
(* that is issued alone.                                                      *)
FlagInsns == {F(TRUE, TRUE, FALSE, FALSE), F(FALSE, TRUE, TRUE, TRUE),
              I({"r1"}, NoReg, TRUE)}

AllInsns == GprInsns \cup FlagInsns

Offered(busy_in, flush) ==
    IF flush \/ dc2.busy \/ (dc2.valid /\ busy_in) THEN {d_in}
    ELSE {f \in FromDecode1 : f.valid => f.insn \in IF mode = "gpr" THEN GprInsns ELSE FlagInsns}

MCInit == Init /\ mode \in {"gpr", "flags"}
MCNext == /\ \/ Reset
             \/ \E res \in Results, busy_in, flush \in BOOLEAN :
                    \E f \in Offered(busy_in, flush) : Clock(res, busy_in, flush, f)
          /\ UNCHANGED mode
MCSpec == MCInit /\ [][MCNext]_<<vars, mode>> /\ Completes
=============================================================================
