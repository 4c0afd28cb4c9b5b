------------------------------- MODULE Decode2 -------------------------------
(* decode2.vhdl around control.vhdl: the instruction presented by decode1    *)
(* (d_in), the register dc2 that holds an instruction until its hazards are  *)
(* gone and then hands it to execute, and the operands gathered for it while *)
(* it waits.  Operand values are abstracted to where they come from: the     *)
(* position in inflight of the instruction that produced the value, 0 for    *)
(* the committed value, Stale for a value that has since been overwritten.   *)
EXTENDS Control

VARIABLES d_in,     \* valid, insn, stop_mark: the register of decode1
          dc2       \* valid (dc2.e.valid), busy, insn, sgl_pipe, prev_sgl, ops

vars == <<tag_regs, curr_tag, prev_tag, curr_cr_tag, curr_ov_tag, inflight, d_in, dc2>>

Stale == -1

NoInsn == [reads |-> {}, write |-> NoReg, cr_read |-> FALSE, cr_write |-> FALSE,
           ov_read |-> FALSE, ov_write |-> FALSE, sgl |-> FALSE]

(* Cells of architected state that an instruction reads and writes: the      *)
(* general registers, CR as a whole and XER as a whole.                      *)
Cell == Reg \cup {"CR", "OV"}

Reads(insn) == insn.reads \cup (IF insn.cr_read THEN {"CR"} ELSE {})
                          \cup (IF insn.ov_read THEN {"OV"} ELSE {})

Writes(e, cell) == \/ cell = "CR" /\ e.cr
                   \/ cell = "OV" /\ e.ov
                   \/ cell = e.reg

(* p is the youngest writer of the cell among the first n instructions of s, *)
(* or 0 if none of them writes it.                                           *)
YoungestIn(s, p, n, cell) ==
    /\ p \in 0 .. n
    /\ p > 0 => Writes(s[p], cell)
    /\ \A k \in 1 .. n : Writes(s[k], cell) => k <= p

IsYoungest(p, n, cell) == YoungestIn(inflight, p, n, cell)

PosOf(tag) == CHOOSE k \in DOMAIN inflight : inflight[k].tag = tag

(* v.e.read_data1..3: the bypass, else the register file in the first cycle, *)
(* else what dc2 holds from an earlier cycle.                                *)
GprOperand(res, insn, cell) ==
    CASE gpr_bypass(res, cell) = "ex1" -> PosOf(res.x1.tag)
      [] gpr_bypass(res, cell) = "ex2" -> PosOf(res.x2.tag)
      [] gpr_bypass(res, cell) = "wb"  -> PosOf(res.wb.tag)
      [] OTHER -> IF dc2.busy THEN dc2.ops[cell] ELSE 0

(* cr_file.vhdl returns the value written in this cycle, if there is one. *)
FileOperand(res, cell) ==
    IF res.complete.valid /\ Writes(inflight[1], cell) THEN 1 ELSE 0

CrOperand(res, insn) ==
    CASE cr_bypass(res, insn) = "ex1" -> PosOf(res.xcr1.tag)
      [] cr_bypass(res, insn) = "ex2" -> PosOf(res.xcr2.tag)
      [] OTHER -> FileOperand(res, "CR")

Operand(res, insn, cell) == CASE cell = "CR" -> CrOperand(res, insn)
                              [] cell = "OV" -> FileOperand(res, "OV")
                              [] OTHER -> GprOperand(res, insn, cell)

(* The source of a captured value seen after a completion. *)
Aged(res, p, cell) ==
    IF ~res.complete.valid THEN p
    ELSE IF p > 0 THEN p - 1
    ELSE IF p = 0 /\ Writes(inflight[1], cell) THEN Stale ELSE p

Empty == [valid |-> FALSE, busy |-> FALSE, insn |-> NoInsn,
          sgl_pipe |-> FALSE, prev_sgl |-> FALSE, ops |-> [cell \in Cell |-> 0]]

Bubble(stop) == [valid |-> FALSE, insn |-> NoInsn, stop_mark |-> stop]

(* What decode1 may present: a stop mark travels in a bubble, since fetch1   *)
(* sends it with req = '0'.                                                  *)
FromDecode1 == {Bubble(b) : b \in BOOLEAN}
               \cup {[valid |-> TRUE, insn |-> i, stop_mark |-> FALSE] : i \in Insns}

insn_in == IF dc2.busy THEN dc2.insn ELSE d_in.insn

fresh == ~dc2.busy /\ d_in.valid

sgl_in  == IF fresh THEN d_in.insn.sgl ELSE dc2.sgl_pipe
psgl_in == IF fresh THEN dc2.sgl_pipe ELSE dc2.prev_sgl

\* variant: only the instruction's own sgl_pipe bit serialises it
RequestIgnoresPrev(busy_in, flush) ==
    [valid |-> d_in.valid \/ dc2.busy, insn |-> insn_in, serialize |-> sgl_in,
     deferred |-> dc2.valid /\ busy_in, flush |-> flush]

Request(busy_in, flush) ==
    [valid |-> d_in.valid \/ dc2.busy, insn |-> insn_in, serialize |-> sgl_in \/ psgl_in,
     deferred |-> dc2.valid /\ busy_in, flush |-> flush]

(* The operands of the instruction in dc2.e and those of the one coming in;  *)
(* cells that are not read count as 0.                                       *)
KeptOps(res) ==
    [cell \in Cell |-> IF cell \in Reads(dc2.insn) THEN Aged(res, dc2.ops[cell], cell) ELSE 0]

NewOps(res, insn) ==
    [cell \in Cell |-> IF cell \in Reads(insn)
                       THEN Aged(res, Operand(res, insn, cell), cell) ELSE 0]

Dc2Edge(res, q) ==
    dc2' = IF q.flush THEN Empty
           ELSE IF q.deferred THEN [dc2 EXCEPT !.ops = KeptOps(res)]
           ELSE [valid |-> valid_out(res, q),
                 busy  |-> q.valid /\ ~valid_out(res, q),
                 insn  |-> q.insn,
                 sgl_pipe |-> sgl_in, prev_sgl |-> psgl_in,
                 ops |-> NewOps(res, q.insn)]

(* decode1's register: stall_in is dc2.busy or deferred. *)
D1Edge(q, f) ==
    d_in' = IF q.flush THEN Bubble(d_in.stop_mark)
            ELSE IF dc2.busy \/ q.deferred THEN d_in ELSE f

(* The instruction in dc2.e has not been executed, let alone completed. *)
Retirable(res) == dc2.valid /\ Len(inflight) = 1 => ~res.complete.valid

Clock(res, busy_in, flush, f) ==
    LET q == Request(busy_in, flush)
    IN /\ Room(res, q)
       /\ Retirable(res)
       /\ ControlEdge(res, q)
       /\ Dc2Edge(res, q)
       /\ D1Edge(q, f)

Init == /\ ControlInit
        /\ dc2 = Empty
        /\ d_in = Bubble(FALSE)

Reset == /\ ControlReset
         /\ dc2' = Empty
         /\ d_in' = Bubble(FALSE)

Next == \/ Reset
        \/ \E res \in Results, busy_in, flush \in BOOLEAN, f \in FromDecode1 :
               Clock(res, busy_in, flush, f)

Spec == Init /\ [][Next]_vars

-----------------------------------------------------------------------------

InsnType == [reads : SUBSET Reg, write : Reg \cup {NoReg},
             cr_read : BOOLEAN, cr_write : BOOLEAN,
             ov_read : BOOLEAN, ov_write : BOOLEAN, sgl : BOOLEAN]

EntryType == [tag : Tag, reg : Reg \cup {NoReg}, cr : BOOLEAN, ov : BOOLEAN, sgl : BOOLEAN]

TypeOK ==
    /\ tag_regs \in [Tag -> TagRegister]
    /\ curr_tag \in Tag
    /\ prev_tag \in Tag
    /\ curr_cr_tag \in Tag
    /\ curr_ov_tag \in Tag
    /\ inflight \in Seq(EntryType)
    /\ d_in \in [valid : BOOLEAN, insn : InsnType, stop_mark : BOOLEAN]
    /\ dc2 \in [valid : BOOLEAN, busy : BOOLEAN, insn : InsnType,
                sgl_pipe : BOOLEAN, prev_sgl : BOOLEAN,
                ops : [Cell -> Int]]

(* The tag d places behind t. *)
Behind(t, d) == IF d <= t THEN t - d ELSE t + TagCount - d

(* The instructions in flight hold consecutive tags that end just before     *)
(* curr_tag, and exactly their tags are marked valid: a tag is never given   *)
(* out again before its instruction completes (control.vhdl 254-258 does not *)
(* look whether curr_tag is free), and the assertion "spurious completion"   *)
(* of line 105 cannot fire as long as the units complete the oldest          *)
(* instruction and hold back when no tag is free (Results, Room), which      *)
(* ControlContract of Pipeline states of them.                               *)
TagWindow ==
    /\ Len(inflight) <= TagCount
    /\ \A k \in DOMAIN inflight : inflight[k].tag = Behind(curr_tag, Len(inflight) + 1 - k)
    /\ \A t \in Tag : tag_regs[t].valid <=> \E k \in DOMAIN inflight : inflight[k].tag = t

(* The instruction handed to execute has, for every register, CR and XER it  *)
(* reads, the value of the youngest older writer, or the committed value if  *)
(* none is in flight: whatever is bypassed, stalled, deferred, gathered over *)
(* several cycles or flushed, no operand is stale (control.vhdl 168-283,     *)
(* decode2.vhdl 677-720).                                                    *)
OperandsFresh ==
    dc2.valid => /\ inflight # <<>>
                 /\ \A cell \in Reads(dc2.insn) :
                        IsYoungest(dc2.ops[cell], Len(inflight) - 1, cell)

(* An instruction with sgl_pipe set is in flight alone: nothing older is     *)
(* left when it issues and nothing younger issues before it completes        *)
(* (control.vhdl 285-290, decode2.vhdl 404-407 and 655), although prev_tag   *)
(* also moves when execute defers the instruction (lines 146-148).           *)
SglAlone == \A k \in DOMAIN inflight : inflight[k].sgl => Len(inflight) = 1

(* An instruction held back by a hazard is issued or flushed in the end: it  *)
(* never waits for a tag that no instruction in flight will release.         *)
Unblocked == dc2.busy ~> ~dc2.busy

(* The oldest instruction in flight completes in the end: the units finish    *)
(* what they were given, and execute does not stay busy forever.              *)
OldestGone == inflight # <<>> /\ (inflight' = <<>> \/ inflight'[1].tag # inflight[1].tag)

Completes == []<>(inflight = <<>>) \/ []<><<OldestGone>>_vars
=============================================================================
