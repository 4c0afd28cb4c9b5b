------------------------------- MODULE Control -------------------------------
(* control.vhdl: the scoreboard of the pipeline.  Every issued instruction   *)
(* takes one of TAG_COUNT tags; the tags tell which general registers, CR    *)
(* and OV have a writer in flight, whether an operand can be bypassed, and   *)
(* whether the next instruction must wait.  One step is one rising edge of   *)
(* clk; the combinational processes are operators.                           *)
EXTENDS Integers, Sequences

CONSTANTS TagCount,     \* TAG_COUNT of common.vhdl
          Reg, NoReg,   \* gspr_index_t; NoReg: gpr_write_valid_in = '0'
          EX1_BYPASS,   \* the generic
          Insns         \* the instructions decode2 may present

ASSUME TagAssumption == TagCount \in Nat \ {0}
ASSUME RegAssumption == /\ NoReg \notin Reg \cup {"CR", "OV"}
                        /\ Reg \cap {"CR", "OV"} = {}
ASSUME BypassAssumption == EX1_BYPASS \in BOOLEAN
ASSUME InsnAssumption ==
    Insns \subseteq [reads : SUBSET Reg, write : Reg \cup {NoReg},
                     cr_read : BOOLEAN, cr_write : BOOLEAN,
                     ov_read : BOOLEAN, ov_write : BOOLEAN, sgl : BOOLEAN]

Tag == 0 .. TagCount - 1

(* recent and reg are what the GPR hazard logic reads; wr_gpr is read by     *)
(* report statements only and is left out.                                   *)
TagRegister == [reg : Reg \cup {NoReg}, recent : BOOLEAN,
                wr_cr : BOOLEAN, wr_ov : BOOLEAN, valid : BOOLEAN]

VARIABLES tag_regs, curr_tag, prev_tag, curr_cr_tag, curr_ov_tag,
          inflight  \* the issued, uncompleted instructions, oldest first

controlVars == <<tag_regs, curr_tag, prev_tag, curr_cr_tag, curr_ov_tag, inflight>>

-----------------------------------------------------------------------------
(* The results offered in one cycle, a record of the ports                   *)
(*   complete   complete_in                                                  *)
(*   x1, x2, wb execute_next_bypass, execute2_next_bypass, writeback_bypass  *)
(*   xcr1, xcr2 execute_next_cr_tag, execute2_next_cr_tag                    *)

tag_match(a, b) == a.valid /\ b.valid /\ a.tag = b.tag

NoTag == [valid |-> FALSE, tag |-> 0]
NoBypass == [valid |-> FALSE, tag |-> 0, reg |-> NoReg]

(* tag_a.valid, tag_b.valid or tag_c.valid for a port that reads r: the last *)
(* matching tag of the loop decides.                                         *)
GprPending(res, r) ==
    LET hits == {i \in Tag : /\ tag_regs[i].valid
                             /\ tag_regs[i].recent
                             /\ tag_regs[i].reg = r}
        last == [valid |-> TRUE, tag |-> CHOOSE i \in hits : \A j \in hits : j <= i]
    IN /\ hits # {}
       /\ ~(EX1_BYPASS /\ tag_match(res.x1, last))
       /\ ~(EX1_BYPASS /\ tag_match(res.x2, last))
       /\ ~tag_match(res.complete, last)

\* variant: the older result wins when two stages hold one for the register
BypassOlderFirst(res, r) ==
    IF res.wb.valid /\ res.wb.reg = r THEN "wb"
    ELSE IF EX1_BYPASS /\ res.x2.valid /\ res.x2.reg = r THEN "ex2"
    ELSE IF EX1_BYPASS /\ res.x1.valid /\ res.x1.reg = r THEN "ex1"
    ELSE "rf"

(* byp_a, byp_b, byp_c: where the operand comes from. *)
gpr_bypass(res, r) ==
    IF EX1_BYPASS /\ res.x1.valid /\ res.x1.reg = r THEN "ex1"
    ELSE IF EX1_BYPASS /\ res.x2.valid /\ res.x2.reg = r THEN "ex2"
    ELSE IF res.wb.valid /\ res.wb.reg = r THEN "wb"
    ELSE "rf"

tag_cr(res, insn) ==
    LET t == [valid |-> insn.cr_read /\ tag_regs[curr_cr_tag].wr_cr, tag |-> curr_cr_tag]
    IN [t EXCEPT !.valid = t.valid /\ ~tag_match(t, res.complete)]

cr_bypass(res, insn) ==
    IF EX1_BYPASS /\ tag_match(res.xcr1, tag_cr(res, insn)) THEN "ex1"
    ELSE IF EX1_BYPASS /\ tag_match(res.xcr2, tag_cr(res, insn)) THEN "ex2"
    ELSE "file"

cr_tag_stall(res, insn) == tag_cr(res, insn).valid /\ cr_bypass(res, insn) = "file"

ov_tag_stall(res, insn) ==
    LET t == [valid |-> insn.ov_read /\ tag_regs[curr_ov_tag].wr_ov, tag |-> curr_ov_tag]
    IN t.valid /\ ~tag_match(t, res.complete)

serial_stall(res) ==
    LET t == [valid |-> tag_regs[prev_tag].valid, tag |-> prev_tag]
    IN t.valid /\ ~tag_match(t, res.complete)

gpr_tag_stall(res, insn) == \E r \in insn.reads : GprPending(res, r)

(* The request of one cycle, a record: valid, insn, serialize, deferred, flush. *)
valid_out(res, q) ==
    /\ q.valid
    /\ ~q.flush
    /\ ~gpr_tag_stall(res, q.insn)
    /\ ~cr_tag_stall(res, q.insn)
    /\ ~ov_tag_stall(res, q.insn)
    /\ ~(q.serialize /\ serial_stall(res))

instr_tag(res, q) == [valid |-> valid_out(res, q) /\ ~q.deferred, tag |-> curr_tag]

\* variant: tags are not taken modulo TAG_COUNT
NextTagNoWrap == curr_tag + 1

next_tag == IF curr_tag + 1 = TagCount THEN 0 ELSE curr_tag + 1

-----------------------------------------------------------------------------
(* One pass of the loop in control0: an invalidation by flush or completion, *)
(* then the recent bit, then the allocation, which overrides both.           *)

Invalid(t) == [t EXCEPT !.wr_cr = FALSE, !.wr_ov = FALSE, !.valid = FALSE]

\* variant: a completion overrides the allocation of the same tag
TagCompletionLast(res, q, i) ==
    LET issue == instr_tag(res, q).valid
        older == issue /\ q.insn.write # NoReg /\ tag_regs[i].reg = q.insn.write
    IN IF q.flush \/ (res.complete.valid /\ res.complete.tag = i) THEN Invalid(tag_regs[i])
       ELSE IF issue /\ i = curr_tag
       THEN [reg |-> q.insn.write, recent |-> q.insn.write # NoReg,
             wr_cr |-> q.insn.cr_write, wr_ov |-> q.insn.ov_write, valid |-> TRUE]
       ELSE [tag_regs[i] EXCEPT !.recent = @ /\ ~older]

\* variant: a completion does not free the tag
TagNotFreed(res, q, i) ==
    IF q.flush THEN Invalid(tag_regs[i])
    ELSE IF instr_tag(res, q).valid /\ i = curr_tag
    THEN [reg |-> q.insn.write, recent |-> q.insn.write # NoReg,
          wr_cr |-> q.insn.cr_write, wr_ov |-> q.insn.ov_write, valid |-> TRUE]
    ELSE tag_regs[i]

TagAfter(res, q, i) ==
    LET done   == res.complete.valid /\ res.complete.tag = i
        issue  == instr_tag(res, q).valid
        older  == issue /\ q.insn.write # NoReg /\ tag_regs[i].reg = q.insn.write
        base   == IF done THEN Invalid(tag_regs[i]) ELSE tag_regs[i]
    IN IF q.flush THEN Invalid(tag_regs[i])
       ELSE IF issue /\ i = curr_tag
       THEN [reg |-> q.insn.write, recent |-> q.insn.write # NoReg,
             wr_cr |-> q.insn.cr_write, wr_ov |-> q.insn.ov_write, valid |-> TRUE]
       ELSE [base EXCEPT !.recent = base.recent /\ ~older]

Entry(insn) == [tag |-> curr_tag, reg |-> insn.write, cr |-> insn.cr_write,
                ov |-> insn.ov_write, sgl |-> insn.sgl]

(* control0 with rst = '0'.  prev_tag follows valid_out, also when execute   *)
(* has deferred the instruction.                                             *)
ControlEdge(res, q) ==
    LET issue == instr_tag(res, q).valid
        rest  == IF res.complete.valid THEN Tail(inflight) ELSE inflight
    IN /\ tag_regs' = [i \in Tag |-> TagAfter(res, q, i)]
       /\ curr_tag' = IF issue THEN next_tag ELSE curr_tag
       /\ curr_cr_tag' = IF issue /\ q.insn.cr_write THEN curr_tag ELSE curr_cr_tag
       /\ curr_ov_tag' = IF issue /\ q.insn.ov_write THEN curr_tag ELSE curr_ov_tag
       /\ prev_tag' = IF valid_out(res, q) THEN curr_tag ELSE prev_tag
       /\ inflight' = IF q.flush THEN <<>>
                      ELSE IF issue THEN Append(rest, Entry(q.insn)) ELSE rest

ControlInit ==
    /\ tag_regs = [i \in Tag |-> [reg |-> NoReg, recent |-> FALSE,
                                  wr_cr |-> FALSE, wr_ov |-> FALSE, valid |-> FALSE]]
    /\ curr_tag = 0
    /\ prev_tag = 0
    /\ curr_cr_tag = 0
    /\ curr_ov_tag = 0
    /\ inflight = <<>>

(* control0 with rst = '1'. *)
ControlReset ==
    /\ tag_regs' = [i \in Tag |-> Invalid(tag_regs[i])]
    /\ curr_tag' = 0
    /\ prev_tag' = 0
    /\ curr_cr_tag' = 0
    /\ curr_ov_tag' = 0
    /\ inflight' = <<>>

-----------------------------------------------------------------------------
(* The execution units, as far as control sees them: instructions complete   *)
(* in issue order, a bypass carries the result of an instruction in flight,  *)
(* and the first execute stage holds a younger one than the second, which    *)
(* holds a younger one than writeback.  Positions refer to inflight; 0 is no *)
(* bypass.  Module Pipeline shows that the units keep to this.               *)

GprWriters == {0} \cup {k \in DOMAIN inflight : inflight[k].reg # NoReg}
CrWriters  == {0} \cup {k \in DOMAIN inflight : inflight[k].cr}

Ordered(done, n1, n2) == (n2 # 0 => n2 > done) /\ (n1 # 0 => n1 > done /\ n1 > n2)

Bypass(n) == IF n = 0 THEN NoBypass
             ELSE [valid |-> TRUE, tag |-> inflight[n].tag, reg |-> inflight[n].reg]

CrTag(n) == IF n = 0 THEN NoTag ELSE [valid |-> TRUE, tag |-> inflight[n].tag]

ResultsAt(done, n1, n2, m1, m2) ==
    [complete |-> CrTag(done),
     x1 |-> Bypass(n1), x2 |-> Bypass(n2),
     wb |-> IF done = 1 /\ inflight[1].reg # NoReg THEN Bypass(1) ELSE NoBypass,
     xcr1 |-> CrTag(m1), xcr2 |-> CrTag(m2)]

Results == {ResultsAt(z[1], z[2], z[3], z[4], z[5]) : z \in
              {y \in {n \in {0, 1} : n <= Len(inflight)} \X GprWriters \X GprWriters
                        \X CrWriters \X CrWriters :
                  Ordered(y[1], y[2], y[3]) /\ Ordered(y[1], y[4], y[5])}}

(* Execute defers the instruction unless a tag is free. *)
Room(res, q) == Len(inflight) = TagCount => res.complete.valid \/ q.deferred

=============================================================================
