---------------------------- MODULE Decode2Proofs ----------------------------
(* Decode2 hands every instruction to execute with fresh operands, and its   *)
(* tags, scoreboard and serialisation are right, for every number of tags,   *)
(* every set of registers and every set of instructions.                     *)
EXTENDS Decode2, TLAPS

(* The scoreboard describes the instructions in flight: register, CR and OV  *)
(* flags agree, a recent writer is the youngest of its register, and every   *)
(* register with a writer in flight has a recent one.                        *)
Scoreboard ==
    \A k \in DOMAIN inflight :
        /\ tag_regs[inflight[k].tag].reg = inflight[k].reg
        /\ tag_regs[inflight[k].tag].wr_cr = inflight[k].cr
        /\ tag_regs[inflight[k].tag].wr_ov = inflight[k].ov
        /\ tag_regs[inflight[k].tag].recent =>
              /\ inflight[k].reg # NoReg
              /\ \A j \in DOMAIN inflight : inflight[j].reg = inflight[k].reg => j <= k
        /\ inflight[k].reg # NoReg =>
              \E j \in DOMAIN inflight : /\ inflight[j].reg = inflight[k].reg
                                         /\ tag_regs[inflight[j].tag].recent

IdleTags == \A t \in Tag : ~tag_regs[t].valid => ~tag_regs[t].wr_cr /\ ~tag_regs[t].wr_ov

(* curr_cr_tag and curr_ov_tag name the youngest writer of CR and of OV. *)
CrLast == \A k \in DOMAIN inflight : inflight[k].cr =>
             \E j \in DOMAIN inflight : /\ inflight[j].cr
                                        /\ inflight[j].tag = curr_cr_tag
                                        /\ \A i \in DOMAIN inflight : inflight[i].cr => i <= j

OvLast == \A k \in DOMAIN inflight : inflight[k].ov =>
             \E j \in DOMAIN inflight : /\ inflight[j].ov
                                        /\ inflight[j].tag = curr_ov_tag
                                        /\ \A i \in DOMAIN inflight : inflight[i].ov => i <= j

(* What TypeOK says of the queue of instructions in flight. *)
LEMMA InflightType ==
    TypeOK => /\ inflight \in Seq(EntryType)
              /\ Len(inflight) \in Nat
              /\ DOMAIN inflight = 1 .. Len(inflight)
              /\ \A k \in DOMAIN inflight : inflight[k] \in EntryType
  BY DEF TypeOK

(* Counting back from a tag, no two of TagCount places are the same. *)
LEMMA BehindDistinct ==
    ASSUME NEW t \in Tag, NEW a \in 1 .. TagCount, NEW b \in 1 .. TagCount,
           Behind(t, a) = Behind(t, b)
    PROVE  a = b
  BY TagAssumption DEF Behind, Tag

(* Two instructions in flight have different tags. *)
LEMMA TagsDistinct ==
    ASSUME TypeOK, TagWindow, NEW j \in DOMAIN inflight, NEW k \in DOMAIN inflight,
           inflight[j].tag = inflight[k].tag
    PROVE  j = k
  <1>1. curr_tag \in Tag BY DEF TypeOK
  <1>2. /\ Len(inflight) + 1 - j \in 1 .. TagCount
        /\ Len(inflight) + 1 - k \in 1 .. TagCount
    BY InflightType, TagAssumption DEF TagWindow
  <1>3. Behind(curr_tag, Len(inflight) + 1 - j) = Behind(curr_tag, Len(inflight) + 1 - k)
    BY DEF TagWindow
  <1>4. Len(inflight) + 1 - j = Len(inflight) + 1 - k BY <1>1, <1>2, <1>3, BehindDistinct
  <1> QED BY <1>4, InflightType

(* A tag in flight names one position of the queue. *)
LEMMA PosOfTag ==
    ASSUME TypeOK, TagWindow, NEW k \in DOMAIN inflight
    PROVE  PosOf(inflight[k].tag) = k
  BY TagsDistinct DEF PosOf

(* What the results of a cycle are. *)
LEMMA ResultShape ==
    ASSUME TypeOK, NEW res \in Results
    PROVE  \E done \in {0, 1}, n1, n2, m1, m2 \in 0 .. Len(inflight) :
              /\ done <= Len(inflight)
              /\ n1 # 0 => inflight[n1].reg # NoReg
              /\ n2 # 0 => inflight[n2].reg # NoReg
              /\ m1 # 0 => inflight[m1].cr
              /\ m2 # 0 => inflight[m2].cr
              /\ Ordered(done, n1, n2)
              /\ Ordered(done, m1, m2)
              /\ res = ResultsAt(done, n1, n2, m1, m2)
  <1>1. PICK z \in {n \in {0, 1} : n <= Len(inflight)} \X GprWriters \X GprWriters
                        \X CrWriters \X CrWriters :
            /\ Ordered(z[1], z[2], z[3])
            /\ Ordered(z[1], z[4], z[5])
            /\ res = ResultsAt(z[1], z[2], z[3], z[4], z[5])
    BY DEF Results
  <1>2. /\ z[1] \in {0, 1} /\ z[1] <= Len(inflight)
        /\ z[2] \in GprWriters /\ z[3] \in GprWriters
        /\ z[4] \in CrWriters /\ z[5] \in CrWriters
    BY <1>1
  <1>3. /\ GprWriters \subseteq 0 .. Len(inflight)
        /\ CrWriters \subseteq 0 .. Len(inflight)
    BY InflightType DEF GprWriters, CrWriters
  <1>4. /\ z[2] # 0 => inflight[z[2]].reg # NoReg
        /\ z[3] # 0 => inflight[z[3]].reg # NoReg
        /\ z[4] # 0 => inflight[z[4]].cr
        /\ z[5] # 0 => inflight[z[5]].cr
    BY <1>2 DEF GprWriters, CrWriters
  <1> QED BY ZenonT(40), <1>1, <1>2, <1>3, <1>4

(* For a general register, Writes compares the destination only. *)
LEMMA WritesReg ==
    ASSUME NEW r \in Reg, NEW e
    PROVE  Writes(e, r) <=> e.reg = r
  BY RegAssumption DEF Writes

(* The tags that the loops over tag_regs find for a register: at most one,   *)
(* that of its youngest writer.                                              *)
LEMMA HitIsYoungest ==
    ASSUME TypeOK, TagWindow, Scoreboard, NEW r \in Reg, NEW i \in Tag,
           tag_regs[i].valid, tag_regs[i].recent, tag_regs[i].reg = r
    PROVE  \E k \in DOMAIN inflight : /\ inflight[k].tag = i
                                      /\ inflight[k].reg = r
                                      /\ IsYoungest(k, Len(inflight), r)
  <1>1. PICK k \in DOMAIN inflight : inflight[k].tag = i BY DEF TagWindow
  <1>2. inflight[k].reg = r BY <1>1 DEF Scoreboard
  <1>3. \A j \in DOMAIN inflight : inflight[j].reg = r => j <= k BY <1>1, <1>2 DEF Scoreboard
  <1>4. \A j \in 1 .. Len(inflight) : Writes(inflight[j], r) => j <= k
    BY <1>3, InflightType, WritesReg
  <1>5. Writes(inflight[k], r) BY <1>2, WritesReg
  <1> QED BY <1>1, <1>2, <1>4, <1>5, InflightType DEF IsYoungest, YoungestIn

(* There is one youngest writer of a register. *)
LEMMA YoungestUnique ==
    ASSUME NEW n \in Nat, NEW p, NEW k, NEW cell, IsYoungest(p, n, cell), IsYoungest(k, n, cell)
    PROVE  p = k
  BY DEF IsYoungest, YoungestIn

(* A register without a pending tag is either free of writers in flight or   *)
(* its youngest writer is on a bypass or completing.                         *)
LEMMA PendingMeans ==
    ASSUME TypeOK, TagWindow, Scoreboard, NEW r \in Reg, NEW res, ~GprPending(res, r)
    PROVE  \/ \A k \in DOMAIN inflight : inflight[k].reg # r
           \/ \E k \in DOMAIN inflight :
                 /\ inflight[k].reg = r
                 /\ IsYoungest(k, Len(inflight), r)
                 /\ \/ EX1_BYPASS /\ res.x1.valid /\ res.x1.tag = inflight[k].tag
                    \/ EX1_BYPASS /\ res.x2.valid /\ res.x2.tag = inflight[k].tag
                    \/ res.complete.valid /\ res.complete.tag = inflight[k].tag
  <1> DEFINE hits == {i \in Tag : /\ tag_regs[i].valid
                                  /\ tag_regs[i].recent
                                  /\ tag_regs[i].reg = r}
             last == CHOOSE i \in hits : \A j \in hits : j <= i
  <1>1. CASE hits = {}
    <2> SUFFICES ASSUME NEW k \in DOMAIN inflight, inflight[k].reg = r PROVE FALSE
      OBVIOUS
    <2>1. PICK j \in DOMAIN inflight : /\ inflight[j].reg = inflight[k].reg
                                       /\ tag_regs[inflight[j].tag].recent
      BY RegAssumption DEF Scoreboard
    <2>2. tag_regs[inflight[j].tag].reg = r BY <2>1 DEF Scoreboard
    <2>3. inflight[j].tag \in Tag BY <2>1, InflightType DEF EntryType
    <2>4. tag_regs[inflight[j].tag].valid BY <2>1, <2>3 DEF TagWindow
    <2> QED BY <1>1, <2>1, <2>2, <2>3, <2>4
  <1>2. CASE hits # {}
    <2>1. PICK i \in hits : TRUE BY <1>2
    <2>2. PICK k \in DOMAIN inflight : /\ inflight[k].tag = i
                                       /\ inflight[k].reg = r
                                       /\ IsYoungest(k, Len(inflight), r)
      BY <2>1, HitIsYoungest
    <2>3. \A j \in hits : j = i
      <3> TAKE j \in hits
      <3>1. PICK l \in DOMAIN inflight : /\ inflight[l].tag = j
                                         /\ IsYoungest(l, Len(inflight), r)
        BY HitIsYoungest
      <3> QED BY <2>2, <3>1, YoungestUnique, InflightType
    <2>4. i <= i BY <2>1, TagAssumption DEF Tag
    <2>5. last = i BY <2>1, <2>3, <2>4
    <2>6. \/ EX1_BYPASS /\ res.x1.valid /\ res.x1.tag = last
          \/ EX1_BYPASS /\ res.x2.valid /\ res.x2.tag = last
          \/ res.complete.valid /\ res.complete.tag = last
      BY Zenon, <1>2 DEF GprPending, tag_match
    <2> QED BY Zenon, <2>2, <2>5, <2>6
  <1> QED BY <1>1, <1>2

(* The bypasses of a cycle, by position. *)
Offers(res, done, n1, n2) ==
    /\ done \in {0, 1} /\ done <= Len(inflight)
    /\ n1 \in 0 .. Len(inflight) /\ n2 \in 0 .. Len(inflight)
    /\ n1 # 0 => inflight[n1].reg # NoReg
    /\ n2 # 0 => inflight[n2].reg # NoReg
    /\ Ordered(done, n1, n2)
    /\ res.complete = CrTag(done)
    /\ res.x1 = Bypass(n1)
    /\ res.x2 = Bypass(n2)
    /\ res.wb = IF done = 1 /\ inflight[1].reg # NoReg THEN Bypass(1) ELSE NoBypass

(* Every set of results of the units has the shape Offers. *)
LEMMA ResultOffers ==
    ASSUME TypeOK, NEW res \in Results
    PROVE  \E done, n1, n2 : Offers(res, done, n1, n2)
  <1>1. PICK done \in {0, 1}, n1 \in 0 .. Len(inflight), n2 \in 0 .. Len(inflight),
             m1 \in 0 .. Len(inflight), m2 \in 0 .. Len(inflight) :
              /\ done <= Len(inflight)
              /\ n1 # 0 => inflight[n1].reg # NoReg
              /\ n2 # 0 => inflight[n2].reg # NoReg
              /\ Ordered(done, n1, n2)
              /\ res = ResultsAt(done, n1, n2, m1, m2)
    BY ResultShape
  <1>2. Offers(res, done, n1, n2) BY <1>1 DEF Offers, ResultsAt
  <1> QED BY <1>2

(* The operand of a register: the first of n1, n2 and the completing         *)
(* instruction that writes it.                                               *)
From1(r, n1) == EX1_BYPASS /\ n1 # 0 /\ inflight[n1].reg = r

(* Which value the bypasses, the completion or dc2 give for a register. *)
LEMMA BypassAt ==
    ASSUME TypeOK, TagWindow, NEW r \in Reg, NEW insn, NEW res, NEW done, NEW n1, NEW n2,
           Offers(res, done, n1, n2)
    PROVE  GprOperand(res, insn, r) =
              IF From1(r, n1) THEN n1
              ELSE IF From1(r, n2) THEN n2
              ELSE IF done = 1 /\ inflight[1].reg = r THEN 1
              ELSE IF dc2.busy THEN dc2.ops[r] ELSE 0
  <1> USE DEF From1
  <1>0. /\ done \in {0, 1} /\ done <= Len(inflight)
        /\ n1 \in 0 .. Len(inflight) /\ n2 \in 0 .. Len(inflight)
    BY DEF Offers
  <1>1. /\ res.x1 = Bypass(n1)
        /\ res.x2 = Bypass(n2)
        /\ res.wb = IF done = 1 /\ inflight[1].reg # NoReg THEN Bypass(1) ELSE NoBypass
    BY DEF Offers
  <1>2. \A n \in 0 .. Len(inflight) : n # 0 =>
            /\ Bypass(n).valid
            /\ Bypass(n).reg = inflight[n].reg
            /\ Bypass(n).tag = inflight[n].tag
            /\ PosOf(inflight[n].tag) = n
    BY PosOfTag, InflightType DEF Bypass
  <1>3. ~Bypass(0).valid /\ ~NoBypass.valid BY DEF Bypass, NoBypass
  <1>4. r # NoReg BY RegAssumption
  <1>5. done = 1 => 1 \in 0 .. Len(inflight) BY <1>0, InflightType
  <1>6. /\ res.x1.valid <=> n1 # 0
        /\ res.x2.valid <=> n2 # 0
        /\ res.wb.valid <=> done = 1 /\ inflight[1].reg # NoReg
    BY <1>0, <1>1, <1>2, <1>3, <1>5
  <1>7. /\ n1 # 0 => res.x1.reg = inflight[n1].reg /\ PosOf(res.x1.tag) = n1
        /\ n2 # 0 => res.x2.reg = inflight[n2].reg /\ PosOf(res.x2.tag) = n2
        /\ done = 1 /\ inflight[1].reg # NoReg =>
               res.wb.reg = inflight[1].reg /\ PosOf(res.wb.tag) = 1
    BY <1>0, <1>1, <1>2, <1>5
  <1>a. CASE EX1_BYPASS /\ n1 # 0 /\ inflight[n1].reg = r
    BY <1>a, <1>6, <1>7 DEF GprOperand, gpr_bypass
  <1>b. CASE /\ ~(EX1_BYPASS /\ n1 # 0 /\ inflight[n1].reg = r)
             /\ EX1_BYPASS /\ n2 # 0 /\ inflight[n2].reg = r
    <2>1. gpr_bypass(res, r) = "ex2" BY <1>b, <1>6, <1>7 DEF gpr_bypass
    <2> QED BY <1>b, <2>1, <1>7 DEF GprOperand
  <1>c. CASE /\ ~(EX1_BYPASS /\ n1 # 0 /\ inflight[n1].reg = r)
             /\ ~(EX1_BYPASS /\ n2 # 0 /\ inflight[n2].reg = r)
             /\ done = 1 /\ inflight[1].reg = r
    <2>1. gpr_bypass(res, r) = "wb" BY <1>c, <1>4, <1>6, <1>7 DEF gpr_bypass
    <2> QED BY <1>c, <1>4, <2>1, <1>7 DEF GprOperand
  <1>d. CASE /\ ~(EX1_BYPASS /\ n1 # 0 /\ inflight[n1].reg = r)
             /\ ~(EX1_BYPASS /\ n2 # 0 /\ inflight[n2].reg = r)
             /\ ~(done = 1 /\ inflight[1].reg = r)
    <2>1. gpr_bypass(res, r) = "rf" BY <1>d, <1>4, <1>6, <1>7 DEF gpr_bypass
    <2> QED BY <1>d, <2>1 DEF GprOperand
  <1> QED BY <1>a, <1>b, <1>c, <1>d

(* An operand that is not pending is taken from the youngest writer. *)
LEMMA GprFresh ==
    ASSUME TypeOK, TagWindow, Scoreboard, NEW r \in Reg, NEW insn, NEW res \in Results,
           ~GprPending(res, r),
           dc2.busy /\ (\A k \in DOMAIN inflight : inflight[k].reg # r) => dc2.ops[r] = 0
    PROVE  IsYoungest(GprOperand(res, insn, r), Len(inflight), r)
  <1>0. PICK done, n1, n2 : Offers(res, done, n1, n2) BY ResultOffers
  <1>1. /\ done \in {0, 1} /\ done <= Len(inflight)
        /\ n1 \in 0 .. Len(inflight) /\ n2 \in 0 .. Len(inflight)
        /\ Ordered(done, n1, n2)
    BY <1>0 DEF Offers
  <1>b. GprOperand(res, insn, r) =
              IF From1(r, n1) THEN n1
              ELSE IF From1(r, n2) THEN n2
              ELSE IF done = 1 /\ inflight[1].reg = r THEN 1
              ELSE IF dc2.busy THEN dc2.ops[r] ELSE 0
    BY <1>0, BypassAt
  <1>2. CASE \A k \in DOMAIN inflight : inflight[k].reg # r
    <2>1. /\ n1 # 0 => inflight[n1].reg # r
          /\ n2 # 0 => inflight[n2].reg # r
          /\ done = 1 => inflight[1].reg # r
      BY <1>1, <1>2, InflightType
    <2>2. GprOperand(res, insn, r) = IF dc2.busy THEN dc2.ops[r] ELSE 0
      BY <1>1, <1>b, <2>1 DEF From1
    <2>3. GprOperand(res, insn, r) = 0 BY <1>2, <2>2
    <2>4. \A k \in 1 .. Len(inflight) : ~Writes(inflight[k], r)
      BY <1>2, InflightType, WritesReg
    <2> QED BY <2>3, <2>4, InflightType DEF IsYoungest, YoungestIn
  <1>3. CASE \E k \in DOMAIN inflight :
                 /\ inflight[k].reg = r
                 /\ IsYoungest(k, Len(inflight), r)
                 /\ \/ EX1_BYPASS /\ res.x1.valid /\ res.x1.tag = inflight[k].tag
                    \/ EX1_BYPASS /\ res.x2.valid /\ res.x2.tag = inflight[k].tag
                    \/ res.complete.valid /\ res.complete.tag = inflight[k].tag
    <2>1. PICK k \in DOMAIN inflight :
                 /\ inflight[k].reg = r
                 /\ IsYoungest(k, Len(inflight), r)
                 /\ \/ EX1_BYPASS /\ res.x1.valid /\ res.x1.tag = inflight[k].tag
                    \/ EX1_BYPASS /\ res.x2.valid /\ res.x2.tag = inflight[k].tag
                    \/ res.complete.valid /\ res.complete.tag = inflight[k].tag
      BY <1>3
    <2>2. /\ k \in 1 .. Len(inflight)
          /\ \A j \in 1 .. Len(inflight) : inflight[j].reg = r => j <= k
      BY <2>1, InflightType, WritesReg DEF IsYoungest, YoungestIn
    <2>3. /\ n1 # 0 /\ inflight[n1].reg = r => n1 <= k
          /\ n2 # 0 /\ inflight[n2].reg = r => n2 <= k
      BY <1>1, <2>2, InflightType
    <2>4. \A n \in 0 .. Len(inflight) :
             /\ Bypass(n).valid /\ Bypass(n).tag = inflight[k].tag => n = k
             /\ CrTag(n).valid /\ CrTag(n).tag = inflight[k].tag => n = k
      BY <2>1, InflightType, TagsDistinct DEF Bypass, CrTag, NoBypass, NoTag
    <2>5. /\ res.x1 = Bypass(n1)
          /\ res.x2 = Bypass(n2)
          /\ res.complete = CrTag(done)
      BY <1>0 DEF Offers
    <2>6. \/ EX1_BYPASS /\ n1 = k
          \/ EX1_BYPASS /\ n2 = k
          \/ done = k
      <3>1. done \in 0 .. Len(inflight) BY <1>1, InflightType
      <3> QED BY <1>1, <2>1, <2>4, <2>5, <3>1
    <2>7. GprOperand(res, insn, r) = k
      <3>1. CASE EX1_BYPASS /\ n1 = k
        BY <1>b, <2>1, <2>2, <3>1 DEF From1
      <3>2. CASE EX1_BYPASS /\ n2 = k /\ ~(EX1_BYPASS /\ n1 = k)
        <4>1. ~(n1 # 0 /\ inflight[n1].reg = r)
          BY <1>1, <2>2, <2>3, <3>2, InflightType DEF Ordered
        <4>2. n2 # 0 BY <2>2, <3>2
        <4> QED BY <1>b, <2>1, <3>2, <4>1, <4>2 DEF From1
      <3>3. CASE done = k
        <4>1. ~(n1 # 0 /\ inflight[n1].reg = r) /\ ~(n2 # 0 /\ inflight[n2].reg = r)
          BY <1>1, <2>2, <2>3, <3>3, InflightType DEF Ordered
        <4>2. k = 1 /\ done = 1 BY <1>1, <2>2, <3>3
        <4> QED BY <1>b, <2>1, <4>1, <4>2 DEF From1
      <3> QED BY <2>6, <3>1, <3>2, <3>3
    <2> QED BY <2>1, <2>7
  <1> QED BY <1>2, <1>3, PendingMeans

(* The same for CR and for XER. *)
LEMMA CrFresh ==
    ASSUME TypeOK, TagWindow, Scoreboard, IdleTags, CrLast, NEW res \in Results, NEW insn,
           insn.cr_read, ~cr_tag_stall(res, insn)
    PROVE  IsYoungest(CrOperand(res, insn), Len(inflight), "CR")
  <1>1. PICK done \in {0, 1}, m1 \in 0 .. Len(inflight), m2 \in 0 .. Len(inflight) :
              /\ done <= Len(inflight)
              /\ res.complete = CrTag(done)
              /\ res.xcr1 = CrTag(m1)
              /\ res.xcr2 = CrTag(m2)
    BY ResultShape DEF ResultsAt
  <1>2. \A n \in 0 .. Len(inflight), k \in DOMAIN inflight :
            CrTag(n).valid /\ CrTag(n).tag = inflight[k].tag => n = k
    BY InflightType, TagsDistinct DEF CrTag, NoTag
  <1>3. done \in 0 .. Len(inflight) BY <1>1, InflightType
  <1>4. \A k \in DOMAIN inflight : Writes(inflight[k], "CR") <=> inflight[k].cr
    BY InflightType, RegAssumption DEF Writes, EntryType
  <1>5. res.complete.valid <=> done = 1
    BY <1>1 DEF CrTag, NoTag
  <1>6. curr_cr_tag \in Tag BY DEF TypeOK
  <1> DEFINE live == /\ tag_regs[curr_cr_tag].wr_cr
                     /\ ~(res.complete.valid /\ curr_cr_tag = res.complete.tag)
  <1>7. /\ tag_cr(res, insn).valid <=> live
        /\ tag_cr(res, insn).tag = curr_cr_tag
    BY Zenon DEF tag_cr, tag_match
  <1>8. CASE \A k \in DOMAIN inflight : ~inflight[k].cr
    <2>1. ~tag_regs[curr_cr_tag].wr_cr
      <3> SUFFICES ASSUME tag_regs[curr_cr_tag].wr_cr PROVE FALSE OBVIOUS
      <3>1. tag_regs[curr_cr_tag].valid BY <1>6 DEF IdleTags
      <3>2. PICK k \in DOMAIN inflight : inflight[k].tag = curr_cr_tag
        BY <1>6, <3>1 DEF TagWindow
      <3>3. tag_regs[curr_cr_tag].wr_cr = inflight[k].cr BY Zenon, <3>2 DEF Scoreboard
      <3> QED BY <1>8, <3>3
    <2>2. cr_bypass(res, insn) = "file" BY <1>7, <2>1 DEF cr_bypass, tag_match
    <2>3. FileOperand(res, "CR") = 0 BY <1>1, <1>4, <1>5, <1>8, InflightType DEF FileOperand
    <2>4. CrOperand(res, insn) = 0 BY <2>2, <2>3 DEF CrOperand
    <2> QED BY <1>4, <1>8, <2>4, InflightType DEF IsYoungest, YoungestIn
  <1>9. CASE \E k \in DOMAIN inflight : inflight[k].cr
    <2>1. PICK j \in DOMAIN inflight : /\ inflight[j].cr
                                       /\ inflight[j].tag = curr_cr_tag
                                       /\ \A i \in DOMAIN inflight : inflight[i].cr => i <= j
      BY <1>9 DEF CrLast
    <2>2. tag_regs[curr_cr_tag].wr_cr BY <2>1 DEF Scoreboard
    <2>3. IsYoungest(j, Len(inflight), "CR")
      BY <1>4, <2>1, InflightType DEF IsYoungest, YoungestIn
    <2>4. PosOf(curr_cr_tag) = j BY <2>1, PosOfTag
    <2>5. CrOperand(res, insn) = j
      <3>1. CASE ~live
        <4>1. done = 1 /\ curr_cr_tag = res.complete.tag BY <1>5, <2>2, <3>1
        <4>2. j = 1 BY <1>1, <1>2, <1>3, <1>5, <2>1, <4>1
        <4>3. cr_bypass(res, insn) = "file" BY <1>7, <3>1 DEF cr_bypass, tag_match
        <4>4. FileOperand(res, "CR") = 1 BY <1>4, <1>5, <2>1, <4>1, <4>2 DEF FileOperand
        <4> QED BY <4>2, <4>3, <4>4 DEF CrOperand
      <3>2. CASE live
        <4>1. cr_bypass(res, insn) # "file" BY <1>7, <3>2 DEF cr_tag_stall
        <4>2. CASE cr_bypass(res, insn) = "ex1"
          <5>1. res.xcr1.tag = curr_cr_tag BY <1>7, <4>2 DEF cr_bypass, tag_match
          <5> QED BY <2>4, <4>2, <5>1 DEF CrOperand
        <4>3. CASE cr_bypass(res, insn) = "ex2"
          <5>1. res.xcr2.tag = curr_cr_tag BY <1>7, <4>3 DEF cr_bypass, tag_match
          <5> QED BY <2>4, <4>3, <5>1 DEF CrOperand
        <4> QED BY <4>1, <4>2, <4>3 DEF cr_bypass
      <3> QED BY <3>1, <3>2
    <2> QED BY <2>3, <2>5
  <1> QED BY <1>8, <1>9

(* An XER operand that need not wait is that of its youngest writer. *)
LEMMA OvFresh ==
    ASSUME TypeOK, TagWindow, Scoreboard, IdleTags, OvLast, NEW res \in Results, NEW insn,
           insn.ov_read, ~ov_tag_stall(res, insn)
    PROVE  IsYoungest(FileOperand(res, "OV"), Len(inflight), "OV")
  <1>1. PICK done \in {0, 1} : done <= Len(inflight) /\ res.complete = CrTag(done)
    BY ResultShape DEF ResultsAt
  <1>2. res.complete.valid <=> done = 1
    BY <1>1 DEF CrTag, NoTag
  <1>3. done = 1 => res.complete.tag = inflight[1].tag /\ 1 \in DOMAIN inflight
    BY <1>1, InflightType DEF CrTag
  <1>4. \A k \in DOMAIN inflight : Writes(inflight[k], "OV") <=> inflight[k].ov
    BY InflightType, RegAssumption DEF Writes, EntryType
  <1>5. tag_regs[curr_ov_tag].wr_ov => done = 1 /\ curr_ov_tag = res.complete.tag
    BY Zenon, <1>2 DEF ov_tag_stall, tag_match
  <1>6. CASE \A k \in DOMAIN inflight : ~inflight[k].ov
    <2>1. FileOperand(res, "OV") = 0 BY <1>2, <1>3, <1>4, <1>6 DEF FileOperand
    <2> QED BY <1>4, <1>6, <2>1, InflightType DEF IsYoungest, YoungestIn
  <1>7. CASE \E k \in DOMAIN inflight : inflight[k].ov
    <2>1. PICK j \in DOMAIN inflight : /\ inflight[j].ov
                                       /\ inflight[j].tag = curr_ov_tag
                                       /\ \A i \in DOMAIN inflight : inflight[i].ov => i <= j
      BY <1>7 DEF OvLast
    <2>2. tag_regs[curr_ov_tag].wr_ov BY <2>1 DEF Scoreboard
    <2>3. j = 1 BY <1>3, <1>5, <2>1, <2>2, TagsDistinct
    <2>4. FileOperand(res, "OV") = 1 BY <1>2, <1>4, <1>5, <2>1, <2>2, <2>3 DEF FileOperand
    <2> QED BY <1>4, <2>1, <2>3, <2>4, InflightType DEF IsYoungest, YoungestIn
  <1> QED BY <1>6, <1>7

-----------------------------------------------------------------------------
(* What one clock edge does to the instructions in flight. *)

Done(res) == IF res.complete.valid THEN 1 ELSE 0

Issue(res, q) == instr_tag(res, q).valid

(* What completes is the oldest instruction in flight. *)
LEMMA CompleteIsHead ==
    ASSUME TypeOK, NEW res \in Results, res.complete.valid
    PROVE  /\ Len(inflight) >= 1
           /\ 1 \in DOMAIN inflight
           /\ res.complete.tag = inflight[1].tag
  <1>1. PICK done \in {0, 1} : done <= Len(inflight) /\ res.complete = CrTag(done)
    BY ResultShape DEF ResultsAt
  <1>2. done = 1 BY <1>1 DEF CrTag, NoTag
  <1> QED BY <1>1, <1>2, InflightType DEF CrTag

(* At most one instruction completes in a cycle. *)
LEMMA DoneType ==
    ASSUME TypeOK, NEW res \in Results
    PROVE  Done(res) \in {0, 1} /\ Done(res) <= Len(inflight)
  BY CompleteIsHead, InflightType DEF Done

(* An issued instruction enters the queue with the right type. *)
LEMMA EntryIsEntry ==
    ASSUME TypeOK, NEW insn \in InsnType
    PROVE  Entry(insn) \in EntryType
  BY DEF TypeOK, InsnType, Entry, EntryType

(* The instructions that stay move up by one if the oldest completes, and a  *)
(* new one goes to the end.                                                  *)
LEMMA InflightStep ==
    ASSUME TypeOK, NEW res \in Results, NEW q, q.insn \in InsnType, ~q.flush, ControlEdge(res, q)
    PROVE  /\ inflight' \in Seq(EntryType)
           /\ Len(inflight') \in Nat
           /\ DOMAIN inflight' = 1 .. Len(inflight')
           /\ Len(inflight') = Len(inflight) - Done(res) + (IF Issue(res, q) THEN 1 ELSE 0)
           /\ \A k \in 1 .. Len(inflight) - Done(res) : inflight'[k] = inflight[k + Done(res)]
           /\ Issue(res, q) => inflight'[Len(inflight')] = Entry(q.insn)
  <1> DEFINE rest == IF res.complete.valid THEN Tail(inflight) ELSE inflight
  <1>1. inflight' = IF Issue(res, q) THEN Append(rest, Entry(q.insn)) ELSE rest
    BY DEF ControlEdge, Issue
  <1>2. /\ inflight \in Seq(EntryType)
        /\ res.complete.valid => Len(inflight) >= 1
    BY InflightType, CompleteIsHead
  <1>3. /\ rest \in Seq(EntryType)
        /\ Len(rest) = Len(inflight) - Done(res)
        /\ \A k \in 1 .. Len(inflight) - Done(res) : rest[k] = inflight[k + Done(res)]
    <2>1. CASE res.complete.valid BY <1>2, <2>1 DEF Done
    <2>2. CASE ~res.complete.valid BY <1>2, <2>2 DEF Done
    <2> QED BY <2>1, <2>2
  <1>4. Entry(q.insn) \in EntryType BY EntryIsEntry
  <1> HIDE DEF rest
  <1>5. CASE Issue(res, q) BY <1>1, <1>3, <1>4, <1>5
  <1>6. CASE ~Issue(res, q) BY <1>1, <1>3, <1>6
  <1> QED BY <1>5, <1>6

(* Without an issue the queue only loses what completes. *)
LEMMA RestStep ==
    ASSUME TypeOK, NEW res \in Results, NEW q, q.insn \in InsnType, ~q.flush, ControlEdge(res, q),
           ~Issue(res, q)
    PROVE  /\ DOMAIN inflight' = 1 .. Len(inflight')
           /\ Len(inflight') = Len(inflight) - Done(res)
           /\ \A k \in 1 .. Len(inflight) - Done(res) : inflight'[k] = inflight[k + Done(res)]
  <1>1. Len(inflight') = Len(inflight) - Done(res) + 0 BY InflightStep
  <1>2. Len(inflight) \in Nat /\ Done(res) \in {0, 1} BY InflightType, DoneType
  <1>3. Len(inflight') = Len(inflight) - Done(res) BY <1>1, <1>2
  <1> QED BY <1>3, InflightStep

(* An issue adds one entry behind what stays. *)
LEMMA AppendStep ==
    ASSUME TypeOK, NEW res \in Results, NEW q, q.insn \in InsnType, ~q.flush, ControlEdge(res, q),
           Issue(res, q)
    PROVE  /\ Len(inflight') = Len(inflight) - Done(res) + 1
           /\ \A k \in 1 .. Len(inflight) - Done(res) : inflight'[k] = inflight[k + Done(res)]
  BY InflightStep

(* A committed value stays committed if nothing overwrites it. *)
LEMMA AgedZero ==
    ASSUME NEW res, NEW cell, res.complete.valid => ~Writes(inflight[1], cell)
    PROVE  Aged(res, 0, cell) = 0
  BY DEF Aged

(* A held position 1 becomes a register-file value when its writer retires.  *)
LEMMA AgedOne ==
    ASSUME NEW res, res.complete.valid, NEW cell
    PROVE  Aged(res, 1, cell) = 0
  BY DEF Aged

(* A captured operand that came from the youngest writer still does. *)
LEMMA AgedYoungest ==
    ASSUME TypeOK, NEW res \in Results, NEW p, NEW n \in Nat, NEW cell,
           IsYoungest(p, n, cell), Done(res) <= n,
           \A k \in 1 .. n - Done(res) : inflight'[k] = inflight[k + Done(res)]
    PROVE  YoungestIn(inflight', Aged(res, p, cell), n - Done(res), cell)
  <1>1. /\ p \in 0 .. n
        /\ p > 0 => Writes(inflight[p], cell)
        /\ \A k \in 1 .. n : Writes(inflight[k], cell) => k <= p
    BY DEF IsYoungest, YoungestIn
  <1>2. CASE ~res.complete.valid
    <2>1. Done(res) = 0 /\ Aged(res, p, cell) = p BY <1>2 DEF Done, Aged
    <2> QED BY <1>1, <2>1 DEF YoungestIn
  <1>3. CASE res.complete.valid
    <2>1. Done(res) = 1 BY <1>3 DEF Done
    <2>2. CASE p = 0
      <3>1. ~Writes(inflight[1], cell) BY <1>1, <2>1, <2>2
      <3>2. Aged(res, p, cell) = 0 BY <1>3, <2>2, <3>1 DEF Aged
      <3> QED BY <1>1, <2>1, <2>2, <3>2 DEF YoungestIn
    <2>3. CASE p > 0
      <3>1. Aged(res, p, cell) = p - 1 BY <1>3, <2>3 DEF Aged
      <3>2. p - 1 > 0 => inflight'[p - 1] = inflight[p] BY <1>1, <2>1
      <3>3. \A k \in 1 .. n - 1 : inflight'[k] = inflight[k + 1] BY <2>1
      <3>4. \A k \in 1 .. n - 1 : Writes(inflight'[k], cell) => k <= p - 1
        BY <1>1, <3>3
      <3> QED BY <1>1, <2>1, <2>3, <3>1, <3>2, <3>4 DEF YoungestIn
    <2> QED BY <1>1, <2>2, <2>3
  <1> QED BY <1>2, <1>3

(* What it does to the tag registers. *)
LEMMA TagIssued ==
    ASSUME TypeOK, NEW res, NEW q, ~q.flush, ControlEdge(res, q), Issue(res, q)
    PROVE  /\ tag_regs'[curr_tag].reg = q.insn.write
           /\ tag_regs'[curr_tag].recent <=> q.insn.write # NoReg
           /\ tag_regs'[curr_tag].wr_cr = q.insn.cr_write
           /\ tag_regs'[curr_tag].wr_ov = q.insn.ov_write
           /\ tag_regs'[curr_tag].valid
  <1>1. curr_tag \in Tag BY DEF TypeOK
  <1>2. tag_regs'[curr_tag] =
              [reg |-> q.insn.write, recent |-> q.insn.write # NoReg,
               wr_cr |-> q.insn.cr_write, wr_ov |-> q.insn.ov_write, valid |-> TRUE]
    BY <1>1 DEF ControlEdge, TagAfter, Issue
  <1>3. /\ tag_regs'[curr_tag].reg = q.insn.write
        /\ tag_regs'[curr_tag].wr_cr = q.insn.cr_write
        /\ tag_regs'[curr_tag].wr_ov = q.insn.ov_write
    BY <1>2
  <1>4. tag_regs'[curr_tag].valid = TRUE BY <1>2
  <1>5. tag_regs'[curr_tag].recent = (q.insn.write # NoReg) BY <1>2
  <1> QED BY Zenon, <1>3, <1>4, <1>5

(* What an edge does to a tag that is not the one issued. *)
LEMMA TagKept ==
    ASSUME TypeOK, NEW res, NEW q, ~q.flush, ControlEdge(res, q), NEW i \in Tag,
           ~(Issue(res, q) /\ i = curr_tag)
    PROVE  /\ tag_regs'[i].reg = tag_regs[i].reg
           /\ tag_regs'[i].recent <=>
                 /\ tag_regs[i].recent
                 /\ ~(Issue(res, q) /\ q.insn.write # NoReg /\ tag_regs[i].reg = q.insn.write)
           /\ ~(res.complete.valid /\ res.complete.tag = i) =>
                 /\ tag_regs'[i].wr_cr = tag_regs[i].wr_cr
                 /\ tag_regs'[i].wr_ov = tag_regs[i].wr_ov
                 /\ tag_regs'[i].valid = tag_regs[i].valid
           /\ res.complete.valid /\ res.complete.tag = i =>
                 ~tag_regs'[i].wr_cr /\ ~tag_regs'[i].wr_ov /\ ~tag_regs'[i].valid
  <1>1. tag_regs[i] \in TagRegister BY DEF TypeOK
  <1>2. tag_regs'[i] = TagAfter(res, q, i) BY DEF ControlEdge
  <1>3. CASE res.complete.valid /\ res.complete.tag = i
    BY ZenonT(40), <1>1, <1>2, <1>3 DEF TagAfter, Invalid, Issue, TagRegister
  <1>4. CASE ~(res.complete.valid /\ res.complete.tag = i)
    BY Zenon, <1>1, <1>2, <1>4 DEF TagAfter, Issue, TagRegister
  <1> QED BY <1>3, <1>4

(* Given Room, an issue finds a free tag. *)
LEMMA TagIsFree ==
    ASSUME TypeOK, TagWindow, NEW res \in Results, NEW q, Room(res, q), Issue(res, q)
    PROVE  Len(inflight) - Done(res) < TagCount
  <1>1. ~q.deferred BY Zenon DEF Issue, instr_tag
  <1>2. Len(inflight) = TagCount => res.complete.valid BY <1>1 DEF Room
  <1>3. Len(inflight) \in Nat /\ Len(inflight) <= TagCount BY InflightType DEF TagWindow
  <1>4. CASE res.complete.valid
    <2>1. Done(res) = 1 BY <1>4 DEF Done
    <2> QED BY <1>3, <2>1, TagAssumption
  <1>5. CASE ~res.complete.valid
    <2>1. Done(res) = 0 BY <1>5 DEF Done
    <2> QED BY <1>2, <1>3, <1>5, <2>1, TagAssumption
  <1> QED BY <1>4, <1>5

(* A tag that stays in flight is neither the completing one nor the one given out. *)
LEMMA StayingTag ==
    ASSUME TypeOK, TagWindow, NEW res \in Results, NEW q, Room(res, q),
           NEW k \in 1 .. Len(inflight) - Done(res)
    PROVE  /\ k + Done(res) \in DOMAIN inflight
           /\ inflight[k + Done(res)].tag \in Tag
           /\ ~(res.complete.valid /\ res.complete.tag = inflight[k + Done(res)].tag)
           /\ ~(Issue(res, q) /\ inflight[k + Done(res)].tag = curr_tag)
  <1>1. k + Done(res) \in DOMAIN inflight /\ Done(res) \in {0, 1} BY DoneType, InflightType
  <1>2. inflight[k + Done(res)].tag \in Tag BY <1>1, InflightType DEF EntryType
  <1>3. ~(res.complete.valid /\ res.complete.tag = inflight[k + Done(res)].tag)
    <2> SUFFICES ASSUME res.complete.valid, res.complete.tag = inflight[k + Done(res)].tag
                 PROVE FALSE
      OBVIOUS
    <2>1. Done(res) = 1 BY DEF Done
    <2>2. k + Done(res) = 1 BY <1>1, CompleteIsHead, TagsDistinct
    <2> QED BY <2>1, <2>2
  <1>4. ASSUME Issue(res, q), inflight[k + Done(res)].tag = curr_tag PROVE FALSE
    <2>2. Len(inflight) - Done(res) < TagCount BY <1>4, TagIsFree
    <2>3. curr_tag \in Tag BY DEF TypeOK
    <2>4. curr_tag = Behind(curr_tag, Len(inflight) + 1 - (k + Done(res)))
      BY <1>1, <1>4 DEF TagWindow
    <2>5. Len(inflight) + 1 - (k + Done(res)) \in 1 .. TagCount - 1
      BY <1>1, <2>2, InflightType, TagAssumption
    <2> QED BY <2>3, <2>4, <2>5, TagAssumption DEF Behind, Tag
  <1> QED BY <1>1, <1>2, <1>3, <1>4

(* Moving on to the next tag moves every place back by one. *)
LEMMA BehindNext ==
    ASSUME curr_tag \in Tag, NEW d \in 0 .. TagCount - 1
    PROVE  Behind(next_tag, d + 1) = Behind(curr_tag, d)
  BY TagAssumption DEF Behind, Tag, next_tag

(* TagWindow survives a clock edge without a flush. *)
LEMMA WindowStep ==
    ASSUME TypeOK, TagWindow, NEW res \in Results, NEW q, q.insn \in InsnType, ~q.flush,
           ControlEdge(res, q), Room(res, q)
    PROVE  TagWindow'
  <1> DEFINE done == Done(res)
             len == Len(inflight) - done
  <1>0. /\ done \in {0, 1} /\ len \in Nat
        /\ Len(inflight) \in Nat /\ DOMAIN inflight = 1 .. Len(inflight)
        /\ curr_tag \in Tag
        /\ len \in 0 .. TagCount
    BY DoneType, InflightType, TagAssumption DEF TypeOK, TagWindow
  <1>1. /\ DOMAIN inflight' = 1 .. Len(inflight')
        /\ Len(inflight') = len + (IF Issue(res, q) THEN 1 ELSE 0)
        /\ \A k \in 1 .. len : inflight'[k] = inflight[k + done]
        /\ Issue(res, q) => inflight'[Len(inflight')] = Entry(q.insn)
    BY InflightStep
  <1>2. Issue(res, q) => len < TagCount BY TagIsFree
  <1>3. curr_tag' = IF Issue(res, q) THEN next_tag ELSE curr_tag BY DEF ControlEdge, Issue
  <1>4. \A k \in 1 .. len : inflight[k + done].tag = Behind(curr_tag, len + 1 - k)
    BY <1>0 DEF TagWindow
  <1>5. \A k \in 1 .. len : /\ k + done \in DOMAIN inflight
                            /\ inflight[k + done].tag \in Tag
                            /\ ~(res.complete.valid /\ res.complete.tag = inflight[k + done].tag)
                            /\ ~(Issue(res, q) /\ inflight[k + done].tag = curr_tag)
    BY StayingTag
  <1> HIDE DEF done, len
  <1>6. Len(inflight') <= TagCount BY <1>0, <1>1, <1>2, TagAssumption
  <1>7. \A k \in DOMAIN inflight' :
            inflight'[k].tag = Behind(curr_tag', Len(inflight') + 1 - k)
    <2> TAKE k \in DOMAIN inflight'
    <2>1. CASE k \in 1 .. len /\ Issue(res, q)
      <3>1. len + 1 - k \in 0 .. TagCount - 1 BY <1>0, <1>2, <2>1, TagAssumption
      <3>2. Behind(next_tag, (len + 1 - k) + 1) = Behind(curr_tag, len + 1 - k)
        BY <1>0, <3>1, BehindNext
      <3>3. Len(inflight') + 1 - k = (len + 1 - k) + 1 BY <1>0, <1>1, <2>1
      <3> QED BY <1>1, <1>3, <1>4, <2>1, <3>2, <3>3
    <2>2. CASE k \in 1 .. len /\ ~Issue(res, q)
      BY <1>0, <1>1, <1>3, <1>4, <2>2
    <2>3. CASE k = len + 1 /\ Issue(res, q)
      <3>1. inflight'[k].tag = curr_tag BY <1>0, <1>1, <2>3 DEF Entry
      <3>2. Len(inflight') + 1 - k = 0 + 1 BY <1>0, <1>1, <2>3
      <3>3. Behind(next_tag, 0 + 1) = Behind(curr_tag, 0) BY <1>0, BehindNext, TagAssumption
      <3>4. Behind(curr_tag, 0) = curr_tag BY <1>0 DEF Behind, Tag
      <3> QED BY <1>3, <2>3, <3>1, <3>2, <3>3, <3>4
    <2> QED BY <1>0, <1>1, <2>1, <2>2, <2>3
  <1>8. \A t \in Tag : tag_regs'[t].valid <=> \E k \in DOMAIN inflight' : inflight'[k].tag = t
    <2> TAKE t \in Tag
    <2>1. CASE Issue(res, q) /\ t = curr_tag
      <3>1. tag_regs'[t].valid BY <2>1, TagIssued
      <3>2. Len(inflight') \in DOMAIN inflight' /\ inflight'[Len(inflight')].tag = t
        BY <1>0, <1>1, <2>1 DEF Entry
      <3> QED BY <3>1, <3>2
    <2>2. CASE ~(Issue(res, q) /\ t = curr_tag)
      <3>1. ASSUME tag_regs'[t].valid
            PROVE  \E k \in DOMAIN inflight' : inflight'[k].tag = t
        <4>1. /\ ~(res.complete.valid /\ res.complete.tag = t)
              /\ tag_regs[t].valid
          BY Zenon, <2>2, <3>1, TagKept
        <4>2. PICK k \in DOMAIN inflight : inflight[k].tag = t BY Zenon, <4>1 DEF TagWindow
        <4>3. k - done \in 1 .. len
          <5>1. done = 1 => k # 1
            BY <4>1, <4>2, CompleteIsHead DEF done, Done
          <5> QED BY <1>0, <4>2, <5>1 DEF len
        <4>4. inflight'[k - done] = inflight[(k - done) + done] BY <1>1, <4>3
        <4>5. (k - done) + done = k BY <1>0, <4>2
        <4>6. k - done \in DOMAIN inflight' BY <1>0, <1>1, <4>3
        <4> QED BY <4>2, <4>4, <4>5, <4>6
      <3>2. ASSUME NEW k \in DOMAIN inflight', inflight'[k].tag = t
            PROVE  tag_regs'[t].valid
        <4>1. k \in 1 .. len
          <5>1. k = len + 1 => Issue(res, q) /\ inflight'[k].tag = curr_tag
            BY <1>0, <1>1 DEF Entry
          <5> QED BY <1>0, <1>1, <2>2, <3>2, <5>1
        <4>2. inflight[k + done].tag = t BY Zenon, <1>1, <3>2, <4>1
        <4>3. tag_regs[t].valid BY <1>5, <4>1, <4>2 DEF TagWindow
        <4>4. ~(res.complete.valid /\ res.complete.tag = t) BY <1>5, <4>1, <4>2
        <4> QED BY <2>2, <4>3, <4>4, TagKept
      <3> QED BY <3>1, <3>2
    <2> QED BY <2>1, <2>2
  <1> QED BY <1>6, <1>7, <1>8 DEF TagWindow

(* Scoreboard survives a clock edge without a flush. *)
LEMMA ScoreboardStep ==
    ASSUME TypeOK, TagWindow, Scoreboard, NEW res \in Results, NEW q, q.insn \in InsnType,
           ~q.flush, ControlEdge(res, q), Room(res, q)
    PROVE  Scoreboard'
  <1> DEFINE done == Done(res)
             len == Len(inflight) - done
  <1>0. /\ done \in {0, 1} /\ len \in Nat
        /\ Len(inflight) \in Nat /\ DOMAIN inflight = 1 .. Len(inflight)
    BY DoneType, InflightType
  <1>1. /\ DOMAIN inflight' = 1 .. Len(inflight')
        /\ Len(inflight') = len + (IF Issue(res, q) THEN 1 ELSE 0)
        /\ \A k \in 1 .. len : inflight'[k] = inflight[k + done]
        /\ Issue(res, q) => inflight'[Len(inflight')] = Entry(q.insn)
    BY InflightStep
  <1>2. \A k \in 1 .. len :
            LET t == inflight[k + done].tag
            IN /\ k + done \in DOMAIN inflight
               /\ tag_regs'[t].reg = tag_regs[t].reg
               /\ tag_regs'[t].wr_cr = tag_regs[t].wr_cr
               /\ tag_regs'[t].wr_ov = tag_regs[t].wr_ov
               /\ tag_regs'[t].recent <=>
                     /\ tag_regs[t].recent
                     /\ ~(Issue(res, q) /\ q.insn.write # NoReg /\ tag_regs[t].reg = q.insn.write)
    BY StayingTag, TagKept
  <1> HIDE DEF done, len
  <1>3. \A j \in DOMAIN inflight' : j \in 1 .. len \/ (j = Len(inflight') /\ j = len + 1 /\ Issue(res, q))
    BY <1>0, <1>1
  <1>4. Issue(res, q) => /\ inflight'[Len(inflight')].reg = q.insn.write
                         /\ inflight'[Len(inflight')].tag = curr_tag
                         /\ inflight'[Len(inflight')].cr = q.insn.cr_write
                         /\ inflight'[Len(inflight')].ov = q.insn.ov_write
                         /\ Len(inflight') \in DOMAIN inflight'
    BY <1>0, <1>1 DEF Entry
  <1>5. Issue(res, q) =>
           /\ tag_regs'[curr_tag].reg = q.insn.write
           /\ tag_regs'[curr_tag].recent <=> q.insn.write # NoReg
           /\ tag_regs'[curr_tag].wr_cr = q.insn.cr_write
           /\ tag_regs'[curr_tag].wr_ov = q.insn.ov_write
    BY TagIssued
  <1> SUFFICES ASSUME NEW k \in DOMAIN inflight'
               PROVE  /\ tag_regs'[inflight'[k].tag].reg = inflight'[k].reg
                      /\ tag_regs'[inflight'[k].tag].wr_cr = inflight'[k].cr
                      /\ tag_regs'[inflight'[k].tag].wr_ov = inflight'[k].ov
                      /\ tag_regs'[inflight'[k].tag].recent =>
                           /\ inflight'[k].reg # NoReg
                           /\ \A j \in DOMAIN inflight' : inflight'[j].reg = inflight'[k].reg => j <= k
                      /\ inflight'[k].reg # NoReg =>
                           \E j \in DOMAIN inflight' : /\ inflight'[j].reg = inflight'[k].reg
                                                       /\ tag_regs'[inflight'[j].tag].recent
    BY Zenon DEF Scoreboard
  <1>6. CASE k = Len(inflight') /\ Issue(res, q)
    <2>1. /\ tag_regs'[inflight'[k].tag].reg = inflight'[k].reg
          /\ tag_regs'[inflight'[k].tag].wr_cr = inflight'[k].cr
          /\ tag_regs'[inflight'[k].tag].wr_ov = inflight'[k].ov
          /\ tag_regs'[inflight'[k].tag].recent <=> inflight'[k].reg # NoReg
      BY <1>4, <1>5, <1>6
    <2>2. \A j \in DOMAIN inflight' : j <= k BY <1>0, <1>1, <1>6
    <2> QED BY <2>1, <2>2
  <1>7. CASE k \in 1 .. len
    <2> DEFINE o == k + done
    <2>1. inflight'[k] = inflight[o] BY Zenon, <1>1, <1>7
    <2>2. /\ o \in DOMAIN inflight
          /\ tag_regs'[inflight[o].tag].reg = tag_regs[inflight[o].tag].reg
          /\ tag_regs'[inflight[o].tag].wr_cr = tag_regs[inflight[o].tag].wr_cr
          /\ tag_regs'[inflight[o].tag].wr_ov = tag_regs[inflight[o].tag].wr_ov
          /\ tag_regs'[inflight[o].tag].recent <=>
               /\ tag_regs[inflight[o].tag].recent
               /\ ~(Issue(res, q) /\ q.insn.write # NoReg /\ tag_regs[inflight[o].tag].reg = q.insn.write)
      BY Zenon, <1>2, <1>7
    <2>3. /\ tag_regs[inflight[o].tag].reg = inflight[o].reg
          /\ tag_regs[inflight[o].tag].wr_cr = inflight[o].cr
          /\ tag_regs[inflight[o].tag].wr_ov = inflight[o].ov
          /\ tag_regs[inflight[o].tag].recent =>
                /\ inflight[o].reg # NoReg
                /\ \A j \in DOMAIN inflight : inflight[j].reg = inflight[o].reg => j <= o
      BY Zenon, <2>2 DEF Scoreboard
    <2>4. ASSUME tag_regs'[inflight[o].tag].recent,
                 NEW j \in DOMAIN inflight', inflight'[j].reg = inflight[o].reg
          PROVE  j <= k
      <3>1. CASE j \in 1 .. len
        <4>1. inflight'[j] = inflight[j + done] /\ j + done \in DOMAIN inflight
          BY Zenon, <1>1, <1>2, <3>1
        <4>2. j + done <= o BY Zenon, <2>2, <2>3, <2>4, <4>1
        <4> QED BY <1>0, <1>7, <3>1, <4>2
      <3>2. CASE j = Len(inflight') /\ Issue(res, q)
        BY Zenon, <1>4, <2>2, <2>3, <2>4, <3>2
      <3> QED BY <1>3, <3>1, <3>2
    <2>5. ASSUME inflight[o].reg # NoReg
          PROVE  \E j \in DOMAIN inflight' : /\ inflight'[j].reg = inflight[o].reg
                                             /\ tag_regs'[inflight'[j].tag].recent
      <3>1. CASE Issue(res, q) /\ q.insn.write = inflight[o].reg
        BY <1>4, <1>5, <2>5, <3>1
      <3>2. CASE ~(Issue(res, q) /\ q.insn.write = inflight[o].reg)
        <4>1. PICK j \in DOMAIN inflight : /\ inflight[j].reg = inflight[o].reg
                                           /\ tag_regs[inflight[j].tag].recent
          BY Zenon, <2>2, <2>5 DEF Scoreboard
        <4>2. /\ tag_regs[inflight[j].tag].reg = inflight[j].reg
              /\ o <= j
          BY Zenon, <2>2, <4>1 DEF Scoreboard
        <4>3. j - done \in 1 .. len /\ (j - done) + done = j
          BY <1>0, <1>7, <4>1, <4>2 DEF len
        <4>4. inflight'[j - done] = inflight[j] BY Zenon, <1>1, <4>3
        <4>5. tag_regs'[inflight[j].tag].recent
          <5>1. tag_regs'[inflight[(j - done) + done].tag].recent <=>
                 /\ tag_regs[inflight[(j - done) + done].tag].recent
                 /\ ~(Issue(res, q) /\ q.insn.write # NoReg
                       /\ tag_regs[inflight[(j - done) + done].tag].reg = q.insn.write)
            BY Zenon, <1>2, <4>3
          <5> QED BY Zenon, <3>2, <4>1, <4>2, <4>3, <5>1
        <4>6. j - done \in DOMAIN inflight' BY <1>0, <1>1, <4>3
        <4> QED BY <4>1, <4>4, <4>5, <4>6
      <3> QED BY <3>1, <3>2
    <2> HIDE DEF o
    <2> QED BY Zenon, <2>1, <2>2, <2>3, <2>4, <2>5
  <1> QED BY <1>3, <1>6, <1>7

(* CrLast survives a clock edge without a flush. *)
LEMMA CrLastStep ==
    ASSUME TypeOK, CrLast, NEW res \in Results, NEW q, q.insn \in InsnType,
           ~q.flush, ControlEdge(res, q)
    PROVE  CrLast'
  <1> DEFINE done == Done(res)
             len == Len(inflight) - done
  <1>0. /\ done \in {0, 1} /\ len \in Nat
        /\ Len(inflight) \in Nat /\ DOMAIN inflight = 1 .. Len(inflight)
    BY DoneType, InflightType
  <1>1. /\ DOMAIN inflight' = 1 .. Len(inflight')
        /\ Len(inflight') = len + (IF Issue(res, q) THEN 1 ELSE 0)
        /\ \A k \in 1 .. len : inflight'[k] = inflight[k + done]
        /\ Issue(res, q) => inflight'[Len(inflight')] = Entry(q.insn)
    BY InflightStep
  <1>2. curr_cr_tag' = IF Issue(res, q) /\ q.insn.cr_write THEN curr_tag ELSE curr_cr_tag
    BY DEF ControlEdge, Issue
  <1>3. Issue(res, q) => /\ inflight'[Len(inflight')].tag = curr_tag
                         /\ inflight'[Len(inflight')].cr = q.insn.cr_write
    BY <1>1 DEF Entry
  <1> HIDE DEF len
  <1> SUFFICES ASSUME NEW k \in DOMAIN inflight', inflight'[k].cr
               PROVE  \E j \in DOMAIN inflight' :
                         /\ inflight'[j].cr
                         /\ inflight'[j].tag = curr_cr_tag'
                         /\ \A i \in DOMAIN inflight' : inflight'[i].cr => i <= j
    BY DEF CrLast
  <1>4. CASE Issue(res, q) /\ q.insn.cr_write
    <2>1. Len(inflight') \in DOMAIN inflight' /\ \A i \in DOMAIN inflight' : i <= Len(inflight')
      BY <1>0, <1>1, <1>4
    <2> QED BY Zenon, <1>2, <1>3, <1>4, <2>1
  <1>5. CASE ~(Issue(res, q) /\ q.insn.cr_write)
    <2>1. \A i \in DOMAIN inflight' : inflight'[i].cr =>
              /\ i \in 1 .. len
              /\ i + done \in DOMAIN inflight
              /\ inflight'[i] = inflight[i + done]
      BY <1>0, <1>1, <1>3, <1>5 DEF len
    <2>2. inflight[k + done].cr BY <2>1
    <2>3. PICK j \in DOMAIN inflight : /\ inflight[j].cr
                                       /\ inflight[j].tag = curr_cr_tag
                                       /\ \A i \in DOMAIN inflight : inflight[i].cr => i <= j
      BY <2>1, <2>2 DEF CrLast
    <2>4. k + done <= j /\ k \in 1 .. len BY <2>1, <2>2, <2>3
    <2>5. j - done \in 1 .. len /\ (j - done) + done = j
      BY <1>0, <2>3, <2>4 DEF len
    <2>6. inflight'[j - done] = inflight[j] /\ j - done \in DOMAIN inflight'
      BY <1>0, <1>1, <2>5
    <2>7. \A i \in DOMAIN inflight' : inflight'[i].cr => i <= j - done
      <3> TAKE i \in DOMAIN inflight'
      <3> HAVE inflight'[i].cr
      <3>1. i + done <= j BY <2>1, <2>3
      <3> QED BY <1>0, <2>1, <2>3, <3>1
    <2> QED BY <1>2, <1>5, <2>3, <2>6, <2>7
  <1> QED BY <1>4, <1>5

(* OvLast survives a clock edge without a flush. *)
LEMMA OvLastStep ==
    ASSUME TypeOK, OvLast, NEW res \in Results, NEW q, q.insn \in InsnType,
           ~q.flush, ControlEdge(res, q)
    PROVE  OvLast'
  <1> DEFINE done == Done(res)
             len == Len(inflight) - done
  <1>0. /\ done \in {0, 1} /\ len \in Nat
        /\ Len(inflight) \in Nat /\ DOMAIN inflight = 1 .. Len(inflight)
    BY DoneType, InflightType
  <1>1. /\ DOMAIN inflight' = 1 .. Len(inflight')
        /\ Len(inflight') = len + (IF Issue(res, q) THEN 1 ELSE 0)
        /\ \A k \in 1 .. len : inflight'[k] = inflight[k + done]
        /\ Issue(res, q) => inflight'[Len(inflight')] = Entry(q.insn)
    BY InflightStep
  <1>2. curr_ov_tag' = IF Issue(res, q) /\ q.insn.ov_write THEN curr_tag ELSE curr_ov_tag
    BY DEF ControlEdge, Issue
  <1>3. Issue(res, q) => /\ inflight'[Len(inflight')].tag = curr_tag
                         /\ inflight'[Len(inflight')].ov = q.insn.ov_write
    BY <1>1 DEF Entry
  <1> HIDE DEF len
  <1> SUFFICES ASSUME NEW k \in DOMAIN inflight', inflight'[k].ov
               PROVE  \E j \in DOMAIN inflight' :
                         /\ inflight'[j].ov
                         /\ inflight'[j].tag = curr_ov_tag'
                         /\ \A i \in DOMAIN inflight' : inflight'[i].ov => i <= j
    BY DEF OvLast
  <1>4. CASE Issue(res, q) /\ q.insn.ov_write
    <2>1. Len(inflight') \in DOMAIN inflight' /\ \A i \in DOMAIN inflight' : i <= Len(inflight')
      BY <1>0, <1>1, <1>4
    <2> QED BY Zenon, <1>2, <1>3, <1>4, <2>1
  <1>5. CASE ~(Issue(res, q) /\ q.insn.ov_write)
    <2>1. \A i \in DOMAIN inflight' : inflight'[i].ov =>
              /\ i \in 1 .. len
              /\ i + done \in DOMAIN inflight
              /\ inflight'[i] = inflight[i + done]
      BY <1>0, <1>1, <1>3, <1>5 DEF len
    <2>2. inflight[k + done].ov BY <2>1
    <2>3. PICK j \in DOMAIN inflight : /\ inflight[j].ov
                                       /\ inflight[j].tag = curr_ov_tag
                                       /\ \A i \in DOMAIN inflight : inflight[i].ov => i <= j
      BY <2>1, <2>2 DEF OvLast
    <2>4. k + done <= j /\ k \in 1 .. len BY <2>1, <2>2, <2>3
    <2>5. j - done \in 1 .. len /\ (j - done) + done = j
      BY <1>0, <2>3, <2>4 DEF len
    <2>6. inflight'[j - done] = inflight[j] /\ j - done \in DOMAIN inflight'
      BY <1>0, <1>1, <2>5
    <2>7. \A i \in DOMAIN inflight' : inflight'[i].ov => i <= j - done
      <3> TAKE i \in DOMAIN inflight'
      <3> HAVE inflight'[i].ov
      <3>1. i + done <= j BY <2>1, <2>3
      <3> QED BY <1>0, <2>1, <2>3, <3>1
    <2> QED BY <1>2, <1>5, <2>3, <2>6, <2>7
  <1> QED BY <1>4, <1>5

(* IdleTags survives a clock edge without a flush. *)
LEMMA IdleTagsStep ==
    ASSUME TypeOK, IdleTags, NEW res \in Results, NEW q, ~q.flush, ControlEdge(res, q)
    PROVE  IdleTags'
  <1> SUFFICES ASSUME NEW t \in Tag, ~tag_regs'[t].valid
               PROVE  ~tag_regs'[t].wr_cr /\ ~tag_regs'[t].wr_ov
    BY DEF IdleTags
  <1>1. ~(Issue(res, q) /\ t = curr_tag) BY TagIssued
  <1>2. CASE res.complete.valid /\ res.complete.tag = t BY <1>1, <1>2, TagKept
  <1>3. CASE ~(res.complete.valid /\ res.complete.tag = t)
    <2>1. /\ tag_regs'[t].wr_cr = tag_regs[t].wr_cr
          /\ tag_regs'[t].wr_ov = tag_regs[t].wr_ov
          /\ tag_regs'[t].valid = tag_regs[t].valid
      BY Zenon, <1>1, <1>3, TagKept
    <2> QED BY <2>1 DEF IdleTags
  <1> QED BY <1>2, <1>3

(* A flush or a reset leaves nothing in flight. *)
LEMMA FlushStep ==
    ASSUME TypeOK, inflight' = <<>>, tag_regs' = [i \in Tag |-> Invalid(tag_regs[i])]
    PROVE  TagWindow' /\ Scoreboard' /\ IdleTags' /\ CrLast' /\ OvLast'
  <1>1. Len(inflight') = 0 /\ DOMAIN inflight' = {} OBVIOUS
  <1>2. \A t \in Tag : ~tag_regs'[t].valid /\ ~tag_regs'[t].wr_cr /\ ~tag_regs'[t].wr_ov
    BY Zenon DEF TypeOK, TagRegister, Invalid
  <1>3. TagWindow' BY <1>1, <1>2, TagAssumption DEF TagWindow
  <1>4. Scoreboard' BY <1>1 DEF Scoreboard
  <1>5. IdleTags' BY <1>2 DEF IdleTags
  <1>6. CrLast' BY <1>1 DEF CrLast
  <1>7. OvLast' BY <1>1 DEF OvLast
  <1> QED BY <1>3, <1>4, <1>5, <1>6, <1>7

-----------------------------------------------------------------------------
(* Type correctness. *)

(* The empty slot has the type of an instruction. *)
LEMMA NoInsnType == NoInsn \in InsnType
  BY DEF NoInsn, InsnType

(* Every instruction of the constant Insns has the type. *)
LEMMA InsnsType == Insns \subseteq InsnType
  BY InsnAssumption DEF InsnType

(* The initial state has the right types. *)
LEMMA InitType == Init => TypeOK
  <1> SUFFICES ASSUME Init PROVE TypeOK OBVIOUS
  <1>1. 0 \in Tag BY TagAssumption DEF Tag
  <1>2. tag_regs \in [Tag -> TagRegister] BY DEF Init, ControlInit, TagRegister
  <1>3. inflight \in Seq(EntryType) BY DEF Init, ControlInit
  <1>4. d_in \in [valid : BOOLEAN, insn : InsnType, stop_mark : BOOLEAN]
    BY NoInsnType DEF Init, Bubble
  <1>5. dc2 \in [valid : BOOLEAN, busy : BOOLEAN, insn : InsnType,
                sgl_pipe : BOOLEAN, prev_sgl : BOOLEAN, ops : [Cell -> Int]]
    BY NoInsnType DEF Init, Empty
  <1> QED BY Zenon, <1>1, <1>2, <1>3, <1>4, <1>5 DEF TypeOK, Init, ControlInit

(* The types of what decode2 asks control for. *)
LEMMA RequestType ==
    ASSUME TypeOK, NEW busy_in \in BOOLEAN, NEW flush \in BOOLEAN
    PROVE  /\ Request(busy_in, flush).insn = insn_in
           /\ insn_in \in InsnType
           /\ Request(busy_in, flush).flush = flush
           /\ Request(busy_in, flush).flush \in BOOLEAN
           /\ sgl_in \in BOOLEAN
           /\ psgl_in \in BOOLEAN
  BY DEF TypeOK, Request, insn_in, sgl_in, psgl_in, InsnType

(* An operand is a position, 0 or Stale. *)
LEMMA OpsType ==
    ASSUME TypeOK, TagWindow, NEW res \in Results, NEW insn, NEW cell \in Cell
    PROVE  Aged(res, Operand(res, insn, cell), cell) \in Int
  <1>0. PICK done, n1, n2 : Offers(res, done, n1, n2) BY ResultOffers
  <1>1. cell \in Reg => GprOperand(res, insn, cell) \in Int
    <2> SUFFICES ASSUME cell \in Reg PROVE GprOperand(res, insn, cell) \in Int OBVIOUS
    <2>1. GprOperand(res, insn, cell) =
              IF From1(cell, n1) THEN n1
              ELSE IF From1(cell, n2) THEN n2
              ELSE IF done = 1 /\ inflight[1].reg = cell THEN 1
              ELSE IF dc2.busy THEN dc2.ops[cell] ELSE 0
      BY <1>0, BypassAt
    <2>2. dc2.ops[cell] \in Int BY DEF TypeOK
    <2> QED BY <1>0, <2>1, <2>2, InflightType DEF Offers
  <1>2. FileOperand(res, "CR") \in Int /\ FileOperand(res, "OV") \in Int BY DEF FileOperand
  <1>3. CrOperand(res, insn) \in Int
    <2>1. PICK m1 \in 0 .. Len(inflight), m2 \in 0 .. Len(inflight) :
              res.xcr1 = CrTag(m1) /\ res.xcr2 = CrTag(m2)
      BY ResultShape DEF ResultsAt
    <2>2. \A m \in 0 .. Len(inflight) : CrTag(m).valid => PosOf(CrTag(m).tag) = m
      BY PosOfTag, InflightType DEF CrTag, NoTag
    <2>3. cr_bypass(res, insn) = "ex1" => PosOf(res.xcr1.tag) = m1
      BY <2>1, <2>2 DEF cr_bypass, tag_match
    <2>4. cr_bypass(res, insn) = "ex2" => PosOf(res.xcr2.tag) = m2
      BY <2>1, <2>2 DEF cr_bypass, tag_match
    <2> QED BY <1>2, <2>3, <2>4, InflightType DEF CrOperand
  <1>4. Operand(res, insn, cell) \in Int
    BY <1>1, <1>2, <1>3, RegAssumption DEF Operand, Cell
  <1> QED BY <1>4 DEF Aged, Stale

(* TypeOK survives a clock edge. *)
LEMMA TypeStep ==
    ASSUME TypeOK, TagWindow, NEW res \in Results, NEW busy_in \in BOOLEAN, NEW flush \in BOOLEAN,
           NEW f \in FromDecode1, Clock(res, busy_in, flush, f)
    PROVE  TypeOK'
  <1> DEFINE q == Request(busy_in, flush)
  <1>0. ControlEdge(res, q) /\ Dc2Edge(res, q) /\ D1Edge(q, f) BY DEF Clock
  <1>q. q.insn = insn_in /\ insn_in \in InsnType /\ q.flush \in BOOLEAN
    BY RequestType
  <1> HIDE DEF q
  <1>1. tag_regs' \in [Tag -> TagRegister]
    <2>1. \A i \in Tag : tag_regs[i] \in TagRegister BY DEF TypeOK
    <2>2. q.insn \in InsnType BY <1>q
    <2>3. ASSUME NEW i \in Tag PROVE TagAfter(res, q, i) \in TagRegister
      <3>1. Invalid(tag_regs[i]) \in TagRegister BY ZenonT(40), <2>1 DEF Invalid, TagRegister
      <3>2. ASSUME NEW b \in TagRegister, NEW x \in BOOLEAN
            PROVE  [b EXCEPT !.recent = x] \in TagRegister
        BY DEF TagRegister
      <3>3. ASSUME NEW x \in BOOLEAN
            PROVE  [reg |-> q.insn.write, recent |-> x, wr_cr |-> q.insn.cr_write,
                    wr_ov |-> q.insn.ov_write, valid |-> TRUE] \in TagRegister
        BY Zenon, <2>2 DEF TagRegister, InsnType
      <3>4. (q.insn.write # NoReg) \in BOOLEAN OBVIOUS
      <3> QED BY Zenon, <2>1, <3>1, <3>2, <3>3, <3>4 DEF TagAfter
    <2> QED BY <1>0, <2>3 DEF ControlEdge
  <1>2. /\ curr_tag' \in Tag /\ prev_tag' \in Tag
        /\ curr_cr_tag' \in Tag /\ curr_ov_tag' \in Tag
    BY <1>0, TagAssumption DEF TypeOK, ControlEdge, next_tag, Tag
  <1>3. inflight' \in Seq(EntryType)
    <2>1. CASE q.flush BY <1>0, <2>1 DEF ControlEdge
    <2>2. CASE ~q.flush BY Zenon, <1>0, <1>q, <2>2, InflightStep
    <2> QED BY <2>1, <2>2
  <1>4. d_in' \in [valid : BOOLEAN, insn : InsnType, stop_mark : BOOLEAN]
    <2>1. f \in [valid : BOOLEAN, insn : InsnType, stop_mark : BOOLEAN]
      <3>1. CASE f \in {Bubble(b) : b \in BOOLEAN}
        <4>1. PICK b \in BOOLEAN : f = Bubble(b) BY <3>1
        <4> QED BY <4>1, NoInsnType DEF Bubble
      <3>2. CASE f \in {[valid |-> TRUE, insn |-> i, stop_mark |-> FALSE] : i \in Insns}
        <4>1. PICK i \in Insns : f = [valid |-> TRUE, insn |-> i, stop_mark |-> FALSE] BY <3>2
        <4>2. i \in InsnType BY InsnsType
        <4> QED BY <4>1, <4>2
      <3> QED BY Zenon, <3>1, <3>2 DEF FromDecode1
    <2>2. Bubble(d_in.stop_mark) \in [valid : BOOLEAN, insn : InsnType, stop_mark : BOOLEAN]
      BY NoInsnType DEF Bubble, TypeOK
    <2> QED BY <1>0, <2>1, <2>2 DEF D1Edge, TypeOK
  <1>5. dc2' \in [valid : BOOLEAN, busy : BOOLEAN, insn : InsnType,
                  sgl_pipe : BOOLEAN, prev_sgl : BOOLEAN, ops : [Cell -> Int]]
    <2>1. CASE q.flush
      <3>1. dc2' = Empty BY <1>0, <2>1 DEF Dc2Edge
      <3> QED BY <3>1, NoInsnType DEF Empty
    <2>2. CASE ~q.flush /\ q.deferred
      <3>1. dc2' = [dc2 EXCEPT !.ops = KeptOps(res)] BY <1>0, <2>2 DEF Dc2Edge
      <3>2. dc2.ops \in [Cell -> Int] BY DEF TypeOK
      <3>3. KeptOps(res) \in [Cell -> Int] BY <3>2 DEF KeptOps, Aged, Stale
      <3> QED BY Zenon, <3>1, <3>3 DEF TypeOK
    <2>3. CASE ~q.flush /\ ~q.deferred
      <3>1. dc2' = [valid |-> valid_out(res, q),
                 busy  |-> q.valid /\ ~valid_out(res, q),
                 insn  |-> q.insn,
                 sgl_pipe |-> sgl_in, prev_sgl |-> psgl_in,
                 ops |-> NewOps(res, q.insn)]
        BY <1>0, <2>3 DEF Dc2Edge
      <3>2. NewOps(res, q.insn) \in [Cell -> Int] BY OpsType DEF NewOps
      <3>3. valid_out(res, q) \in BOOLEAN BY DEF valid_out
      <3>4. sgl_in \in BOOLEAN /\ psgl_in \in BOOLEAN BY RequestType
      <3> QED BY <1>q, <3>1, <3>2, <3>3, <3>4
    <2> QED BY <2>1, <2>2, <2>3
  <1> QED BY <1>1, <1>2, <1>3, <1>4, <1>5 DEF TypeOK

(* TypeOK survives a reset. *)
LEMMA ResetType ==
    ASSUME TypeOK, Reset
    PROVE  TypeOK'
  <1>1. 0 \in Tag BY TagAssumption DEF Tag
  <1>2. tag_regs' \in [Tag -> TagRegister] BY ZenonT(40) DEF TypeOK, Reset, ControlReset, TagRegister, Invalid
  <1>3. inflight' \in Seq(EntryType) BY DEF Reset, ControlReset
  <1>4. (d_in \in [valid : BOOLEAN, insn : InsnType, stop_mark : BOOLEAN])'
    BY NoInsnType DEF Reset, Bubble
  <1>5. (dc2 \in [valid : BOOLEAN, busy : BOOLEAN, insn : InsnType,
                sgl_pipe : BOOLEAN, prev_sgl : BOOLEAN, ops : [Cell -> Int]])'
    BY NoInsnType DEF Reset, Empty
  <1> QED BY Zenon, <1>1, <1>2, <1>3, <1>4, <1>5 DEF TypeOK, Reset, ControlReset

-----------------------------------------------------------------------------
(* Operands and serialisation. *)

(* An operand gathered for an instruction that waits is the committed value  *)
(* if no writer of the register is in flight.                                *)
HeldOps == dc2.busy => \A r \in dc2.insn.reads :
              (\A k \in DOMAIN inflight : inflight[k].reg # r) => dc2.ops[r] = 0

(* An instruction is not both waiting and handed over; the one that waits    *)
(* set sgl_pipe.                                                             *)
HeldInsn == /\ ~(dc2.valid /\ dc2.busy)
            /\ dc2.busy => (dc2.insn.sgl <=> dc2.sgl_pipe)

(* decode2 remembers the sgl_pipe bit of the last instruction it issued. *)
LastSgl == inflight # <<>> /\ inflight[Len(inflight)].sgl =>
              IF dc2.busy THEN dc2.prev_sgl ELSE dc2.sgl_pipe

(* prev_tag is the tag of the last instruction issued, unless it has moved   *)
(* on to that of a deferred instruction, which then is not serialised.       *)
PrevLast == \/ inflight = <<>>
            \/ prev_tag = inflight[Len(inflight)].tag
            \/ (d_in.valid \/ dc2.busy) /\ ~sgl_in /\ ~psgl_in

IInv == /\ TypeOK /\ TagWindow /\ Scoreboard /\ IdleTags /\ CrLast /\ OvLast
        /\ HeldOps /\ HeldInsn /\ LastSgl /\ PrevLast
        /\ OperandsFresh /\ SglAlone

(* The fields of what decode2 asks control for. *)
LEMMA RequestMeans ==
    ASSUME NEW busy_in, NEW flush
    PROVE  /\ Request(busy_in, flush).valid <=> d_in.valid \/ dc2.busy
           /\ Request(busy_in, flush).deferred <=> dc2.valid /\ busy_in
           /\ Request(busy_in, flush).serialize <=> sgl_in \/ psgl_in
           /\ Request(busy_in, flush).insn = insn_in
           /\ Request(busy_in, flush).flush = flush
  BY Zenon DEF Request

(* What an instruction reads: its registers, CR and XER. *)
LEMMA ReadsCells ==
    ASSUME NEW insn \in InsnType
    PROVE  /\ Reads(insn) \subseteq Cell
           /\ \A cell \in Reads(insn) : \/ cell \in insn.reads /\ cell \in Reg
                                        \/ cell = "CR" /\ insn.cr_read
                                        \/ cell = "OV" /\ insn.ov_read
  BY DEF Reads, InsnType, Cell

(* Every operand of an instruction that may go is fresh. *)
LEMMA OperandYoungest ==
    ASSUME TypeOK, TagWindow, Scoreboard, IdleTags, CrLast, OvLast, HeldOps,
           NEW res \in Results, NEW q, q.insn = insn_in, valid_out(res, q),
           NEW cell \in Reads(q.insn)
    PROVE  IsYoungest(Operand(res, q.insn, cell), Len(inflight), cell)
  <1>1. q.insn \in InsnType BY DEF TypeOK, insn_in
  <1>2. CASE cell \in q.insn.reads /\ cell \in Reg
    <2>1. ~GprPending(res, cell) BY <1>2 DEF valid_out, gpr_tag_stall
    <2>2. dc2.busy /\ (\A k \in DOMAIN inflight : inflight[k].reg # cell) => dc2.ops[cell] = 0
      BY <1>2 DEF HeldOps, insn_in
    <2>3. IsYoungest(GprOperand(res, q.insn, cell), Len(inflight), cell)
      BY Zenon, <1>2, <2>1, <2>2, GprFresh
    <2>4. Operand(res, q.insn, cell) = GprOperand(res, q.insn, cell)
      BY <1>2, RegAssumption DEF Operand
    <2> QED BY <2>3, <2>4
  <1>3. CASE cell = "CR" /\ q.insn.cr_read
    <2>1. ~cr_tag_stall(res, q.insn) BY DEF valid_out
    <2>2. IsYoungest(CrOperand(res, q.insn), Len(inflight), "CR") BY <1>3, <2>1, CrFresh
    <2> QED BY <1>3, <2>2 DEF Operand
  <1>4. CASE cell = "OV" /\ q.insn.ov_read
    <2>1. ~ov_tag_stall(res, q.insn) BY DEF valid_out
    <2>2. IsYoungest(FileOperand(res, "OV"), Len(inflight), "OV") BY <1>4, <2>1, OvFresh
    <2> QED BY <1>4, <2>2 DEF Operand
  <1> QED BY Zenon, <1>1, <1>2, <1>3, <1>4, ReadsCells

(* OperandsFresh survives a clock edge. *)
LEMMA FreshStep ==
    ASSUME IInv, NEW res \in Results, NEW busy_in \in BOOLEAN, NEW flush \in BOOLEAN,
           NEW f \in FromDecode1, Clock(res, busy_in, flush, f)
    PROVE  OperandsFresh'
  <1> DEFINE q == Request(busy_in, flush)
  <1>0. /\ ControlEdge(res, q) /\ Dc2Edge(res, q) /\ Retirable(res)
    BY DEF Clock
  <1>q. /\ q.insn = insn_in /\ insn_in \in InsnType
        /\ q.deferred <=> dc2.valid /\ busy_in
    BY RequestMeans, RequestType DEF IInv
  <1>t. /\ TypeOK /\ TagWindow /\ Scoreboard /\ IdleTags /\ CrLast /\ OvLast
        /\ HeldOps /\ OperandsFresh
    BY DEF IInv
  <1>n. Len(inflight) \in Nat /\ DOMAIN inflight = 1 .. Len(inflight) /\ Done(res) \in {0, 1}
        /\ Done(res) <= Len(inflight)
    BY <1>t, InflightType, DoneType
  <1> HIDE DEF q
  <1>1. CASE q.flush
    <2>1. ~dc2'.valid BY <1>0, <1>1 DEF Dc2Edge, Empty
    <2> QED BY <2>1 DEF OperandsFresh
  <1>2. CASE ~q.flush /\ q.deferred
    <2>1. dc2' = [dc2 EXCEPT !.ops = KeptOps(res)] BY <1>0, <1>2 DEF Dc2Edge
    <2>2. dc2'.insn = dc2.insn /\ dc2'.ops = KeptOps(res) /\ dc2.insn \in InsnType
      BY <1>t, <2>1 DEF TypeOK
    <2>3. ~Issue(res, q) BY ZenonT(40), <1>2 DEF Issue, instr_tag
    <2>4. /\ inflight # <<>>
          /\ \A cell \in Reads(dc2.insn) : IsYoungest(dc2.ops[cell], Len(inflight) - 1, cell)
      BY <1>2, <1>q, <1>t DEF OperandsFresh
    <2>5. Len(inflight) >= 1 BY <1>n, <1>t, <2>4, InflightType
    <2>6. Done(res) <= Len(inflight) - 1
      <3>1. dc2.valid BY <1>2, <1>q
      <3>2. Len(inflight) = 1 => ~res.complete.valid BY <1>0, <3>1 DEF Retirable
      <3>3. Len(inflight) = 1 => Done(res) = 0 BY <3>2 DEF Done
      <3> QED BY <1>n, <2>5, <3>3
    <2>7. /\ Len(inflight') = Len(inflight) - Done(res)
          /\ \A k \in 1 .. Len(inflight) - Done(res) : inflight'[k] = inflight[k + Done(res)]
      BY Zenon, <1>0, <1>2, <1>q, <1>t, <2>3, RestStep
    <2>8. ASSUME NEW cell \in Reads(dc2.insn)
          PROVE  YoungestIn(inflight', dc2'.ops[cell], Len(inflight') - 1, cell)
      <3>1. cell \in Cell BY <2>2, ReadsCells
      <3>2. dc2'.ops[cell] = Aged(res, dc2.ops[cell], cell) BY Zenon, <2>2, <3>1 DEF KeptOps
      <3>3. Len(inflight') - 1 = (Len(inflight) - 1) - Done(res) BY <1>n, <2>7
      <3>4. \A k \in 1 .. (Len(inflight) - 1) - Done(res) : inflight'[k] = inflight[k + Done(res)]
        BY <1>n, <2>5, <2>7
      <3>5. Len(inflight) - 1 \in Nat BY <1>n, <2>5
      <3> QED BY Zenon, <1>t, <2>4, <2>6, <3>2, <3>3, <3>4, <3>5, AgedYoungest
    <2>9. inflight' # <<>> BY <1>n, <2>5, <2>6, <2>7
    <2> QED BY Zenon, <2>2, <2>8, <2>9 DEF OperandsFresh, IsYoungest
  <1>3. CASE ~q.flush /\ ~q.deferred
    <2> SUFFICES ASSUME dc2'.valid
                 PROVE  /\ inflight' # <<>>
                        /\ \A cell \in Reads(dc2'.insn) :
                              YoungestIn(inflight', dc2'.ops[cell], Len(inflight') - 1, cell)
      BY DEF OperandsFresh, IsYoungest
    <2>1. /\ dc2'.valid = valid_out(res, q)
          /\ dc2'.insn = q.insn
          /\ dc2'.ops = NewOps(res, q.insn)
      BY <1>0, <1>3 DEF Dc2Edge
    <2>2. valid_out(res, q) BY <2>1
    <2>3. Issue(res, q) BY Zenon, <1>3, <2>2 DEF Issue, instr_tag
    <2>4. /\ Len(inflight') = Len(inflight) - Done(res) + 1
          /\ \A k \in 1 .. Len(inflight) - Done(res) : inflight'[k] = inflight[k + Done(res)]
      BY Zenon, <1>0, <1>3, <1>q, <1>t, <2>3, AppendStep
    <2>5. inflight' # <<>> BY <1>n, <2>4
    <2>7. Len(inflight') = Len(inflight) - Done(res) + 1 BY <2>4
    <2>8. Len(inflight') - 1 = Len(inflight) - Done(res) BY <1>n, <2>7
    <2>6. ASSUME NEW cell \in Reads(q.insn)
          PROVE  YoungestIn(inflight', dc2'.ops[cell], Len(inflight') - 1, cell)
      <3>1. cell \in Cell BY Zenon, <1>q, ReadsCells
      <3>2. dc2'.ops[cell] = Aged(res, Operand(res, q.insn, cell), cell) BY Zenon, <2>1, <3>1 DEF NewOps
      <3>3. IsYoungest(Operand(res, q.insn, cell), Len(inflight), cell)
        BY <1>q, <1>t, <2>2, OperandYoungest
      <3> QED BY Zenon, <1>n, <1>t, <2>4, <2>8, <3>2, <3>3, AgedYoungest
    <2> QED BY <2>1, <2>5, <2>6
  <1> QED BY <1>1, <1>2, <1>3

(* HeldOps survives a clock edge. *)
LEMMA HeldOpsStep ==
    ASSUME IInv, NEW res \in Results, NEW busy_in \in BOOLEAN, NEW flush \in BOOLEAN,
           NEW f \in FromDecode1, Clock(res, busy_in, flush, f)
    PROVE  HeldOps'
  <1> DEFINE q == Request(busy_in, flush)
  <1>0. ControlEdge(res, q) /\ Dc2Edge(res, q) BY DEF Clock
  <1>q. /\ q.insn = insn_in /\ insn_in \in InsnType
        /\ q.deferred <=> dc2.valid /\ busy_in
    BY RequestMeans, RequestType DEF IInv
  <1>t. TypeOK /\ TagWindow /\ HeldOps /\ HeldInsn BY DEF IInv
  <1>n. Len(inflight) \in Nat /\ DOMAIN inflight = 1 .. Len(inflight) /\ Done(res) \in {0, 1}
        /\ Done(res) <= Len(inflight)
    BY <1>t, InflightType, DoneType
  <1> HIDE DEF q
  <1>1. CASE q.flush
    <2>1. ~dc2'.busy BY <1>0, <1>1 DEF Dc2Edge, Empty
    <2> QED BY <2>1 DEF HeldOps
  <1>2. CASE ~q.flush /\ q.deferred
    <2>1. dc2' = [dc2 EXCEPT !.ops = KeptOps(res)] BY <1>0, <1>2 DEF Dc2Edge
    <2>2. dc2'.busy = dc2.busy BY <1>t, <2>1 DEF TypeOK
    <2>3. ~dc2.busy BY <1>2, <1>q, <1>t DEF HeldInsn
    <2> QED BY <2>2, <2>3 DEF HeldOps
  <1>3. CASE ~q.flush /\ ~q.deferred
    <2> SUFFICES ASSUME dc2'.busy, NEW r \in dc2'.insn.reads,
                        \A k \in DOMAIN inflight' : inflight'[k].reg # r
                 PROVE  dc2'.ops[r] = 0
      BY DEF HeldOps
    <2>1. /\ dc2'.busy = (q.valid /\ ~valid_out(res, q))
          /\ dc2'.insn = insn_in
          /\ dc2'.ops = NewOps(res, insn_in)
      BY Zenon, <1>0, <1>3, <1>q DEF Dc2Edge
    <2>2. ~Issue(res, q) BY Zenon, <2>1 DEF Issue, instr_tag
    <2>3. r \in Reg /\ r \in Reads(insn_in) /\ r \in Cell BY Zenon, <1>q, <2>1 DEF InsnType, Reads, Cell
    <2>4. dc2'.ops[r] = Aged(res, GprOperand(res, insn_in, r), r)
      BY <2>1, <2>3, RegAssumption DEF NewOps, Operand
    <2>5. /\ Len(inflight') = Len(inflight) - Done(res)
          /\ DOMAIN inflight' = 1 .. Len(inflight')
          /\ \A k \in 1 .. Len(inflight) - Done(res) : inflight'[k] = inflight[k + Done(res)]
      BY Zenon, <1>0, <1>3, <1>q, <1>t, <2>2, RestStep
    <2>6. \A k \in DOMAIN inflight : k > Done(res) => inflight[k].reg # r
      <3> TAKE k \in DOMAIN inflight
      <3> HAVE k > Done(res)
      <3>1. k - Done(res) \in 1 .. Len(inflight) - Done(res) /\ (k - Done(res)) + Done(res) = k
        BY <1>n
      <3> QED BY Zenon, <2>5, <3>1
    <2>7. PICK done, n1, n2 : Offers(res, done, n1, n2) BY <1>t, ResultOffers
    <2>8. GprOperand(res, insn_in, r) =
              IF From1(r, n1) THEN n1
              ELSE IF From1(r, n2) THEN n2
              ELSE IF done = 1 /\ inflight[1].reg = r THEN 1
              ELSE IF dc2.busy THEN dc2.ops[r] ELSE 0
      BY Zenon, <1>t, <2>3, <2>7, BypassAt
    <2>9. done = Done(res) /\ done \in {0, 1}
      BY <2>7 DEF Offers, CrTag, NoTag, Done
    <2>10. ~From1(r, n1) /\ ~From1(r, n2)
      BY <1>n, <2>6, <2>7, <2>9 DEF Offers, Ordered, From1
    <2>11. CASE done = 1 /\ inflight[1].reg = r
      <3>1. GprOperand(res, insn_in, r) = 1 BY Zenon, <2>8, <2>10, <2>11
      <3>2. res.complete.valid BY <2>9, <2>11 DEF Done
      <3>3. Aged(res, 1, r) = 0 BY Zenon, <3>2, AgedOne
      <3> QED BY Zenon, <2>4, <3>1, <3>3
    <2>12. CASE ~(done = 1 /\ inflight[1].reg = r)
      <3>1. \A k \in DOMAIN inflight : inflight[k].reg # r BY <1>n, <2>6, <2>9, <2>12
      <3>2. dc2.busy => dc2.ops[r] = 0 BY Zenon, <1>t, <2>1, <3>1 DEF HeldOps, insn_in
      <3>3. GprOperand(res, insn_in, r) = 0 BY Zenon, <2>8, <2>10, <2>12, <3>2
      <3>4. res.complete.valid => ~Writes(inflight[1], r)
        BY <1>n, <2>3, <2>9, <3>1, WritesReg DEF Done
      <3>5. Aged(res, 0, r) = 0 BY <3>4, AgedZero
      <3> QED BY Zenon, <2>4, <3>3, <3>5
    <2> QED BY <2>11, <2>12
  <1> QED BY <1>1, <1>2, <1>3

(* An instruction that is serialised leaves decode2 only when everything     *)
(* older is done or completing.                                              *)
LEMMA SerialMeans ==
    ASSUME TypeOK, TagWindow, PrevLast, NEW res \in Results, NEW q, valid_out(res, q),
           q.serialize, sgl_in \/ psgl_in
    PROVE  Len(inflight) = Done(res)
  <1>n. Len(inflight) \in Nat /\ DOMAIN inflight = 1 .. Len(inflight) /\ Done(res) \in {0, 1}
        /\ Done(res) <= Len(inflight)
    BY InflightType, DoneType
  <1>1. ~serial_stall(res) BY DEF valid_out
  <1>2. CASE inflight = <<>> BY <1>2, <1>n
  <1>3. CASE inflight # <<>> /\ prev_tag = inflight[Len(inflight)].tag
    <2>1. Len(inflight) \in DOMAIN inflight BY <1>3, <1>n, InflightType
    <2>2. prev_tag \in Tag BY DEF TypeOK
    <2>3. tag_regs[prev_tag].valid BY Zenon, <1>3, <2>1, <2>2 DEF TagWindow
    <2>4. res.complete.valid /\ res.complete.tag = prev_tag
      BY Zenon, <1>1, <2>3 DEF serial_stall, tag_match
    <2>5. Len(inflight) = 1 BY Zenon, <1>3, <2>1, <2>4, CompleteIsHead, TagsDistinct
    <2> QED BY <2>4, <2>5 DEF Done
  <1> QED BY <1>2, <1>3 DEF PrevLast

(* Without an issue the youngest in flight stays, or none is left. *)
LEMMA LastStays ==
    ASSUME TypeOK, NEW res \in Results, NEW q, q.insn \in InsnType, ~q.flush,
           ControlEdge(res, q), ~Issue(res, q)
    PROVE  \/ inflight' = <<>>
           \/ /\ inflight # <<>>
              /\ inflight'[Len(inflight')] = inflight[Len(inflight)]
  <1>1. /\ inflight' \in Seq(EntryType)
        /\ Len(inflight') = Len(inflight) - Done(res)
        /\ \A k \in 1 .. Len(inflight) - Done(res) : inflight'[k] = inflight[k + Done(res)]
    BY Zenon, InflightStep, RestStep
  <1>2. Len(inflight) \in Nat /\ Done(res) \in {0, 1} /\ Done(res) <= Len(inflight)
    BY InflightType, DoneType
  <1>3. CASE Len(inflight') = 0 BY <1>1, <1>3
  <1>4. CASE Len(inflight') > 0
    <2>1. inflight'[Len(inflight')] = inflight[Len(inflight') + Done(res)] BY <1>1, <1>2, <1>4
    <2>2. Len(inflight') + Done(res) = Len(inflight) BY <1>1, <1>2
    <2>3. inflight # <<>> BY <1>1, <1>2, <1>4
    <2> QED BY <2>1, <2>2, <2>3
  <1> QED BY <1>1, <1>2, <1>3, <1>4

(* What decode2 latches, by cases on flush and deferred. *)
LEMMA Dc2Means ==
    ASSUME IInv, NEW res \in Results, NEW busy_in \in BOOLEAN, NEW flush \in BOOLEAN,
           NEW f \in FromDecode1, Clock(res, busy_in, flush, f)
    PROVE  /\ flush => ~dc2'.valid /\ ~dc2'.busy
           /\ ~flush /\ dc2.valid /\ busy_in =>
                 /\ ~dc2.busy /\ ~dc2'.busy
                 /\ dc2'.valid = dc2.valid
                 /\ dc2'.sgl_pipe = dc2.sgl_pipe /\ dc2'.prev_sgl = dc2.prev_sgl
                 /\ d_in' = d_in
           /\ ~flush /\ ~(dc2.valid /\ busy_in) =>
                 /\ dc2'.valid = valid_out(res, Request(busy_in, flush))
                 /\ dc2'.busy = ((d_in.valid \/ dc2.busy)
                                 /\ ~valid_out(res, Request(busy_in, flush)))
                 /\ dc2'.insn = insn_in
                 /\ dc2'.sgl_pipe = sgl_in /\ dc2'.prev_sgl = psgl_in
  <1> DEFINE q == Request(busy_in, flush)
  <1>q. /\ q.valid = (d_in.valid \/ dc2.busy) /\ q.insn = insn_in /\ q.flush = flush
        /\ q.deferred = (dc2.valid /\ busy_in)
    BY Zenon DEF Request
  <1>0. Dc2Edge(res, q) /\ D1Edge(q, f) BY DEF Clock
  <1>t. TypeOK /\ HeldInsn BY DEF IInv
  <1> HIDE DEF q
  <1>1. CASE flush
    <2>1. dc2' = Empty BY <1>0, <1>1, <1>q DEF Dc2Edge
    <2> QED BY Zenon, <2>1, <1>1 DEF Empty
  <1>2. CASE ~flush /\ dc2.valid /\ busy_in
    <2>1. dc2' = [dc2 EXCEPT !.ops = KeptOps(res)] BY Zenon, <1>0, <1>2, <1>q DEF Dc2Edge
    <2>2. d_in' = d_in BY Zenon, <1>0, <1>2, <1>q DEF D1Edge
    <2> QED BY Zenon, <2>1, <2>2, <1>2, <1>t DEF TypeOK, HeldInsn
  <1>3. CASE ~flush /\ ~(dc2.valid /\ busy_in)
    <2>1. dc2' = [valid |-> valid_out(res, q), busy  |-> q.valid /\ ~valid_out(res, q),
                  insn  |-> q.insn, sgl_pipe |-> sgl_in, prev_sgl |-> psgl_in,
                  ops |-> NewOps(res, q.insn)]
      BY <1>0, <1>3, <1>q DEF Dc2Edge
    <2> QED BY Zenon, <2>1, <1>3, <1>q DEF q
  <1> QED BY ZenonT(40), <1>1, <1>2, <1>3

(* HeldInsn survives a clock edge. *)
LEMMA HeldInsnStep ==
    ASSUME IInv, NEW res \in Results, NEW busy_in \in BOOLEAN, NEW flush \in BOOLEAN,
           NEW f \in FromDecode1, Clock(res, busy_in, flush, f)
    PROVE  HeldInsn'
  <1>t. HeldInsn BY DEF IInv
  <1>1. dc2'.busy /\ ~(dc2.valid /\ busy_in) /\ ~flush => (dc2'.insn.sgl <=> dc2'.sgl_pipe)
    BY Zenon, <1>t, Dc2Means DEF HeldInsn, insn_in, sgl_in, fresh
  <1>2. ~(dc2'.valid /\ dc2'.busy) BY Zenon, Dc2Means
  <1> QED BY Zenon, <1>1, <1>2, Dc2Means DEF HeldInsn

(* LastSgl survives a clock edge. *)
LEMMA LastSglStep ==
    ASSUME IInv, NEW res \in Results, NEW busy_in \in BOOLEAN, NEW flush \in BOOLEAN,
           NEW f \in FromDecode1, Clock(res, busy_in, flush, f)
    PROVE  LastSgl'
  <1> DEFINE q == Request(busy_in, flush)
  <1>0. ControlEdge(res, q) BY DEF Clock
  <1>q. /\ q.valid = (d_in.valid \/ dc2.busy) /\ q.insn = insn_in /\ q.flush = flush
        /\ q.deferred = (dc2.valid /\ busy_in)
    BY DEF Request
  <1>t. TypeOK /\ HeldInsn /\ LastSgl /\ insn_in \in InsnType BY RequestType DEF IInv, Request
  <1>d. Issue(res, q) = (valid_out(res, q) /\ ~q.deferred) BY DEF Issue, instr_tag
  <1>v. valid_out(res, q) => q.valid BY DEF valid_out
  <1>l. ~flush /\ ~Issue(res, q) => \/ inflight' = <<>>
                                    \/ /\ inflight # <<>>
                                       /\ inflight'[Len(inflight')] = inflight[Len(inflight)]
    BY <1>0, <1>q, <1>t, LastStays
  <1>i. ~flush /\ Issue(res, q) => inflight'[Len(inflight')] = Entry(insn_in)
    BY Zenon, <1>0, <1>q, <1>t, InflightStep
  <1>m. /\ ~flush /\ dc2.valid /\ busy_in =>
                 ~dc2.busy /\ ~dc2'.busy /\ dc2'.sgl_pipe = dc2.sgl_pipe
        /\ ~flush /\ ~(dc2.valid /\ busy_in) =>
                 /\ dc2'.busy = ((d_in.valid \/ dc2.busy) /\ ~valid_out(res, q))
                 /\ dc2'.sgl_pipe = sgl_in /\ dc2'.prev_sgl = psgl_in
    BY Zenon, Dc2Means
  <1> HIDE DEF q
  <1>1. CASE flush
    <2>1. inflight' = <<>> BY <1>0, <1>1, <1>q DEF ControlEdge
    <2> QED BY <2>1 DEF LastSgl
  <1>2. CASE ~flush /\ q.deferred
    BY Zenon, <1>2, <1>q, <1>t, <1>d, <1>l, <1>m DEF LastSgl
  <1>3. CASE ~flush /\ ~q.deferred /\ valid_out(res, q)
    <2>1. ~dc2'.busy /\ dc2'.sgl_pipe = sgl_in BY Zenon, <1>3, <1>q, <1>m
    <2>4. inflight'[Len(inflight')] = Entry(insn_in) BY Zenon, <1>3, <1>d, <1>i
    <2>2. inflight'[Len(inflight')].sgl = insn_in.sgl BY <2>4 DEF Entry
    <2>3. insn_in.sgl => sgl_in
      BY Zenon, <1>3, <1>q, <1>t, <1>v DEF insn_in, sgl_in, fresh, HeldInsn
    <2> QED BY <2>1, <2>2, <2>3 DEF LastSgl
  <1>4. CASE ~flush /\ ~q.deferred /\ ~valid_out(res, q)
    BY Zenon, <1>4, <1>q, <1>t, <1>d, <1>l, <1>m DEF LastSgl, sgl_in, psgl_in, fresh
  <1> QED BY <1>1, <1>2, <1>3, <1>4

(* PrevLast survives a clock edge. *)
LEMMA PrevLastStep ==
    ASSUME IInv, NEW res \in Results, NEW busy_in \in BOOLEAN, NEW flush \in BOOLEAN,
           NEW f \in FromDecode1, Clock(res, busy_in, flush, f)
    PROVE  PrevLast'
  <1> DEFINE q == Request(busy_in, flush)
  <1>0. ControlEdge(res, q) /\ Retirable(res) BY DEF Clock
  <1>q. /\ q.valid = (d_in.valid \/ dc2.busy) /\ q.insn = insn_in /\ q.flush = flush
        /\ q.deferred = (dc2.valid /\ busy_in) /\ q.serialize = (sgl_in \/ psgl_in)
    BY Zenon DEF Request
  <1>t. /\ TypeOK /\ TagWindow /\ HeldInsn /\ PrevLast /\ OperandsFresh
        /\ insn_in \in InsnType
    BY RequestType DEF IInv, Request
  <1>d. Issue(res, q) = (valid_out(res, q) /\ ~q.deferred) BY DEF Issue, instr_tag
  <1>v. valid_out(res, q) => q.valid BY DEF valid_out
  <1>l. ~flush /\ ~Issue(res, q) => \/ inflight' = <<>>
                                    \/ /\ inflight # <<>>
                                       /\ inflight'[Len(inflight')] = inflight[Len(inflight)]
    BY <1>0, <1>q, <1>t, LastStays
  <1>p. prev_tag' = IF valid_out(res, q) THEN curr_tag ELSE prev_tag BY Zenon, <1>0 DEF ControlEdge
  <1>m. /\ ~flush /\ dc2.valid /\ busy_in =>
                 /\ ~dc2.busy /\ ~dc2'.busy /\ dc2'.sgl_pipe = dc2.sgl_pipe
                 /\ dc2'.prev_sgl = dc2.prev_sgl /\ d_in' = d_in
        /\ ~flush /\ ~(dc2.valid /\ busy_in) =>
                 /\ dc2'.busy = ((d_in.valid \/ dc2.busy) /\ ~valid_out(res, q))
                 /\ dc2'.sgl_pipe = sgl_in /\ dc2'.prev_sgl = psgl_in
    BY Zenon, Dc2Means
  <1> HIDE DEF q
  <1>1. CASE flush
    <2>1. inflight' = <<>> BY Zenon, <1>0, <1>1, <1>q DEF ControlEdge
    <2> QED BY <2>1 DEF PrevLast
  <1>2. CASE ~flush /\ q.deferred /\ valid_out(res, q)
    <2>1. Len(inflight) # Done(res)
      BY <1>0, <1>2, <1>q, <1>t, InflightType DEF Retirable, OperandsFresh, Done
    <2>2. ~sgl_in /\ ~psgl_in BY <1>2, <1>q, <1>t, <2>1, SerialMeans
    <2>3. sgl_in' = sgl_in /\ psgl_in' = psgl_in
      BY ZenonT(40), <1>2, <1>q, <1>m DEF sgl_in, psgl_in, fresh
    <2> QED BY Zenon, <1>2, <1>q, <1>v, <1>m, <2>2, <2>3 DEF PrevLast
  <1>3. CASE ~flush /\ q.deferred /\ ~valid_out(res, q)
    <2>1. sgl_in' = sgl_in /\ psgl_in' = psgl_in
      BY ZenonT(40), <1>3, <1>q, <1>m DEF sgl_in, psgl_in, fresh
    <2>2. prev_tag' = prev_tag BY <1>3, <1>p
    <2> QED BY ZenonT(40), <1>3, <1>q, <1>t, <1>d, <1>l, <1>m, <2>1, <2>2 DEF PrevLast
  <1>4. CASE ~flush /\ ~q.deferred /\ valid_out(res, q)
    <2>1. inflight'[Len(inflight')] = Entry(insn_in)
      BY ZenonT(40), <1>0, <1>q, <1>t, <1>d, <1>4, InflightStep
    <2> QED BY <1>4, <1>p, <2>1 DEF PrevLast, Entry
  <1>5. CASE ~flush /\ ~q.deferred /\ ~valid_out(res, q)
    <2>1. prev_tag' = prev_tag BY <1>5, <1>p
    <2>2. (d_in.valid \/ dc2.busy) => dc2'.busy /\ sgl_in' = sgl_in /\ psgl_in' = psgl_in
      BY Zenon, <1>5, <1>q, <1>m DEF sgl_in, psgl_in, fresh
    <2> QED BY <1>5, <1>t, <1>d, <1>l, <2>1, <2>2 DEF PrevLast
  <1> QED BY <1>1, <1>2, <1>3, <1>4, <1>5

(* SglAlone survives a clock edge. *)
LEMMA SglAloneStep ==
    ASSUME IInv, NEW res \in Results, NEW busy_in \in BOOLEAN, NEW flush \in BOOLEAN,
           NEW f \in FromDecode1, Clock(res, busy_in, flush, f)
    PROVE  SglAlone'
  <1> DEFINE q == Request(busy_in, flush)
  <1>0. ControlEdge(res, q) BY DEF Clock
  <1>q. /\ q.valid = (d_in.valid \/ dc2.busy) /\ q.insn = insn_in /\ q.flush = flush
        /\ q.serialize = (sgl_in \/ psgl_in)
    BY Zenon DEF Request
  <1>t. /\ TypeOK /\ TagWindow /\ HeldInsn /\ PrevLast /\ LastSgl /\ SglAlone
        /\ insn_in \in InsnType
    BY RequestType DEF IInv, Request
  <1>n. Len(inflight) \in Nat /\ DOMAIN inflight = 1 .. Len(inflight) /\ Done(res) \in {0, 1}
        /\ Done(res) <= Len(inflight)
    BY <1>t, InflightType, DoneType
  <1>v. Issue(res, q) => valid_out(res, q) /\ q.valid BY Zenon DEF Issue, instr_tag, valid_out
  <1>s. valid_out(res, q) /\ (sgl_in \/ psgl_in) => Len(inflight) = Done(res)
    BY Zenon, <1>q, <1>t, SerialMeans
  <1> HIDE DEF q
  <1>1. CASE flush
    <2>1. inflight' = <<>> BY Zenon, <1>0, <1>1, <1>q DEF ControlEdge
    <2> QED BY <2>1 DEF SglAlone
  <1>2. CASE ~flush
    <2>1. /\ Len(inflight') \in Nat
          /\ DOMAIN inflight' = 1 .. Len(inflight')
          /\ Len(inflight') = Len(inflight) - Done(res) + (IF Issue(res, q) THEN 1 ELSE 0)
          /\ \A k \in 1 .. Len(inflight) - Done(res) : inflight'[k] = inflight[k + Done(res)]
          /\ Issue(res, q) => inflight'[Len(inflight')] = Entry(insn_in)
      BY Zenon, <1>0, <1>2, <1>q, <1>t, InflightStep
    <2> SUFFICES ASSUME NEW k \in DOMAIN inflight', inflight'[k].sgl
                 PROVE  Len(inflight') = 1
      BY DEF SglAlone
    <2>2. k \in 1 .. Len(inflight') BY Zenon, <2>1
    <2>3. CASE k <= Len(inflight) - Done(res)
      <3>1. k + Done(res) \in DOMAIN inflight /\ inflight[k + Done(res)].sgl
        BY <1>n, <2>1, <2>2, <2>3
      <3>2. Len(inflight) = 1 BY <1>t, <3>1 DEF SglAlone
      <3>3. Done(res) = 0 /\ k = 1 BY <1>n, <2>2, <3>1, <3>2
      <3>4. CASE ~Issue(res, q) BY <2>1, <3>2, <3>3, <3>4
      <3>5. CASE Issue(res, q)
        <4>1. inflight # <<>>
          <5>1. inflight = <<>> => Len(inflight) = 0 OBVIOUS
          <5> QED BY <3>2, <5>1
        <4>2. inflight[Len(inflight)].sgl BY <3>1, <3>2, <3>3
        <4>3. IF dc2.busy THEN dc2.prev_sgl ELSE dc2.sgl_pipe BY <1>t, <4>1, <4>2 DEF LastSgl
        <4>4. psgl_in BY ZenonT(40), <1>v, <1>q, <3>5, <4>3 DEF psgl_in, fresh
        <4> QED BY <1>s, <1>v, <3>2, <3>3, <3>5, <4>4
      <3> QED BY <3>4, <3>5
    <2>4. CASE ~(k <= Len(inflight) - Done(res))
      <3>1. Issue(res, q) /\ k = Len(inflight') BY <1>n, <2>1, <2>2, <2>4
      <3>2. inflight'[k] = Entry(insn_in) BY <2>1, <3>1
      <3>3. insn_in.sgl BY <3>2 DEF Entry
      <3>4. sgl_in BY Zenon, <1>q, <1>t, <1>v, <3>1, <3>3 DEF insn_in, sgl_in, fresh, HeldInsn
      <3> QED BY <1>n, <1>s, <1>v, <2>1, <3>1, <3>4
    <2> QED BY <2>3, <2>4
  <1> QED BY <1>1, <1>2

-----------------------------------------------------------------------------
(* The inductive invariant and the theorems. *)

(* The inductive invariant holds initially. *)
LEMMA InitInv == Init => IInv
  <1> SUFFICES ASSUME Init PROVE IInv OBVIOUS
  <1>0. TypeOK BY InitType
  <1>1. inflight = <<>> /\ Len(inflight) = 0 /\ DOMAIN inflight = {} BY DEF Init, ControlInit
  <1>2. \A t \in Tag : ~tag_regs[t].valid /\ ~tag_regs[t].wr_cr /\ ~tag_regs[t].wr_ov
    BY DEF Init, ControlInit
  <1>3. TagWindow BY <1>1, <1>2, TagAssumption DEF TagWindow
  <1>4. Scoreboard /\ IdleTags /\ CrLast /\ OvLast
    BY Zenon, <1>1, <1>2 DEF Scoreboard, IdleTags, CrLast, OvLast
  <1>5. ~dc2.valid /\ ~dc2.busy BY DEF Init, Empty
  <1>6. HeldOps /\ HeldInsn /\ LastSgl /\ PrevLast
    BY Zenon, <1>1, <1>5 DEF HeldOps, HeldInsn, LastSgl, PrevLast
  <1>7. OperandsFresh /\ SglAlone BY <1>1, <1>5 DEF OperandsFresh, SglAlone
  <1> QED BY <1>0, <1>3, <1>4, <1>6, <1>7 DEF IInv

(* The inductive invariant survives a reset. *)
LEMMA ResetInv == IInv /\ Reset => IInv'
  <1> SUFFICES ASSUME IInv, Reset PROVE IInv' OBVIOUS
  <1>0. TypeOK' BY ResetType DEF IInv
  <1>1. inflight' = <<>> /\ tag_regs' = [i \in Tag |-> Invalid(tag_regs[i])]
    BY DEF Reset, ControlReset
  <1>2. TagWindow' /\ Scoreboard' /\ IdleTags' /\ CrLast' /\ OvLast' BY <1>1, FlushStep DEF IInv
  <1>3. ~dc2'.valid /\ ~dc2'.busy BY DEF Reset, Empty
  <1>4. HeldOps' /\ HeldInsn' /\ LastSgl' /\ PrevLast'
    BY Zenon, <1>1, <1>3 DEF HeldOps, HeldInsn, LastSgl, PrevLast
  <1>5. OperandsFresh' BY <1>3 DEF OperandsFresh
  <1>6. SglAlone' BY <1>1 DEF SglAlone
  <1> QED BY <1>0, <1>2, <1>4, <1>5, <1>6 DEF IInv

(* The inductive invariant survives a clock edge. *)
LEMMA ClockInv ==
    ASSUME IInv, NEW res \in Results, NEW busy_in \in BOOLEAN, NEW flush \in BOOLEAN,
           NEW f \in FromDecode1, Clock(res, busy_in, flush, f)
    PROVE  IInv'
  <1> DEFINE q == Request(busy_in, flush)
  <1>0. ControlEdge(res, q) /\ Room(res, q) BY DEF Clock
  <1>q. q.flush = flush /\ q.insn \in InsnType BY Zenon, RequestType DEF Request, IInv
  <1>t. TypeOK /\ TagWindow /\ Scoreboard /\ IdleTags /\ CrLast /\ OvLast BY DEF IInv
  <1>1. TypeOK' BY <1>t, TypeStep
  <1>2. HeldOps' /\ HeldInsn' /\ LastSgl' /\ PrevLast'
    BY HeldOpsStep, HeldInsnStep, LastSglStep, PrevLastStep
  <1>3. OperandsFresh' /\ SglAlone' BY FreshStep, SglAloneStep
  <1> HIDE DEF q
  <1>4. TagWindow' /\ Scoreboard' /\ IdleTags' /\ CrLast' /\ OvLast'
    <2>1. CASE flush
      <3>1. inflight' = <<>> BY <1>0, <1>q, <2>1 DEF ControlEdge
      <3>2. ~instr_tag(res, q).valid BY Zenon, <1>q, <2>1 DEF instr_tag, valid_out
      <3>3. tag_regs' = [i \in Tag |-> Invalid(tag_regs[i])]
        BY <1>0, <1>q, <2>1, <3>2 DEF ControlEdge, TagAfter
      <3> QED BY <1>t, <3>1, <3>3, FlushStep
    <2>2. CASE ~flush
      <3>1. TagWindow' /\ Scoreboard' BY <1>0, <1>q, <1>t, <2>2, WindowStep, ScoreboardStep
      <3>2. IdleTags' /\ CrLast' /\ OvLast'
        BY <1>0, <1>q, <1>t, <2>2, IdleTagsStep, CrLastStep, OvLastStep
      <3> QED BY <3>1, <3>2
    <2> QED BY <2>1, <2>2
  <1> QED BY <1>1, <1>2, <1>3, <1>4 DEF IInv

(* The inductive invariant survives every step. *)
LEMMA StepInv == IInv /\ [Next]_vars => IInv'
  <1> SUFFICES ASSUME IInv, [Next]_vars PROVE IInv' OBVIOUS
  <1>1. CASE Reset BY <1>1, ResetInv
  <1>2. CASE \E res \in Results, busy_in, flush \in BOOLEAN, f \in FromDecode1 :
               Clock(res, busy_in, flush, f)
    BY <1>2, ClockInv
  <1>3. CASE UNCHANGED vars
    <2>1. /\ tag_regs' = tag_regs /\ curr_tag' = curr_tag /\ prev_tag' = prev_tag
          /\ curr_cr_tag' = curr_cr_tag /\ curr_ov_tag' = curr_ov_tag
          /\ inflight' = inflight /\ d_in' = d_in /\ dc2' = dc2
      BY <1>3 DEF vars
    <2>2. TypeOK' BY <2>1 DEF IInv, TypeOK
    <2>3. TagWindow' BY Zenon, <2>1 DEF IInv, TagWindow
    <2>4. Scoreboard' /\ IdleTags' BY ZenonT(40), <2>1 DEF IInv, Scoreboard, IdleTags
    <2>5. CrLast' /\ OvLast' BY Zenon, <2>1 DEF IInv, CrLast, OvLast
    <2>6. HeldOps' /\ HeldInsn' /\ LastSgl' BY Zenon, <2>1 DEF IInv, HeldOps, HeldInsn, LastSgl
    <2>7. PrevLast' BY Zenon, <2>1 DEF IInv, PrevLast, sgl_in, psgl_in, fresh
    <2>8. OperandsFresh' /\ SglAlone' BY <2>1 DEF IInv, OperandsFresh, SglAlone, IsYoungest
    <2> QED BY <2>2, <2>3, <2>4, <2>5, <2>6, <2>7, <2>8 DEF IInv
  <1> QED BY <1>1, <1>2, <1>3 DEF Next

(* The inductive invariant holds in every reachable state. *)
THEOREM Invariance == Spec => []IInv
  BY InitInv, StepInv, PTL DEF Spec

(* The scoreboard, the ghost queue and decode2's registers keep their types  *)
(* (control.vhdl 64-82, decode2.vhdl 44-68) for any number of tags.          *)
THEOREM TypeCorrect == Spec => []TypeOK
  <1>1. IInv => TypeOK BY DEF IInv
  <1> QED BY <1>1, Invariance, PTL

(* For any TAG_COUNT: no tag is issued while its instruction is in flight,   *)
(* and every completion finds its tag valid (control.vhdl 98-158, 254-258),  *)
(* from units that complete in order and hold back when no tag is free.      *)
THEOREM TagsSafe == Spec => []TagWindow
  <1>1. IInv => TagWindow BY DEF IInv
  <1> QED BY <1>1, Invariance, PTL

(* For any set of registers, any instructions, any bypass configuration and  *)
(* any order of stalls, deferrals and flushes, the operands handed to        *)
(* execute are those of sequential execution (decode2.vhdl 677-720).         *)
THEOREM FreshOperands == Spec => []OperandsFresh
  <1>1. IInv => OperandsFresh BY DEF IInv
  <1> QED BY <1>1, Invariance, PTL

(* A single-issue instruction is alone in the pipeline (control.vhdl 285-290 *)
(* with decode2.vhdl 653-675).                                               *)
THEOREM SingleIssue == Spec => []SglAlone
  <1>1. IInv => SglAlone BY DEF IInv
  <1> QED BY <1>1, Invariance, PTL

=============================================================================
