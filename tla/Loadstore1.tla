------------------------------ MODULE Loadstore1 ------------------------------
(* loadstore1.vhdl: the three stages of a load or store, with the retry of a *)
(* faulting access through the MMU, the second request of an access that     *)
(* crosses a doubleword, the extra cycle of lfs, the hash instructions and   *)
(* the flush of younger requests.  One step is one clock edge.               *)
(* The data cache and the MMU are seen through their handshake only.         *)
EXTENDS Naturals, Sequences, FiniteSets

CONSTANTS Kinds,        \* the sorts of instruction that execute1 sends
          hash_enable,  \* the PHIE/NPHIE bit of DEXCR or HDEXCR
          HashAlone,    \* TRUE: a hash instruction is sent with no other in flight (decode1 does not ensure it)
          HashSteps,    \* cycles of a hash computation (8)
          MaxWalk       \* bound: dcache accesses in one table walk

Loads  == {"load", "split", "lfs", "lfssplit", "hashchk"}
Stores == {"store", "hashst"}
Hash   == {"hashst", "hashchk"}

(* "spr" stands for what needs neither cache nor MMU: mfspr, mtspr of DAR    *)
(* and the like, the RA update of a load; "mmu" for mtspr PID and the failed *)
(* instruction fetch; "align" for any access that takes an alignment         *)
(* interrupt.                                                                *)
AllKinds == Loads \cup Stores \cup {"tlbie", "mmu", "spr", "align"}

ASSUME KindAssumption == Kinds \subseteq AllKinds
ASSUME HashAssumption == hash_enable \in BOOLEAN /\ HashAlone \in BOOLEAN /\ HashSteps \in Nat \ {0}
ASSUME WalkAssumption == MaxWalk \in Nat

VARIABLES r1,       \* stage 1: req, busy, issued
          r2,       \* stage 2: req, busy, wait_dc, wait_mmu, one_cycle
          r3,       \* stage 3: state, complete, interrupt, stage1_en
          flushing, stage1_dreq,
          hash_r,   \* active, done, step; id of the instruction it started for
          dc,       \* data cache: r0, slow, valid, error (and mmu, its answer to the MMU)
          mmu,      \* phase, accesses left, answer
          ops       \* ghost: accepted and unfinished instructions, oldest first

vars == <<r1, r2, r3, flushing, stage1_dreq, hash_r, dc, mmu, ops>>

Id == 0 .. 3
None == [none |-> TRUE]

load_sp(k) == k \in {"lfs", "lfssplit"}
mmu_op(k)  == k \in {"tlbie", "mmu"}
two_dwords(k) == k \in {"split", "lfssplit"}

(* hash_nop is set whenever l_in.hash_enable = '0', not only for l_in.hash.  *)
hash_nop(k) == ~hash_enable /\ k \in Loads \cup Stores

dc_req(k) == k \in Loads \cup Stores \cup {"tlbie"} /\ ~hash_nop(k)

NoReq == [valid |-> FALSE, id |-> 0, k |-> "spr", dc_req |-> FALSE,
          incomplete |-> FALSE, dw |-> 0]

(* req_in for an instruction from execute1, a record valid, id, k. *)
req_in(l_in) ==
    IF l_in.valid
    THEN [valid |-> TRUE, id |-> l_in.id, k |-> l_in.k, dc_req |-> dc_req(l_in.k),
          incomplete |-> dc_req(l_in.k) /\ two_dwords(l_in.k), dw |-> 0]
    ELSE NoReq

-----------------------------------------------------------------------------
(* Signals that depend on registers only. *)

d_valid == dc.valid # None
d_error == dc.error # "no"
m_done  == mmu.answer = "done"
m_err   == mmu.answer = "err"

(* dc_stall or d_in.error or r2.busy *)
stalled == dc.slow # None \/ d_error \/ r2.busy

busy == stalled \/ r1.busy

complete == r2.one_cycle \/ (r2.wait_dc /\ d_valid) \/ r3.complete

(* match: what a hashchk load returns is the hash. *)
hashchk_trap(match) == d_valid /\ r2.req.k = "hashchk" /\ ~match

exception(match) == \/ hashchk_trap(match)
                    \/ r2.req.valid /\ r2.req.k = "align"
                    \/ dc.error = "intr"
                    \/ m_err

(* A request to the MMU, in stage 3. *)
starts_mmu == r3.state = "IDLE" /\ r2.req.valid /\ mmu_op(r2.req.k)
mmureq == starts_mmu \/ dc.error = "fault"

-----------------------------------------------------------------------------
(* Stage 1. *)

stage1_req(l_in) ==
    IF ~r1.busy THEN [req_in(l_in) EXCEPT !.dc_req = @ /\ ~flushing]
    ELSE IF r1.req.dc_req /\ ~r1.issued THEN r1.req
    ELSE IF r1.req.incomplete THEN [r1.req EXCEPT !.dw = 1, !.incomplete = FALSE]
    ELSE [r1.req EXCEPT !.valid = load_sp(r1.req.k), !.dc_req = FALSE]

issue(l_in) == IF r1.busy THEN (r1.req.dc_req /\ ~r1.issued) \/ r1.req.incomplete
               ELSE l_in.valid /\ stage1_req(l_in).dc_req

hashing(l_in) == issue(l_in) /\ stage1_req(l_in).k \in Hash

stage1_dcreq(l_in, flush) ==
    ~flush /\ ~stalled /\ issue(l_in) /\ (hashing(l_in) => hash_r.done)

\* variant: the computation waits for the previous one to report
HashStartBusy(l_in, flush) == ~flush /\ ~stalled /\ hashing(l_in) /\ hash_r.done

hash_start(l_in, flush) == ~flush /\ ~stalled /\ hashing(l_in) /\ ~r1.busy

(* The cache drops the request in its r0 when it reports an error. *)
dropped == r1.issued /\ d_error

R1Edge(l_in, flush) ==
    LET req == stage1_req(l_in)
    IN r1' = IF flush
             THEN [req |-> [r1.req EXCEPT !.valid = FALSE, !.dc_req = FALSE, !.incomplete = FALSE],
                   busy |-> FALSE, issued |-> FALSE]
             ELSE IF ~stalled
             THEN [req |-> req, issued |-> stage1_dcreq(l_in, flush),
                   busy |-> IF hashing(l_in) THEN ~hash_r.done
                            ELSE \/ issue(l_in) /\ (req.incomplete \/ load_sp(req.k))
                                 \/ req.valid /\ mmu_op(req.k)]
             ELSE IF dropped THEN [r1 EXCEPT !.issued = FALSE, !.busy = TRUE]
             ELSE r1

\* variant: requests behind an alignment interrupt are sent all the same
FlushingNever(flush) == flushing' = FALSE

FlushingEdge(flush) ==
    flushing' = ((flushing \/ (r1'.req.valid /\ r1'.req.k = "align")) /\ ~flush)

next_step == (hash_r.step + 1) % HashSteps

(* loadstore_hash_comb; step counts from 0, and done lasts one cycle. *)
HashEdge(l_in, flush) ==
    hash_r' = IF hash_r.active
              THEN [hash_r EXCEPT !.step = next_step,
                                  !.active = hash_r.step # HashSteps - 1,
                                  !.done = hash_r.step = HashSteps - 1]
              ELSE IF hash_start(l_in, flush)
              THEN [active |-> TRUE, done |-> FALSE, step |-> 0, id |-> l_in.id]
              ELSE [hash_r EXCEPT !.done = FALSE]

-----------------------------------------------------------------------------
(* Stage 2. *)

\* variant: the first doubleword of a split access ends it
WaitsForFirst(q) == q.valid /\ q.dc_req /\ ~load_sp(q.k) /\ q.k \notin {"hashchk", "tlbie"}

waits_dc(q) == q.valid /\ q.dc_req /\ ~load_sp(q.k) /\ ~q.incomplete /\ q.k \notin {"hashchk", "tlbie"}

holds_stage1(q) == q.valid /\ (mmu_op(q.k) \/ q.k \in {"align", "hashchk"})

(* What r1 becomes in r2: nothing yet while its cache request is not sent. *)
R2FromR1 ==
    LET q == r1.req
    IN IF ~q.valid \/ r1.issued \/ ~q.dc_req
       THEN [req |-> [q EXCEPT !.dc_req = @ /\ ~mmu_op(q.k)],
             wait_dc  |-> waits_dc(q),
             wait_mmu |-> q.valid /\ mmu_op(q.k),
             busy     |-> holds_stage1(q),
             one_cycle |-> q.valid /\ q.k \notin {"align", "hashchk"}
                             /\ ~(q.dc_req \/ mmu_op(q.k))]
       ELSE [r2 EXCEPT !.req.valid = FALSE, !.wait_dc = FALSE, !.wait_mmu = FALSE,
                       !.one_cycle = FALSE]

advances(e2stall) == ~stalled /\ ~e2stall

R2Edge(e2stall) ==
    LET next == IF advances(e2stall) THEN R2FromR1 ELSE r2
        mmu_finished == r2.wait_mmu /\ m_done
        gone   == mmu_finished /\ mmu_op(r2.req.k)
        idle   == r2.busy /\ ~r2.wait_mmu /\ (r2.req.k = "hashchk" => d_valid)
        interrupt == (r2.req.valid /\ r2.req.k = "align") \/ dc.error = "intr" \/ m_err
        fault  == dc.error = "fault"
    IN r2' = IF interrupt
             THEN [next EXCEPT !.req.valid = FALSE, !.busy = FALSE, !.wait_dc = FALSE,
                               !.wait_mmu = FALSE]
             ELSE [next EXCEPT !.req.valid = @ /\ ~gone,
                               !.busy = (@ /\ ~gone /\ ~idle) \/ fault,
                               !.wait_mmu = (@ /\ ~mmu_finished) \/ fault]

-----------------------------------------------------------------------------
(* Stage 3. *)

\* variant: a failed walk leaves stage 3 waiting for the MMU
WalkDoneOnly == m_done

walk_over == m_done \/ m_err

R3Edge(match, flush) ==
    r3' = [complete  |-> \/ d_valid /\ r2.req.k = "hashchk" /\ match
                         \/ m_done /\ ~r2.req.dc_req,
           interrupt |-> flush,
           state     |-> IF walk_over THEN "IDLE"
                         ELSE IF mmureq THEN "MMU_WAIT" ELSE r3.state,
           stage1_en |-> walk_over \/ (r3.stage1_en /\ dc.error # "fault")]

(* The request to the cache, from stage 1 or, after a table walk, stage 3. *)
d_out(l_in, flush) ==
    LET req == stage1_req(l_in)
    IN IF r3.stage1_en
       THEN IF stage1_dcreq(l_in, flush)
            THEN [id |-> req.id, dw |-> req.dw, probe |-> req.k = "tlbie", retry |-> FALSE]
            ELSE None
       ELSE IF m_done /\ r2.req.dc_req
            THEN [id |-> r2.req.id, dw |-> r2.req.dw, probe |-> FALSE, retry |-> TRUE]
            ELSE None

\* variant: the store data always come from stage 1
DataFromStage1 == r1.req.id

(* d_out.data, which follows the request by a cycle: whose data it is. *)
d_out_data == IF stage1_dreq THEN r1.req.id ELSE r2.req.id
-----------------------------------------------------------------------------
(* The data cache: a request sits in r0 for a cycle (longer while the cache  *)
(* is full or held) and then hits, faults, or becomes the slow request that  *)
(* fills the cache until it is answered.  A request in r0 is dropped while   *)
(* an error is reported; a TLB probe has no answer.  The data of a request   *)
(* are sampled in the cycle after it.                                        *)
go(hold) == dc.r0 # None /\ dc.slow = None /\ ~hold /\ ~d_error

(* A retried request finds the translation the MMU has just checked. *)
Outcomes == IF ~go(FALSE) THEN {"hit"}
            ELSE {"hit", "slow", "intr"} \cup
                 (IF ~dc.r0.mmu /\ dc.r0.retry THEN {} ELSE {"fault"})

(* Whether the cache ends its slow request; whether a hashchk matches.       *)
SlowEnds == IF dc.slow = None THEN {TRUE} ELSE BOOLEAN
Matches  == IF d_valid /\ r2.req.k = "hashchk" THEN BOOLEAN ELSE {TRUE}

DcEdge(req, mreq, hold, outcome, finish) ==
    LET g == go(hold) /\ ~dc.r0.probe
        ends == dc.slow # None /\ finish
        answered == IF ends THEN dc.slow ELSE IF g /\ outcome = "hit" THEN dc.r0 ELSE None
        bad  == g /\ outcome \in {"fault", "intr"}
        new  == IF mreq THEN [mmu |-> TRUE, id |-> 0, dw |-> 0, probe |-> FALSE, retry |-> FALSE,
                              d_valid |-> TRUE, data |-> 0]
                ELSE IF req # None
                THEN [mmu |-> FALSE, id |-> req.id, dw |-> req.dw, probe |-> req.probe,
                      retry |-> req.retry, d_valid |-> FALSE, data |-> 0]
                ELSE None
        kept == IF dc.r0 = None \/ dc.r0.d_valid THEN dc.r0
                ELSE [dc.r0 EXCEPT !.data = d_out_data, !.d_valid = TRUE]
    IN dc' = [r0    |-> IF dc.slow = None /\ ~hold THEN new ELSE kept,
              slow  |-> IF ends THEN None ELSE IF g /\ outcome = "slow" THEN dc.r0 ELSE dc.slow,
              valid |-> IF answered # None /\ ~answered.mmu THEN answered ELSE None,
              error |-> IF bad /\ ~dc.r0.mmu THEN outcome ELSE "no",
              mmu   |-> (answered # None /\ answered.mmu) \/ (bad /\ dc.r0.mmu)]

(* The MMU: idle, walking, or waiting for the cache during a walk. *)
MmuEdge(mreq, answer) ==
    mmu' = [phase  |-> CASE mmureq -> "walk"
                         [] mmu.phase = "walk" /\ mreq -> "wait"
                         [] mmu.phase = "walk" /\ answer # "no" -> "idle"
                         [] mmu.phase = "wait" /\ dc.mmu -> "walk"
                         [] OTHER -> mmu.phase,
            left   |-> IF mmureq THEN MaxWalk ELSE IF mreq THEN mmu.left - 1 ELSE mmu.left,
            answer |-> answer]

(* What the MMU may do in a cycle: access the cache (mreq), answer, or neither. *)
MmuChoices ==
    {c \in {<<FALSE, "no">>, <<TRUE, "no">>, <<FALSE, "done">>, <<FALSE, "err">>} :
        /\ c # <<FALSE, "no">> => mmu.phase = "walk"
        /\ c[1] => mmu.left > 0
        /\ c[2] = "err" => r2.req.k # "tlbie"}

-----------------------------------------------------------------------------

NoInsn == [valid |-> FALSE, id |-> 0, k |-> "spr"]

(* execute1 sends an instruction only while busy = '0', and none in the      *)
(* cycle in which writeback takes the interrupt.                             *)
FromExecute1 ==
    IF busy \/ r3.interrupt THEN {NoInsn}
    ELSE {NoInsn} \cup
         {[valid |-> TRUE, k |-> k,
           id |-> CHOOSE i \in Id : \A n \in DOMAIN ops : ops[n].id # i] :
          k \in {x \in Kinds : /\ HashAlone /\ x \in Hash => ops = <<>>
                               /\ HashAlone => \A n \in DOMAIN ops : ops[n].k \notin Hash}}

(* Ghost: acks counts the answers an instruction has had from the cache, and *)
(* begun says that the cache has acted on one of its requests.               *)
OpsEdge(l_in, flush, hold) ==
    LET seen == [n \in DOMAIN ops |->
                   [ops[n] EXCEPT !.acks = IF d_valid /\ dc.valid.id = ops[n].id THEN @ + 1 ELSE @,
                                  !.begun = @ \/ (go(hold) /\ ~dc.r0.mmu /\ dc.r0.id = ops[n].id)]]
        rest == IF complete /\ ops # <<>> THEN Tail(seen) ELSE seen
    IN ops' = IF flush THEN <<>>
              ELSE IF l_in.valid
              THEN Append(rest, [id |-> l_in.id, k |-> l_in.k, acks |-> 0, begun |-> FALSE])
              ELSE rest

Clock(l_in, match, e2stall, outcome, finish, mchoice) ==
    LET flush == exception(match)
        req   == d_out(l_in, flush)
    IN /\ R1Edge(l_in, flush)
       /\ R2Edge(e2stall)
       /\ R3Edge(match, flush)
       /\ FlushingEdge(flush)
       /\ stage1_dreq' = stage1_dcreq(l_in, flush)
       /\ HashEdge(l_in, flush)
       /\ DcEdge(req, mchoice[1], e2stall, outcome, finish)
       /\ MmuEdge(mchoice[1], mchoice[2])
       /\ OpsEdge(l_in, flush, e2stall)

DcInit  == [r0 |-> None, slow |-> None, valid |-> None, error |-> "no", mmu |-> FALSE]
MmuInit == [phase |-> "idle", left |-> 0, answer |-> "no"]

Init == /\ r1 = [req |-> NoReq, busy |-> FALSE, issued |-> FALSE]
        /\ r2 = [req |-> NoReq, busy |-> FALSE, wait_dc |-> FALSE, wait_mmu |-> FALSE,
                 one_cycle |-> FALSE]
        /\ r3 = [state |-> "IDLE", complete |-> FALSE, interrupt |-> FALSE, stage1_en |-> TRUE]
        /\ flushing = FALSE /\ stage1_dreq = FALSE
        /\ hash_r = [active |-> FALSE, done |-> FALSE, step |-> 0, id |-> 0]
        /\ dc = DcInit /\ mmu = MmuInit /\ ops = <<>>

(* rst = '1': what the process does not reset keeps its value; stage1_dreq   *)
(* follows the request signals as ever.                                      *)
Reset == /\ r1' = [r1 EXCEPT !.busy = FALSE, !.issued = FALSE, !.req.valid = FALSE,
                             !.req.dc_req = FALSE, !.req.incomplete = FALSE]
         /\ r2' = [r2 EXCEPT !.req.valid = FALSE, !.busy = FALSE, !.wait_dc = FALSE,
                             !.wait_mmu = FALSE, !.one_cycle = FALSE]
         /\ r3' = [state |-> "IDLE", complete |-> FALSE, interrupt |-> FALSE, stage1_en |-> TRUE]
         /\ flushing' = FALSE /\ stage1_dreq' \in BOOLEAN
         /\ hash_r' = [active |-> FALSE, done |-> FALSE, step |-> 0, id |-> 0]
         /\ dc' = DcInit /\ mmu' = MmuInit /\ ops' = <<>>

(* e2stall comes from an FPU instruction younger than every load or store:   *)
(* it starts only when loadstore1 is empty.                                  *)
Next == \/ Reset
        \/ \E l_in \in FromExecute1, match \in Matches, finish \in SlowEnds, e2stall \in BOOLEAN,
              outcome \in Outcomes, mchoice \in MmuChoices :
               /\ e2stall => ops = <<>> /\ ~l_in.valid
               /\ Clock(l_in, match, e2stall, outcome, finish, mchoice)

Spec == Init /\ [][Next]_vars
-----------------------------------------------------------------------------

ReqType == [valid : BOOLEAN, id : Id, k : AllKinds, dc_req : BOOLEAN,
            incomplete : BOOLEAN, dw : {0, 1}]

DcReqType == [mmu : BOOLEAN, id : Id, dw : {0, 1}, probe : BOOLEAN, retry : BOOLEAN,
              d_valid : BOOLEAN, data : Id]

TypeOK ==
    /\ r1 \in [req : ReqType, busy : BOOLEAN, issued : BOOLEAN]
    /\ r2 \in [req : ReqType, busy : BOOLEAN, wait_dc : BOOLEAN, wait_mmu : BOOLEAN,
               one_cycle : BOOLEAN]
    /\ r3 \in [state : {"IDLE", "MMU_WAIT"}, complete : BOOLEAN, interrupt : BOOLEAN,
               stage1_en : BOOLEAN]
    /\ flushing \in BOOLEAN
    /\ stage1_dreq \in BOOLEAN
    /\ hash_r \in [active : BOOLEAN, done : BOOLEAN, step : 0 .. HashSteps - 1, id : Id]
    /\ dc \in [r0 : DcReqType \cup {None}, slow : DcReqType \cup {None},
               valid : DcReqType \cup {None}, error : {"no", "fault", "intr"}, mmu : BOOLEAN]
    /\ mmu \in [phase : {"idle", "walk", "wait"}, left : 0 .. MaxWalk, answer : {"no", "done", "err"}]
    /\ ops \in Seq([id : Id, k : AllKinds, acks : 0 .. 2, begun : BOOLEAN])
    /\ Len(ops) <= 3

(* The three assertions of loadstore1_reg (lines 401-410), and more: an      *)
(* answer of the cache belongs to the very doubleword that stage 2 waits     *)
(* for, whatever was dropped, retried or flushed in between.                 *)
AnswerExpected ==
    /\ d_valid => /\ r2.req.valid /\ r2.req.dc_req /\ r3.state = "IDLE"
                  /\ dc.valid.id = r2.req.id /\ dc.valid.dw = r2.req.dw
    /\ d_error => r2.req.valid /\ r2.req.dc_req /\ r3.state = "IDLE"
    /\ m_done \/ m_err => r2.req.valid /\ r3.state = "MMU_WAIT"

Needed(k) == IF k \notin Loads \cup Stores THEN 0 ELSE IF two_dwords(k) THEN 2 ELSE 1

AcksNow(op) == IF d_valid /\ dc.valid.id = op.id THEN op.acks + 1 ELSE op.acks

(* What l_out.valid reports is the oldest unfinished instruction, once, and  *)
(* only after the cache has answered each of its requests: one for a load or *)
(* store, two when it crosses a doubleword (lines 741, 1117-1121, 1201-1208, *)
(* 1336).                                                                    *)
OldestCompletes ==
    complete => /\ ops # <<>>
                /\ Head(ops).id = r2.req.id
                /\ AcksNow(Head(ops)) = Needed(Head(ops).k)

(* A load or store interrupt is precise: it is raised for the oldest         *)
(* unfinished instruction, nothing completes with it or in the cycle that    *)
(* reports it, and the cache has not acted on a request of a younger one     *)
(* (lines 396-398, 811-817, 1226-1259, 1358).                                *)
PreciseInterrupt ==
    /\ (\E match \in Matches : exception(match)) =>
           /\ ops # <<>> /\ ~complete
           /\ Head(ops).id = r2.req.id
           /\ \A n \in 2 .. Len(ops) : ~ops[n].begun
           /\ go(FALSE) => dc.r0.mmu \/ dc.r0.id = Head(ops).id
    /\ r3.interrupt => ~complete

(* Store data reach the cache a cycle after the request.  The data that the  *)
(* cache takes are those of the instruction whose request it acts on, also   *)
(* when the request waits in r0 or is sent again by stage 3 (lines           *)
(* 1309-1315).                                                               *)
DataFollowsRequest ==
    go(FALSE) /\ ~dc.r0.mmu /\ ~dc.r0.probe =>
        (IF dc.r0.d_valid THEN dc.r0.data ELSE d_out_data) = dc.r0.id

(* dcache.vhdl line 606, "request collision loadstore vs MMU": while a walk  *)
(* may access the cache, loadstore1 sends it nothing.                        *)
NoCollision == mmu.phase # "idle" => \A l_in \in FromExecute1 : d_out(l_in, FALSE) = None

(* The assertions of loadstore1_reg and of dcache's stage 0 that tie the     *)
(* unit, the cache and the MMU together: every answer is to the request that *)
(* waits for it, and no two requests meet.                                   *)
Handshakes == AnswerExpected /\ NoCollision

(* What a hashchk compares with the hash is the doubleword its own load      *)
(* returned, not one that a younger access returned (lines 1117-1125): a     *)
(* hash that matches in memory does not trap.                                *)
HashOwnData == d_valid /\ r2.req.k = "hashchk" => dc.valid.id = r2.req.id

(* Every instruction that is accepted is completed or interrupted, unless    *)
(* the core is reset.                                                        *)
Finishes == ops # <<>> ~> (complete \/ r3.interrupt \/ ops = <<>>)

(* The cache answers a slow request and the MMU ends a walk, in the end. *)
Prompt == \E l_in \in FromExecute1, match \in Matches, outcome \in Outcomes :
             \E mchoice \in {c \in MmuChoices : mmu.phase = "walk" => c # <<FALSE, "no">>} :
                 Clock(l_in, match, FALSE, outcome, TRUE, mchoice)

FairSpec == Spec /\ WF_vars(Prompt)
=============================================================================
