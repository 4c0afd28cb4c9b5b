---------------------------- MODULE DcacheSteps -----------------------------
(* One rising edge of the data cache, state by state: what each definition   *)
(* of Dcache does to the registers, the inductive invariants IInv and TagInv *)
(* and why a step of the state machine keeps their parts.  DcacheProofs puts *)
(* the parts together.                                                       *)
EXTENDS Dcache, Integers, TLAPS

R1Fields == {"full", "req", "state", "line", "dcbz", "write_bram", "write_tag", "slow_valid",
             "hit_load_valid", "reloading", "store_way", "store_row", "end_row", "rows_valid",
             "acks_pending", "stalled", "dec_acks", "wb", "fwd", "data_out", "ls_valid",
             "ls_error", "mmu_done", "mmu_error", "stcx_fail"}
WbFields == {"cyc", "stb", "we", "line", "row", "data", "sel"}
ReqFields == {"op", "k", "line", "row", "data", "sel", "mmu", "way", "is_hit", "hit_reload",
              "same_page", "valid"}
Shape(v) == DOMAIN v = R1Fields /\ DOMAIN v.wb = WbFields /\ DOMAIN v.req = ReqFields

States == {"IDLE", "RELOAD_WAIT_ACK", "STORE_WAIT_ACK", "NC_LOAD_WAIT_ACK", "DO_STCX", "FLUSH_CYCLE"}

-----------------------------------------------------------------------------
(* What the definitions of the model do to the registers, field by field.    *)

CommonDoes(v, g, victim, stall, ack) ==
    /\ Shape(v)
    /\ v.state = r1.state /\ v.line = r1.line /\ v.reloading = r1.reloading
    /\ v.store_row = r1.store_row /\ v.end_row = r1.end_row /\ v.rows_valid = r1.rows_valid
    /\ v.wb = r1.wb
    /\ v.slow_valid = FALSE /\ v.stcx_fail = FALSE /\ v.write_tag = FALSE
    /\ v.ls_valid = (g /\ req_op \in {"hit", "nop"} /\ ~r0.mmu)
    /\ v.mmu_done = (g /\ req_op = "hit" /\ r0.mmu)
    /\ v.ls_error = (g /\ req_op = "bad" /\ ~r0.mmu)
    /\ v.mmu_error = (g /\ req_op = "bad" /\ r0.mmu)
    /\ v.hit_load_valid = (g /\ req_op = "hit")
    /\ v.full = (IF g THEN req_op \in Slow ELSE r1.full)
    /\ ~g => v.req = r1.req
    /\ g /\ req_op \in Slow => v.req = FromR0(g)
    /\ v.acks_pending = acks
    /\ v.stalled = (stall /\ r1.wb.cyc) /\ v.dec_acks = (ack /\ r1.wb.cyc)
    /\ v.store_way = replace_way(victim)

(* The registers that every state sets. *)
LEMMA CommonIs ==
    ASSUME Shape(r1), NEW g \in BOOLEAN, NEW victim, NEW stall, NEW ack, NEW dat,
           NEW v, v = Common(g, victim, stall, ack, dat)
    PROVE  CommonDoes(v, g, victim, stall, ack)
  <1>1. DOMAIN r1 = R1Fields BY DEF Shape
  <1>2. DOMAIN v = R1Fields BY <1>1, Zenon DEF Common
  <1>3. /\ v.state = r1.state /\ v.line = r1.line /\ v.reloading = r1.reloading
        /\ v.store_row = r1.store_row /\ v.end_row = r1.end_row /\ v.rows_valid = r1.rows_valid
        /\ v.wb = r1.wb
        /\ v.slow_valid = FALSE /\ v.stcx_fail = FALSE /\ v.write_tag = FALSE
    BY <1>1, ZenonT(60) DEF Common, R1Fields
  <1>4. /\ v.ls_valid = (g /\ req_op \in {"hit", "nop"} /\ ~r0.mmu)
        /\ v.mmu_done = (g /\ req_op = "hit" /\ r0.mmu)
        /\ v.ls_error = (g /\ req_op = "bad" /\ ~r0.mmu)
        /\ v.mmu_error = (g /\ req_op = "bad" /\ r0.mmu)
        /\ v.hit_load_valid = (g /\ req_op = "hit")
        /\ v.full = (IF g THEN req_op \in Slow ELSE r1.full)
        /\ v.acks_pending = acks
        /\ v.stalled = (stall /\ r1.wb.cyc) /\ v.dec_acks = (ack /\ r1.wb.cyc)
        /\ v.store_way = replace_way(victim)
    BY <1>1, Zenon DEF Common, R1Fields
  <1>5. v.req = IF ~g THEN r1.req ELSE IF req_op \in Slow THEN FromR0(g)
                ELSE [NoSlow EXCEPT !.k = r0.op, !.data = FromR0(g).data]
    BY <1>1, Zenon DEF Common, R1Fields
  <1>6. DOMAIN v.req = ReqFields
    <2>1. CASE ~g BY <1>5, <2>1 DEF Shape
    <2>2. CASE g /\ req_op \in Slow
      <3>1. v.req = FromR0(g) BY <1>5, <2>2
      <3> QED BY <2>2, <3>1, Zenon DEF FromR0, ReqFields
    <2>3. CASE g /\ req_op \notin Slow
      <3>1. v.req = [NoSlow EXCEPT !.k = r0.op, !.data = FromR0(g).data] BY <1>5, <2>3
      <3> QED BY <3>1 DEF NoSlow, ReqFields
    <2> QED BY <2>1, <2>2, <2>3
  <1>7. DOMAIN v.wb = WbFields BY <1>3 DEF Shape
  <1> QED BY <1>2, <1>3, <1>4, <1>5, <1>6, <1>7, Zenon DEF Shape, CommonDoes

(* Two register records differ in the fields F only. *)
Same(n, v, F) == \A f \in R1Fields \ F : n[f] = v[f]

(* Fields that Idle changes in the same way whatever the request. *)
IdleKeeps(n, v, q) ==
    /\ Shape(n)
    /\ n.store_row = q.row /\ n.end_row = (q.row + NumRows - 1) % NumRows
    /\ n.line = q.line /\ n.rows_valid = [r \in Rows |-> FALSE]
    /\ n.req = [v.req EXCEPT !.hit_reload = TRUE]
    /\ n.store_way = (IF q.is_hit THEN q.way ELSE v.store_way)
    /\ n.wb.row = q.row
    /\ n.acks_pending = v.acks_pending /\ n.stalled = v.stalled /\ n.dec_acks = v.dec_acks
    /\ n.ls_error = v.ls_error /\ n.mmu_error = v.mmu_error
    /\ n.hit_load_valid = v.hit_load_valid

(* A register record answers nothing beyond what v answers, is full as v is. *)
SameAnswers(n, v) ==
    /\ n.full = v.full /\ n.ls_valid = v.ls_valid /\ n.mmu_done = v.mmu_done
    /\ n.slow_valid = v.slow_valid /\ n.stcx_fail = v.stcx_fail

(* A register record answers the slow request, as one of the MMU (m) or not. *)
AnswersSlow(n, v, m) ==
    /\ n.full = FALSE /\ n.ls_valid = (v.ls_valid \/ ~m) /\ n.mmu_done = (v.mmu_done \/ m)
    /\ n.slow_valid = TRUE /\ n.stcx_fail = v.stcx_fail

FailsStcx(n, v) ==
    /\ n.full = FALSE /\ n.ls_valid = TRUE /\ n.mmu_done = v.mmu_done
    /\ n.slow_valid = v.slow_valid /\ n.stcx_fail = TRUE

(* The state, the reload flags and the strobes of a register record. *)
Doing(n, state, cyc, stb, reloading, write_tag) ==
    /\ n.state = state /\ n.wb.cyc = cyc /\ n.wb.stb = stb
    /\ n.reloading = reloading /\ n.write_tag = write_tag

(* b starts a bus access from u. *)
Started(b, u, s, stb) ==
    /\ Shape(b) /\ b.state = s /\ b.wb.cyc = TRUE /\ b.wb.stb = stb /\ b.wb.row = u.wb.row
    /\ Same(b, u, {"state", "wb"})

(* The start of a bus access. *)
LEMMA BusIs ==
    ASSUME NEW u, Shape(u), NEW s, NEW we, NEW stb,
           NEW b, b = [u EXCEPT !.state = s, !.wb = [u.wb EXCEPT !.we = we, !.cyc = TRUE, !.stb = stb]]
    PROVE  Started(b, u, s, stb)
  BY Zenon DEF Started, Shape, Same, R1Fields, WbFields

(* n gives up the bus of c. *)
Ended(n, c) ==
    /\ Shape(n) /\ n.state = "IDLE" /\ n.wb.cyc = FALSE /\ n.wb.stb = FALSE /\ n.wb.row = c.wb.row
    /\ Same(n, c, {"state", "wb"})

(* The end of a bus access. *)
LEMMA BusEndIs ==
    ASSUME NEW c, Shape(c),
           NEW n, n = [c EXCEPT !.state = "IDLE", !.wb = [c.wb EXCEPT !.cyc = FALSE, !.stb = FALSE]]
    PROVE  Ended(n, c)
  BY Zenon DEF Ended, Shape, Same, R1Fields, WbFields

(* The end of a store conditional that failed. *)
LEMMA StcxEndIs ==
    ASSUME NEW c, Shape(c), NEW n, n = [c EXCEPT !.state = "IDLE", !.wb.cyc = FALSE]
    PROVE  /\ Shape(n) /\ Same(n, c, {"state", "wb"}) /\ n.state = "IDLE" /\ n.wb.cyc = FALSE
           /\ n.wb.stb = c.wb.stb /\ n.wb.row = c.wb.row
  BY Zenon DEF Shape, Same, R1Fields, WbFields

(* An answer of the slow machine. *)
LEMMA AnsweredIs ==
    ASSUME NEW v, Shape(v), NEW m, NEW n, n = Answered(v, m)
    PROVE  /\ Shape(n) /\ AnswersSlow(n, v, m)
           /\ Same(n, v, {"full", "slow_valid", "ls_valid", "mmu_done"})
  BY Zenon DEF Answered, Shape, Same, AnswersSlow, R1Fields

(* A failed stcx. *)
LEMMA StcxFailedIs ==
    ASSUME NEW v, Shape(v), NEW n, n = StcxFailed(v)
    PROVE  Shape(n) /\ FailsStcx(n, v) /\ Same(n, v, {"full", "ls_valid", "stcx_fail"})
  BY Zenon DEF StcxFailed, Shape, Same, FailsStcx, R1Fields

(* The fields common to all requests survive what the request adds. *)
LEMMA IdleKept ==
    ASSUME NEW u, NEW v, NEW q, NEW n, IdleKeeps(u, v, q), Shape(n), n.wb.row = u.wb.row,
           Same(n, u, {"state", "wb", "reloading", "write_tag", "write_bram", "full", "slow_valid",
                       "ls_valid", "mmu_done", "stcx_fail"})
    PROVE  IdleKeeps(n, v, q)
  BY DEF IdleKeeps, Same, R1Fields

(* The new registers of IDLE, by the request it takes. *)
IdleDoes(n, v, q) ==
    /\ IdleKeeps(n, v, q)
    /\ q.op = "lmiss" /\ q.k = "ncload" =>
         SameAnswers(n, v) /\ Doing(n, "NC_LOAD_WAIT_ACK", TRUE, TRUE, v.reloading, v.write_tag)
    /\ q.op = "lmiss" /\ q.k # "ncload" =>
         SameAnswers(n, v) /\ Doing(n, "RELOAD_WAIT_ACK", TRUE, TRUE, TRUE, TRUE)
    /\ q.op = "store" /\ q.k = "stcx" =>
         IF reserved
         THEN SameAnswers(n, v) /\ Doing(n, "DO_STCX", TRUE, FALSE, v.reloading, v.write_tag)
         ELSE FailsStcx(n, v) /\ Doing(n, v.state, v.wb.cyc, v.wb.stb, v.reloading, v.write_tag)
    /\ q.op = "store" /\ q.k = "dcbz" =>
         SameAnswers(n, v) /\ Doing(n, "RELOAD_WAIT_ACK", TRUE, TRUE, TRUE, ~q.is_hit)
    /\ q.op = "store" /\ q.k \notin {"stcx", "dcbz"} =>
         AnswersSlow(n, v, q.mmu) /\ Doing(n, "STORE_WAIT_ACK", TRUE, TRUE, v.reloading, v.write_tag)
    /\ q.op = "flush" =>
         SameAnswers(n, v) /\ Doing(n, "FLUSH_CYCLE", v.wb.cyc, v.wb.stb, v.reloading, v.write_tag)
    /\ q.op = "sync" =>
         AnswersSlow(n, v, FALSE) /\ Doing(n, v.state, v.wb.cyc, v.wb.stb, v.reloading, v.write_tag)
    /\ q.op \notin Slow =>
         SameAnswers(n, v) /\ Doing(n, v.state, v.wb.cyc, v.wb.stb, v.reloading, v.write_tag)

(* What IDLE makes of each request. *)
LEMMA IdleIs ==
    ASSUME NEW v, Shape(v), NEW q, NEW n, n = Idle(v, q)
    PROVE  IdleDoes(n, v, q)
  <1> DEFINE u == [v EXCEPT !.wb = [v.wb EXCEPT !.line = q.line, !.row = q.row, !.data = q.data,
                                                !.sel = q.sel],
                            !.dcbz = q.k = "dcbz", !.store_row = q.row,
                            !.end_row = (q.row + NumRows - 1) % NumRows, !.line = q.line,
                            !.req.hit_reload = TRUE,
                            !.store_way = IF q.is_hit THEN q.way ELSE v.store_way,
                            !.rows_valid = [r \in Rows |-> FALSE]]
             Bus(s, we, stb) == [u EXCEPT !.state = s,
                                          !.wb = [u.wb EXCEPT !.we = we, !.cyc = TRUE, !.stb = stb]]
  <1>1. IdleKeeps(u, v, q) /\ SameAnswers(u, v) /\ u.state = v.state /\ u.wb.cyc = v.wb.cyc
        /\ u.wb.stb = v.wb.stb /\ u.reloading = v.reloading /\ u.write_tag = v.write_tag
    BY ZenonT(60) DEF IdleKeeps, SameAnswers, Shape, R1Fields, WbFields, ReqFields
  <1>2. n = CASE q.op = "lmiss" /\ q.k = "ncload" -> Bus("NC_LOAD_WAIT_ACK", FALSE, TRUE)
         [] q.op = "lmiss" /\ q.k # "ncload" ->
                [Bus("RELOAD_WAIT_ACK", FALSE, TRUE) EXCEPT !.reloading = TRUE, !.write_tag = TRUE]
         [] q.op = "store" /\ q.k = "stcx" ->
                IF reserved THEN Bus("DO_STCX", TRUE, FALSE) ELSE StcxFailed(u)
         [] q.op = "store" /\ q.k = "dcbz" ->
                [Bus("RELOAD_WAIT_ACK", TRUE, TRUE) EXCEPT !.reloading = TRUE,
                                                          !.write_tag = ~q.is_hit]
         [] q.op = "store" /\ q.k \notin {"stcx", "dcbz"} ->
                Answered([Bus("STORE_WAIT_ACK", TRUE, TRUE) EXCEPT !.write_bram = q.is_hit], q.mmu)
         [] q.op = "flush" -> [u EXCEPT !.state = "FLUSH_CYCLE"]
         [] q.op = "sync"  -> Answered(u, FALSE)
         [] q.op \notin Slow -> u
    BY Zenon DEF Idle
  <1> HIDE DEF u
  <1>s. Shape(u) BY <1>1 DEF IdleKeeps
  <1>3. ASSUME NEW s, NEW we, NEW stb
        PROVE  Started(Bus(s, we, stb), u, s, stb)
    BY <1>s, BusIs, Zenon
  <1> HIDE DEF Bus
  <1>4. ASSUME q.op = "lmiss" /\ q.k = "ncload"
        PROVE  /\ IdleKeeps(n, v, q) /\ SameAnswers(n, v)
               /\ Doing(n, "NC_LOAD_WAIT_ACK", TRUE, TRUE, v.reloading, v.write_tag)
    <2>1. n = Bus("NC_LOAD_WAIT_ACK", FALSE, TRUE) BY <1>2, <1>4 DEF Slow
    <2>2. Started(n, u, "NC_LOAD_WAIT_ACK", TRUE) BY <1>3, <2>1, Zenon
    <2>3. IdleKeeps(n, v, q) BY <1>1, <2>2, IdleKept DEF Same, Started
    <2> QED BY <1>1, <2>2, <2>3 DEF Started, Same, R1Fields, SameAnswers, Doing
  <1>5. ASSUME q.op = "lmiss" /\ q.k # "ncload"
        PROVE  /\ IdleKeeps(n, v, q) /\ SameAnswers(n, v)
               /\ Doing(n, "RELOAD_WAIT_ACK", TRUE, TRUE, TRUE, TRUE)
    <2> DEFINE b == Bus("RELOAD_WAIT_ACK", FALSE, TRUE)
    <2>1. Started(b, u, "RELOAD_WAIT_ACK", TRUE) BY <1>3, Zenon
    <2> HIDE DEF b
    <2>2. n = [b EXCEPT !.reloading = TRUE, !.write_tag = TRUE] BY <1>2, <1>5 DEF Slow, b
    <2>3. /\ Shape(n) /\ Same(n, b, {"reloading", "write_tag"}) /\ n.reloading = TRUE /\ n.write_tag = TRUE
          /\ n.wb = b.wb /\ n.state = b.state
      BY <2>1, <2>2, Zenon DEF Started, Shape, Same, R1Fields
    <2>4. IdleKeeps(n, v, q) BY <1>1, <2>1, <2>3, IdleKept DEF Same, Started
    <2> QED BY <1>1, <2>1, <2>3, <2>4 DEF Started, Same, R1Fields, SameAnswers, Doing
  <1>6. ASSUME q.op = "store" /\ q.k = "stcx"
        PROVE  /\ IdleKeeps(n, v, q)
               /\ IF reserved
                  THEN SameAnswers(n, v) /\ Doing(n, "DO_STCX", TRUE, FALSE, v.reloading, v.write_tag)
                  ELSE FailsStcx(n, v) /\ Doing(n, v.state, v.wb.cyc, v.wb.stb, v.reloading, v.write_tag)
    <2>1. n = IF reserved THEN Bus("DO_STCX", TRUE, FALSE) ELSE StcxFailed(u) BY <1>2, <1>6 DEF Slow
    <2>2. CASE reserved
      <3>2. Started(n, u, "DO_STCX", FALSE) BY <1>3, <2>1, <2>2, Zenon
      <3>3. IdleKeeps(n, v, q) BY <1>1, <3>2, IdleKept DEF Same, Started
      <3> QED BY <1>1, <2>2, <3>2, <3>3 DEF Started, Same, R1Fields, SameAnswers, Doing
    <2>3. CASE ~reserved
      <3>1. Shape(n) /\ FailsStcx(n, u) /\ Same(n, u, {"full", "ls_valid", "stcx_fail"})
        BY <1>s, <2>1, <2>3, StcxFailedIs
      <3>2. n.wb = u.wb BY <3>1 DEF Same, R1Fields
      <3>3. IdleKeeps(n, v, q) BY <1>1, <3>1, <3>2, IdleKept DEF Same
      <3> QED BY <1>1, <2>3, <3>1, <3>2, <3>3 DEF Same, R1Fields, SameAnswers, FailsStcx, Doing
    <2> QED BY <2>2, <2>3, Zenon
  <1>7. ASSUME q.op = "store" /\ q.k = "dcbz"
        PROVE  /\ IdleKeeps(n, v, q) /\ SameAnswers(n, v)
               /\ Doing(n, "RELOAD_WAIT_ACK", TRUE, TRUE, TRUE, ~q.is_hit)
    <2> DEFINE b == Bus("RELOAD_WAIT_ACK", TRUE, TRUE)
    <2>1. Started(b, u, "RELOAD_WAIT_ACK", TRUE) BY <1>3, Zenon
    <2> HIDE DEF b
    <2>2. n = [b EXCEPT !.reloading = TRUE, !.write_tag = ~q.is_hit] BY <1>2, <1>7 DEF Slow, b
    <2>3. /\ Shape(n) /\ Same(n, b, {"reloading", "write_tag"}) /\ n.reloading = TRUE
          /\ n.write_tag = ~q.is_hit /\ n.wb = b.wb /\ n.state = b.state
      BY <2>1, <2>2, Zenon DEF Started, Shape, Same, R1Fields
    <2>4. IdleKeeps(n, v, q) BY <1>1, <2>1, <2>3, IdleKept DEF Same, Started
    <2> QED BY <1>1, <2>1, <2>3, <2>4 DEF Started, Same, R1Fields, SameAnswers, Doing
  <1>8. ASSUME q.op = "store" /\ q.k \notin {"stcx", "dcbz"}
        PROVE  /\ IdleKeeps(n, v, q) /\ AnswersSlow(n, v, q.mmu)
               /\ Doing(n, "STORE_WAIT_ACK", TRUE, TRUE, v.reloading, v.write_tag)
    <2> DEFINE b == Bus("STORE_WAIT_ACK", TRUE, TRUE)
               c == [b EXCEPT !.write_bram = q.is_hit]
    <2>1. Started(b, u, "STORE_WAIT_ACK", TRUE) BY <1>3, Zenon
    <2>2. n = Answered(c, q.mmu) BY <1>2, <1>8 DEF Slow
    <2> HIDE DEF b
    <2>3. Shape(c) /\ Same(c, b, {"write_bram"}) BY <2>1 DEF Started, Shape, Same, R1Fields
    <2> HIDE DEF c
    <2>4. /\ Shape(n) /\ AnswersSlow(n, c, q.mmu) /\ Same(n, c, {"full", "slow_valid", "ls_valid", "mmu_done"})
      BY <2>2, <2>3, AnsweredIs
    <2>5. n.wb = b.wb /\ n.state = b.state BY <2>3, <2>4 DEF Same, R1Fields
    <2>6. IdleKeeps(n, v, q) BY <1>1, <2>1, <2>3, <2>4, <2>5, IdleKept DEF Same, Started
    <2>7. SameAnswers(c, v) BY <1>1, <2>1, <2>3 DEF Started, Same, R1Fields, SameAnswers
    <2>8. AnswersSlow(n, v, q.mmu) BY <2>4, <2>7 DEF SameAnswers, AnswersSlow
    <2> QED BY <1>1, <2>1, <2>3, <2>4, <2>5, <2>6, <2>8 DEF Started, Same, R1Fields, Doing
  <1>9. ASSUME q.op = "flush"
        PROVE  /\ IdleKeeps(n, v, q) /\ SameAnswers(n, v)
               /\ Doing(n, "FLUSH_CYCLE", v.wb.cyc, v.wb.stb, v.reloading, v.write_tag)
    <2>1. n = [u EXCEPT !.state = "FLUSH_CYCLE"] BY <1>2, <1>9 DEF Slow
    <2>2. Shape(n) /\ Same(n, u, {"state"}) /\ n.state = "FLUSH_CYCLE" /\ n.wb = u.wb
      BY <1>s, <2>1 DEF Shape, Same, R1Fields
    <2>3. IdleKeeps(n, v, q) BY <1>1, <2>2, IdleKept DEF Same
    <2> QED BY <1>1, <2>2, <2>3 DEF Same, R1Fields, SameAnswers, Doing
  <1>10. ASSUME q.op = "sync"
         PROVE  /\ IdleKeeps(n, v, q) /\ AnswersSlow(n, v, FALSE)
                /\ Doing(n, v.state, v.wb.cyc, v.wb.stb, v.reloading, v.write_tag)
    <2>1. n = Answered(u, FALSE) BY <1>2, <1>10 DEF Slow
    <2>2. /\ Shape(n) /\ AnswersSlow(n, u, FALSE) /\ Same(n, u, {"full", "slow_valid", "ls_valid", "mmu_done"})
      BY <1>s, <2>1, AnsweredIs, Zenon
    <2>3. n.wb = u.wb BY <2>2 DEF Same, R1Fields
    <2>4. IdleKeeps(n, v, q) BY <1>1, <2>2, <2>3, IdleKept DEF Same
    <2>5. AnswersSlow(n, v, FALSE) BY <1>1, <2>2 DEF SameAnswers, AnswersSlow
    <2> QED BY <1>1, <2>2, <2>3, <2>4, <2>5, Zenon DEF Same, R1Fields, Doing
  <1>11. ASSUME q.op \notin Slow
         PROVE  /\ SameAnswers(n, v) /\ IdleKeeps(n, v, q)
                /\ Doing(n, v.state, v.wb.cyc, v.wb.stb, v.reloading, v.write_tag)
    <2>1. n = u BY <1>2, <1>11 DEF Slow
    <2> QED BY <1>1, <2>1 DEF Doing
  <1>12. q.op \in {"lmiss", "store", "flush", "sync"} \/ q.op \notin Slow BY DEF Slow
  <1> QED BY <1>4, <1>5, <1>6, <1>7, <1>8, <1>9, <1>10, <1>11, <1>12, Zenon DEF IdleDoes

(* The answers of a register record are bits. *)
BoolAnswers(v) == /\ v.full \in BOOLEAN /\ v.slow_valid \in BOOLEAN
                  /\ v.ls_valid \in BOOLEAN /\ v.mmu_done \in BOOLEAN

(* A cycle of a reload. *)
ReloadDoes(n, v, q, stall, ack) ==
    LET sent == ~stall /\ r1.wb.stb
        last == ack /\ r1.store_row = r1.end_row
        row  == ack /\ row_wanted(q)
    IN /\ Shape(n)
       /\ n.full = (v.full /\ ~touch_done /\ ~row)
       /\ n.slow_valid = (v.slow_valid \/ touch_done \/ row)
       /\ n.ls_valid = (v.ls_valid \/ touch_done \/ (row /\ ~q.mmu))
       /\ n.mmu_done = (v.mmu_done \/ (row /\ q.mmu))
       /\ n.wb.stb = (IF sent THEN r1.wb.row # r1.end_row ELSE v.wb.stb)
       /\ n.wb.row = (IF sent THEN next_row(v.wb.row) ELSE v.wb.row)
       /\ n.wb.cyc = (v.wb.cyc /\ ~last) /\ n.reloading = (v.reloading /\ ~last)
       /\ n.state = (IF last THEN "IDLE" ELSE v.state)
       /\ n.store_row = (IF ack THEN next_row(v.store_row) ELSE v.store_row)
       /\ n.rows_valid = (IF ack THEN [v.rows_valid EXCEPT ![r1.store_row] = TRUE] ELSE v.rows_valid)
       /\ Same(n, v, {"full", "ls_valid", "mmu_done", "slow_valid", "wb", "reloading", "state",
                      "store_row", "rows_valid"})

(* RELOAD_WAIT_ACK does just that. *)
LEMMA ReloadIs ==
    ASSUME NEW v, Shape(v), BoolAnswers(v), v.wb.cyc \in BOOLEAN, v.reloading \in BOOLEAN,
           NEW q, q.mmu \in BOOLEAN, NEW stall \in BOOLEAN, NEW ack \in BOOLEAN,
           NEW n, n = Reload(v, q, stall, ack)
    PROVE  ReloadDoes(n, v, q, stall, ack)
  <1> DEFINE sent == ~stall /\ r1.wb.stb
             a == IF ~sent THEN v
                  ELSE [v EXCEPT !.wb = [v.wb EXCEPT !.stb = r1.wb.row # r1.end_row, !.row = next_row(@)]]
             b == IF touch_done THEN Answered(a, FALSE) ELSE a
             c == IF row_wanted(q) THEN Answered(b, q.mmu) ELSE b
             d == [c EXCEPT !.store_row = next_row(@)]
             e == IF ~ack THEN b
                  ELSE IF r1.store_row # r1.end_row THEN d
                  ELSE [d EXCEPT !.wb.cyc = FALSE, !.reloading = FALSE, !.state = "IDLE"]
             last == ack /\ r1.store_row = r1.end_row
             row  == ack /\ row_wanted(q)
  <1>1. n = IF row_written(ack) THEN [e EXCEPT !.rows_valid[r1.store_row] = TRUE] ELSE e
    BY Zenon DEF Reload
  <1>2. /\ Shape(a) /\ Same(a, v, {"wb"}) /\ a.wb.cyc = v.wb.cyc
        /\ a.wb.stb = (IF sent THEN r1.wb.row # r1.end_row ELSE v.wb.stb)
        /\ a.wb.row = (IF sent THEN next_row(v.wb.row) ELSE v.wb.row)
    BY DEF Shape, Same, R1Fields, WbFields
  <1> HIDE DEF a
  <1>3. /\ Shape(b) /\ Same(b, a, {"full", "slow_valid", "ls_valid", "mmu_done"})
        /\ b.full = (v.full /\ ~touch_done) /\ b.slow_valid = (v.slow_valid \/ touch_done)
        /\ b.ls_valid = (v.ls_valid \/ touch_done) /\ b.mmu_done = v.mmu_done
    <2>0. a.full = v.full /\ a.slow_valid = v.slow_valid /\ a.ls_valid = v.ls_valid /\ a.mmu_done = v.mmu_done
      BY <1>2 DEF Same, R1Fields
    <2>1. CASE touch_done
      <3>1. b = Answered(a, FALSE) BY <2>1
      <3>2. Shape(b) /\ AnswersSlow(b, a, FALSE) /\ Same(b, a, {"full", "slow_valid", "ls_valid", "mmu_done"})
        BY <1>2, <3>1, AnsweredIs, Zenon
      <3> QED BY <2>0, <2>1, <3>2, Zenon DEF AnswersSlow, BoolAnswers
    <2>2. CASE ~touch_done
      <3>1. b = a BY <2>2
      <3> QED BY <1>2, <2>0, <2>2, <3>1, Zenon DEF BoolAnswers, Same
    <2> QED BY <2>1, <2>2, Zenon
  <1> HIDE DEF b
  <1>4. /\ Shape(c) /\ Same(c, b, {"full", "slow_valid", "ls_valid", "mmu_done"})
        /\ c.full = (b.full /\ ~row_wanted(q)) /\ c.slow_valid = (b.slow_valid \/ row_wanted(q))
        /\ c.ls_valid = (b.ls_valid \/ (row_wanted(q) /\ ~q.mmu))
        /\ c.mmu_done = (b.mmu_done \/ (row_wanted(q) /\ q.mmu))
    <2>0. BoolAnswers(b) BY <1>3, Zenon DEF BoolAnswers
    <2>1. CASE row_wanted(q)
      <3>1. c = Answered(b, q.mmu) BY <2>1
      <3>2. Shape(c) /\ AnswersSlow(c, b, q.mmu) /\ Same(c, b, {"full", "slow_valid", "ls_valid", "mmu_done"})
        BY <1>3, <3>1, AnsweredIs
      <3> QED BY <2>0, <2>1, <3>2, Zenon DEF AnswersSlow, BoolAnswers
    <2>2. CASE ~row_wanted(q)
      <3>1. c = b BY <2>2
      <3> QED BY <1>3, <2>0, <2>2, <3>1, Zenon DEF BoolAnswers, Same
    <2> QED BY <2>1, <2>2
  <1> HIDE DEF c
  <1>5. Shape(d) /\ Same(d, c, {"store_row"}) /\ d.store_row = next_row(c.store_row)
    BY <1>4 DEF Shape, Same, R1Fields
  <1> HIDE DEF d
  <1> DEFINE z == [d EXCEPT !.wb.cyc = FALSE, !.reloading = FALSE, !.state = "IDLE"]
  <1>6. /\ Shape(z) /\ Same(z, d, {"wb", "reloading", "state"})
        /\ z.wb.cyc = FALSE /\ z.wb.stb = d.wb.stb /\ z.wb.row = d.wb.row
        /\ z.reloading = FALSE /\ z.state = "IDLE"
    BY <1>5, Zenon DEF Shape, Same, R1Fields, WbFields
  <1> HIDE DEF z
  <1>7. e = IF ~ack THEN b ELSE IF r1.store_row # r1.end_row THEN d ELSE z BY DEF z
  <1> HIDE DEF e
  <1>8. /\ a.full = v.full /\ a.slow_valid = v.slow_valid /\ a.ls_valid = v.ls_valid
        /\ a.mmu_done = v.mmu_done /\ a.reloading = v.reloading /\ a.state = v.state
        /\ a.store_row = v.store_row /\ a.rows_valid = v.rows_valid
    BY <1>2 DEF Same, R1Fields
  <1>9. /\ b.wb = a.wb /\ b.reloading = v.reloading /\ b.state = v.state
        /\ b.store_row = v.store_row /\ b.rows_valid = v.rows_valid
    BY <1>3, <1>8 DEF Same, R1Fields
  <1>10. /\ d.wb = a.wb /\ d.reloading = v.reloading /\ d.state = v.state
         /\ d.store_row = next_row(v.store_row) /\ d.rows_valid = v.rows_valid
         /\ d.full = c.full /\ d.slow_valid = c.slow_valid /\ d.ls_valid = c.ls_valid
         /\ d.mmu_done = c.mmu_done
    BY <1>4, <1>5, <1>9 DEF Same, R1Fields
  <1>11. /\ z.store_row = d.store_row /\ z.rows_valid = d.rows_valid
         /\ z.full = c.full /\ z.slow_valid = c.slow_valid /\ z.ls_valid = c.ls_valid
         /\ z.mmu_done = c.mmu_done
    BY <1>6, <1>10 DEF Same, R1Fields
  <1> DEFINE F == {"full", "ls_valid", "mmu_done", "slow_valid", "wb", "reloading", "state", "store_row"}
  <1>12. Same(b, v, F) /\ Same(d, v, F) /\ Same(z, v, F)
    BY <1>2, <1>3, <1>4, <1>5, <1>6 DEF Same
  <1> HIDE DEF F
  <1>13. /\ Shape(e)
         /\ e.full = (v.full /\ ~touch_done /\ ~row)
         /\ e.slow_valid = (v.slow_valid \/ touch_done \/ row)
         /\ e.ls_valid = (v.ls_valid \/ touch_done \/ (row /\ ~q.mmu))
         /\ e.mmu_done = (v.mmu_done \/ (row /\ q.mmu))
         /\ e.wb.stb = a.wb.stb /\ e.wb.row = a.wb.row
         /\ e.wb.cyc = (v.wb.cyc /\ ~last) /\ e.reloading = (v.reloading /\ ~last)
         /\ e.state = (IF last THEN "IDLE" ELSE v.state)
         /\ e.store_row = (IF ack THEN next_row(v.store_row) ELSE v.store_row)
         /\ e.rows_valid = v.rows_valid
         /\ Same(e, v, F)
    <2>1. CASE ~ack
      <3>1. e = b BY <1>7, <2>1
      <3> QED BY <1>2, <1>3, <1>9, <1>12, <2>1, <3>1, Zenon DEF BoolAnswers
    <2>2. CASE ack /\ r1.store_row # r1.end_row
      <3>1. e = d BY <1>7, <2>2
      <3> QED BY <1>2, <1>3, <1>4, <1>5, <1>10, <1>12, <2>2, <3>1, Zenon DEF BoolAnswers
    <2>3. CASE ack /\ r1.store_row = r1.end_row
      <3>1. e = z BY <1>7, <2>3
      <3> QED BY <1>2, <1>3, <1>4, <1>6, <1>10, <1>11, <1>12, <2>3, <3>1, Zenon DEF BoolAnswers
    <2> QED BY <2>1, <2>2, <2>3
  <1>14. /\ Shape(n) /\ Same(n, e, {"rows_valid"})
         /\ n.rows_valid = (IF ack THEN [v.rows_valid EXCEPT ![r1.store_row] = TRUE] ELSE v.rows_valid)
    <2>1. CASE ack
      <3>1. n = [e EXCEPT !.rows_valid[r1.store_row] = TRUE] BY <1>1, <2>1 DEF row_written
      <3>2. Shape(e) /\ e.rows_valid = v.rows_valid BY <1>13, Zenon
      <3>3. Shape(n) /\ Same(n, e, {"rows_valid"}) BY <3>1, <3>2 DEF Shape, Same, R1Fields
      <3>4. n.rows_valid = [e.rows_valid EXCEPT ![r1.store_row] = TRUE]
        BY <3>1, <3>2 DEF Shape, R1Fields
      <3> QED BY <2>1, <3>2, <3>3, <3>4, Zenon
    <2>2. CASE ~ack
      <3>1. n = e BY <1>1, <2>2 DEF row_written
      <3> QED BY <1>13, <2>2, <3>1, Zenon DEF Same
    <2> QED BY <2>1, <2>2
  <1>15. /\ n.full = e.full /\ n.slow_valid = e.slow_valid /\ n.ls_valid = e.ls_valid
         /\ n.mmu_done = e.mmu_done /\ n.wb = e.wb /\ n.reloading = e.reloading /\ n.state = e.state
         /\ n.store_row = e.store_row
    BY <1>14 DEF Same, R1Fields
  <1>16. Same(n, v, {"full", "ls_valid", "mmu_done", "slow_valid", "wb", "reloading", "state",
                     "store_row", "rows_valid"})
    BY <1>13, <1>14 DEF Same, F
  <1> QED BY <1>2, <1>13, <1>14, <1>15, <1>16, Zenon DEF ReloadDoes

Reloading(n, v, q, stall, ack) ==
    /\ Shape(v) /\ BoolAnswers(v) /\ v.wb.cyc \in BOOLEAN /\ v.reloading \in BOOLEAN
    /\ q.mmu \in BOOLEAN /\ stall \in BOOLEAN /\ ack \in BOOLEAN
    /\ n = Reload(v, q, stall, ack)

(* The same of a reload cycle, with what it takes in one predicate.         *)
LEMMA ReloadOf ==
    ASSUME NEW n, NEW v, NEW q, NEW stall, NEW ack, Reloading(n, v, q, stall, ack)
    PROVE  ReloadDoes(n, v, q, stall, ack)
  BY ReloadIs DEF Reloading

(* A cycle of stores: the next store that follows without giving up the bus  *)
(* is taken and answered, or the bus is given up when all is acknowledged.   *)
StoreNext(q, stall) == ~stall /\ follows(q) /\ room
StoreEnds(q, stall, ack) ==
    /\ IF stall THEN ~r1.wb.stb ELSE IF follows(q) THEN ~r1.wb.stb ELSE TRUE
    /\ ~StoreNext(q, stall) /\ all_acked(ack)
StoreDoes(n, v, q, stall, ack) ==
    LET next == StoreNext(q, stall)
        ends == StoreEnds(q, stall, ack)
    IN /\ Shape(n)
       /\ n.full = (v.full /\ ~next) /\ n.slow_valid = (v.slow_valid \/ next)
       /\ n.ls_valid = (v.ls_valid \/ next) /\ n.mmu_done = v.mmu_done
       /\ n.wb.cyc = (v.wb.cyc /\ ~ends)
       /\ n.wb.stb = (~ends /\ IF stall THEN v.wb.stb ELSE next)
       /\ n.wb.row \in {q.row, v.wb.row}
       /\ n.state = (IF ends THEN "IDLE" ELSE v.state)
       /\ n.store_row \in {q.row, v.store_row}
       /\ Same(n, v, {"full", "ls_valid", "mmu_done", "slow_valid", "wb", "state", "store_row",
                      "store_way", "write_bram"})

(* STORE_WAIT_ACK does just that. *)
LEMMA StoreIs ==
    ASSUME NEW v, Shape(v), BoolAnswers(v), v.wb.cyc \in BOOLEAN, v.wb.stb \in BOOLEAN,
           NEW q, NEW stall \in BOOLEAN, NEW ack \in BOOLEAN,
           NEW n, n = Store(v, q, stall, ack)
    PROVE  StoreDoes(n, v, q, stall, ack)
  <1> DEFINE next == ~stall /\ follows(q) /\ room
             done == IF stall THEN ~r1.wb.stb ELSE IF follows(q) THEN ~r1.wb.stb ELSE TRUE
             a == IF ~stall /\ q.valid
                  THEN [v EXCEPT !.wb = [v.wb EXCEPT !.line = IF q.same_page THEN q.line ELSE @,
                                                     !.row = q.row, !.data = q.data, !.sel = q.sel]]
                  ELSE v
             b == [a EXCEPT !.wb.stb = IF stall THEN @ ELSE next]
             b2 == [b EXCEPT !.store_way = q.way, !.store_row = q.row, !.write_bram = q.is_hit]
             c == IF next THEN Answered(b2, FALSE) ELSE b
             ends == done /\ ~next /\ all_acked(ack)
  <1>1. n = IF ends THEN [c EXCEPT !.state = "IDLE", !.wb = [c.wb EXCEPT !.cyc = FALSE, !.stb = FALSE]]
            ELSE c
    BY Zenon DEF Store
  <1>2. /\ Shape(a) /\ Same(a, v, {"wb"}) /\ a.wb.cyc = v.wb.cyc /\ a.wb.stb = v.wb.stb
        /\ a.wb.row \in {q.row, v.wb.row}
    BY DEF Shape, Same, R1Fields, WbFields
  <1> HIDE DEF a
  <1>3. /\ Shape(b) /\ Same(b, a, {"wb"}) /\ b.wb.cyc = a.wb.cyc
        /\ b.wb.stb = (IF stall THEN v.wb.stb ELSE next) /\ b.wb.row = a.wb.row
    BY <1>2 DEF Shape, Same, R1Fields, WbFields
  <1> HIDE DEF b
  <1>4. Shape(b2) /\ Same(b2, b, {"store_way", "store_row", "write_bram"}) /\ b2.store_row = q.row
    BY <1>3, Zenon DEF Shape, Same, R1Fields
  <1> HIDE DEF b2
  <1>5. /\ b.full = v.full /\ b.slow_valid = v.slow_valid /\ b.ls_valid = v.ls_valid
        /\ b.mmu_done = v.mmu_done /\ b.state = v.state /\ b.store_row = v.store_row
    BY <1>2, <1>3 DEF Same, R1Fields
  <1>6. /\ b2.full = v.full /\ b2.slow_valid = v.slow_valid /\ b2.ls_valid = v.ls_valid
        /\ b2.mmu_done = v.mmu_done /\ b2.state = v.state /\ b2.wb = b.wb
    BY <1>4, <1>5 DEF Same, R1Fields
  <1> DEFINE F == {"full", "ls_valid", "mmu_done", "slow_valid", "wb", "state", "store_row",
                   "store_way", "write_bram"}
  <1>7. Same(b, v, F) /\ Same(b2, v, F) BY <1>2, <1>3, <1>4 DEF Same
  <1>8. /\ Shape(c) /\ Same(c, v, F)
        /\ c.full = (v.full /\ ~next) /\ c.slow_valid = (v.slow_valid \/ next)
        /\ c.ls_valid = (v.ls_valid \/ next) /\ c.mmu_done = v.mmu_done
        /\ c.wb = b.wb /\ c.state = v.state /\ c.store_row \in {q.row, v.store_row}
    <2>1. CASE next
      <3>1. c = Answered(b2, FALSE) BY <2>1
      <3>2. Shape(c) /\ AnswersSlow(c, b2, FALSE) /\ Same(c, b2, {"full", "slow_valid", "ls_valid", "mmu_done"})
        BY <1>4, <3>1, AnsweredIs, Zenon
      <3>3. c.wb = b.wb /\ c.state = v.state /\ c.store_row = q.row
        BY <1>4, <1>6, <3>2, Zenon DEF Same, R1Fields
      <3>4. Same(c, v, F) BY <1>7, <3>2, Zenon DEF Same
      <3> HIDE DEF F
      <3> QED BY <1>6, <2>1, <3>2, <3>3, <3>4, Zenon DEF AnswersSlow, BoolAnswers
    <2>2. CASE ~next
      <3>1. c = b BY <2>2, Zenon
      <3> HIDE DEF F
      <3> QED BY <1>3, <1>5, <1>7, <2>2, <3>1, Zenon DEF BoolAnswers
    <2> QED BY <2>1, <2>2, Zenon
  <1> HIDE DEF c
  <1>9. CASE ~ends
    <2>1. n = c BY <1>1, <1>9
    <2>2. /\ next = StoreNext(q, stall) /\ ends = StoreEnds(q, stall, ack)
          /\ next \in BOOLEAN
      BY Zenon DEF StoreNext, StoreEnds
    <2> HIDE DEF next, ends
    <2>3. n.wb.stb = (~ends /\ IF stall THEN v.wb.stb ELSE next)
      BY <1>3, <1>8, <1>9, <2>1, <2>2
    <2>4. n.wb.cyc = (v.wb.cyc /\ ~ends) /\ n.state = (IF ends THEN "IDLE" ELSE v.state)
      BY <1>2, <1>3, <1>8, <1>9, <2>1
    <2> QED BY <1>2, <1>3, <1>8, <2>1, <2>2, <2>3, <2>4, Zenon DEF StoreDoes
  <1>10. CASE ends
    <2>1. n = [c EXCEPT !.state = "IDLE", !.wb = [c.wb EXCEPT !.cyc = FALSE, !.stb = FALSE]]
      BY <1>1, <1>10, Zenon
    <2>2. next = StoreNext(q, stall) /\ ends = StoreEnds(q, stall, ack)
      BY Zenon DEF StoreNext, StoreEnds
    <2> HIDE DEF next, ends
    <2>3. /\ Shape(n) /\ Same(n, c, {"state", "wb"}) /\ n.state = "IDLE"
          /\ n.wb.cyc = FALSE /\ n.wb.stb = FALSE /\ n.wb.row = c.wb.row
      <3>1. Shape(c) BY <1>8, Zenon
      <3>2. Ended(n, c) BY <2>1, <3>1, BusEndIs, Zenon
      <3> QED BY <3>2, Zenon DEF Ended
    <2>4. /\ n.full = c.full /\ n.slow_valid = c.slow_valid /\ n.ls_valid = c.ls_valid
          /\ n.mmu_done = c.mmu_done /\ n.store_row = c.store_row
      BY <2>3 DEF Same, R1Fields
    <2>5. Same(n, v, F) BY <1>8, <2>3 DEF Same
    <2> HIDE DEF F
    <2> QED BY <1>2, <1>3, <1>8, <1>10, <2>2, <2>3, <2>4, <2>5, Zenon DEF StoreDoes, F
  <1> QED BY <1>9, <1>10

(* A cycle of an uncached load, which is answered with its acknowledgement. *)
NcLoadDoes(n, v, stall, ack) ==
    /\ Shape(n)
    /\ IF ack THEN AnswersSlow(n, v, r1.req.mmu) ELSE SameAnswers(n, v)
    /\ n.wb.cyc = (v.wb.cyc /\ ~ack) /\ n.wb.stb = (v.wb.stb /\ stall /\ ~ack) /\ n.wb.row = v.wb.row
    /\ n.state = (IF ack THEN "IDLE" ELSE v.state)
    /\ Same(n, v, {"full", "ls_valid", "mmu_done", "slow_valid", "wb", "state"})

(* NC_LOAD_WAIT_ACK does just that. *)
LEMMA NcLoadIs ==
    ASSUME NEW v, Shape(v), v.wb.cyc \in BOOLEAN, v.wb.stb \in BOOLEAN,
           NEW stall \in BOOLEAN, NEW ack \in BOOLEAN, NEW n, n = NcLoad(v, stall, ack)
    PROVE  NcLoadDoes(n, v, stall, ack)
  <1>1. CASE ack
    <2> DEFINE e == [v EXCEPT !.state = "IDLE", !.wb = [v.wb EXCEPT !.cyc = FALSE, !.stb = FALSE]]
    <2>1. n = Answered(e, r1.req.mmu) BY <1>1, Zenon DEF NcLoad
    <2>2. Ended(e, v) BY BusEndIs, Zenon
    <2> HIDE DEF e
    <2>3. /\ Shape(n) /\ AnswersSlow(n, e, r1.req.mmu)
          /\ Same(n, e, {"full", "slow_valid", "ls_valid", "mmu_done"})
      BY <2>1, <2>2, AnsweredIs DEF Ended
    <2>4. n.wb = e.wb /\ n.state = e.state BY <2>3 DEF Same, R1Fields
    <2>5. SameAnswers(e, v) BY <2>2 DEF Ended, Same, R1Fields, SameAnswers
    <2>6. AnswersSlow(n, v, r1.req.mmu) BY <2>3, <2>5, Zenon DEF SameAnswers, AnswersSlow
    <2>7. Same(n, v, {"full", "ls_valid", "mmu_done", "slow_valid", "wb", "state"})
      BY <2>2, <2>3 DEF Same, Ended
    <2> QED BY <1>1, <2>2, <2>3, <2>4, <2>6, <2>7, Zenon DEF NcLoadDoes, Ended
  <1>2. CASE ~ack
    <2>1. n = [v EXCEPT !.wb.stb = @ /\ stall] BY <1>2, Zenon DEF NcLoad
    <2>2. /\ Shape(n) /\ Same(n, v, {"wb"}) /\ n.wb.cyc = v.wb.cyc /\ n.wb.row = v.wb.row
          /\ n.wb.stb = (v.wb.stb /\ stall)
      BY <2>1 DEF Shape, Same, R1Fields, WbFields
    <2>3. SameAnswers(n, v) /\ n.state = v.state BY <2>2 DEF Same, R1Fields, SameAnswers
    <2>4. Same(n, v, {"full", "ls_valid", "mmu_done", "slow_valid", "wb", "state"}) BY <2>2 DEF Same
    <2> QED BY <1>2, <2>2, <2>3, <2>4, Zenon DEF NcLoadDoes
  <1> QED BY <1>1, <1>2

(* The store of a stcx.: it fails, waits for the bus, or is sent. *)
StcxDoes(n, v, stall) ==
    /\ Shape(n) /\ n.wb.row = v.wb.row
    /\ Same(n, v, {"full", "ls_valid", "mmu_done", "slow_valid", "stcx_fail", "wb", "state", "write_bram"})
    /\ ~stcx_ok => FailsStcx(n, v) /\ n.state = "IDLE" /\ n.wb.cyc = FALSE /\ n.wb.stb = v.wb.stb
    /\ stcx_ok /\ stall => /\ SameAnswers(n, v) /\ n.state = v.state
                           /\ n.wb.cyc = v.wb.cyc /\ n.wb.stb = v.wb.stb
    /\ stcx_ok /\ ~stall => /\ AnswersSlow(n, v, FALSE) /\ n.state = "STORE_WAIT_ACK"
                            /\ n.wb.cyc = v.wb.cyc /\ n.wb.stb = TRUE

(* DO_STCX does just that. *)
LEMMA StcxIs ==
    ASSUME NEW v, Shape(v), NEW stall \in BOOLEAN, NEW n, n = Stcx(v, stall)
    PROVE  StcxDoes(n, v, stall)
  <1> DEFINE F == {"full", "ls_valid", "mmu_done", "slow_valid", "stcx_fail", "wb", "state", "write_bram"}
  <1>1. CASE ~stcx_ok
    <2> DEFINE f == StcxFailed(v)
    <2>1. n = [f EXCEPT !.state = "IDLE", !.wb.cyc = FALSE] BY <1>1, Zenon DEF Stcx
    <2>2. Shape(f) /\ FailsStcx(f, v) /\ Same(f, v, {"full", "ls_valid", "stcx_fail"}) BY StcxFailedIs
    <2> HIDE DEF f
    <2>3. /\ Shape(n) /\ Same(n, f, {"state", "wb"}) /\ n.state = "IDLE" /\ n.wb.cyc = FALSE
          /\ n.wb.stb = f.wb.stb /\ n.wb.row = f.wb.row
      BY <2>1, <2>2, StcxEndIs, Zenon
    <2>4. f.wb = v.wb BY <2>2 DEF Same, R1Fields
    <2>5. FailsStcx(n, v) BY <2>2, <2>3 DEF Same, R1Fields, FailsStcx
    <2>6. Same(n, v, F) BY <2>2, <2>3 DEF Same
    <2> QED BY <1>1, <2>3, <2>4, <2>5, <2>6, Zenon DEF StcxDoes
  <1>2. CASE stcx_ok /\ stall
    <2>1. n = v BY <1>2, Zenon DEF Stcx
    <2> QED BY <1>2, <2>1, Zenon DEF StcxDoes, SameAnswers, Same
  <1>3. CASE stcx_ok /\ ~stall
    <2> DEFINE e == [v EXCEPT !.write_bram = r1.req.is_hit, !.wb.stb = TRUE, !.state = "STORE_WAIT_ACK"]
    <2>1. n = Answered(e, FALSE) BY <1>3, Zenon DEF Stcx
    <2>2. /\ Shape(e) /\ Same(e, v, {"write_bram", "wb", "state"}) /\ e.state = "STORE_WAIT_ACK"
          /\ e.wb.stb = TRUE /\ e.wb.cyc = v.wb.cyc /\ e.wb.row = v.wb.row
      BY Zenon DEF Shape, Same, R1Fields, WbFields
    <2> HIDE DEF e
    <2>3. Shape(n) /\ AnswersSlow(n, e, FALSE) /\ Same(n, e, {"full", "slow_valid", "ls_valid", "mmu_done"})
      BY <2>1, <2>2, AnsweredIs, Zenon
    <2>4. n.wb = e.wb /\ n.state = e.state BY <2>3 DEF Same, R1Fields
    <2>5. SameAnswers(e, v) BY <2>2 DEF Same, R1Fields, SameAnswers
    <2>6. AnswersSlow(n, v, FALSE) BY <2>3, <2>5, Zenon DEF SameAnswers, AnswersSlow
    <2>7. Same(n, v, F) BY <2>2, <2>3 DEF Same
    <2> QED BY <1>3, <2>2, <2>3, <2>4, <2>6, <2>7, Zenon DEF StcxDoes
  <1> QED BY <1>1, <1>2, <1>3

(* The cycle that invalidates a flushed line answers its request. *)
LEMMA FlushIs ==
    ASSUME NEW v, Shape(v), NEW n, n = [Answered(v, FALSE) EXCEPT !.state = "IDLE"]
    PROVE  /\ Shape(n) /\ AnswersSlow(n, v, FALSE) /\ n.state = "IDLE"
           /\ Same(n, v, {"full", "ls_valid", "mmu_done", "slow_valid", "state"})
  <1> DEFINE a == Answered(v, FALSE)
  <1>1. Shape(a) /\ AnswersSlow(a, v, FALSE) /\ Same(a, v, {"full", "slow_valid", "ls_valid", "mmu_done"})
    BY AnsweredIs, Zenon
  <1>2. n = [a EXCEPT !.state = "IDLE"] OBVIOUS
  <1> HIDE DEF a
  <1>3. Shape(n) /\ Same(n, a, {"state"}) /\ n.state = "IDLE" BY <1>1, <1>2, Zenon DEF Shape, Same, R1Fields
  <1>4. AnswersSlow(n, v, FALSE) BY <1>1, <1>3, Zenon DEF AnswersSlow, Same, R1Fields
  <1> QED BY <1>1, <1>3, <1>4, Zenon DEF Same

-----------------------------------------------------------------------------
(* The inductive invariant, on a register record and the accesses of the bus *)

One(b) == IF b THEN 1 ELSE 0
(* Rows from a to b, going up and round. *)
Dist(a, b) == IF b >= a THEN b - a ELSE b - a + NumRows
(* acks of a register record. *)
Acks(r) == IF ~r.wb.cyc THEN 0
           ELSE IF r.wb.stb /\ ~r.stalled /\ ~r.dec_acks THEN (r.acks_pending + 1) % 8
           ELSE IF (~r.wb.stb \/ r.stalled) /\ r.dec_acks THEN (r.acks_pending + 7) % 8
           ELSE r.acks_pending

Bits(r) ==
    /\ Shape(r) /\ r.full \in BOOLEAN /\ r.ls_valid \in BOOLEAN /\ r.ls_error \in BOOLEAN
    /\ r.mmu_done \in BOOLEAN /\ r.mmu_error \in BOOLEAN /\ r.slow_valid \in BOOLEAN
    /\ r.wb.cyc \in BOOLEAN /\ r.wb.stb \in BOOLEAN /\ r.stalled \in BOOLEAN
    /\ r.dec_acks \in BOOLEAN /\ r.acks_pending \in 0..7

(* A request of the slow machine: its operation fits its kind. *)
Wf(q) ==
    /\ q.op \in Slow /\ q.row \in Rows /\ q.mmu \in BOOLEAN /\ q.is_hit \in BOOLEAN
    /\ q.hit_reload \in BOOLEAN
    /\ q.op = "lmiss" => q.k \in {"load", "larx", "ncload", "touch"}
    /\ q.op = "store" => q.k \in {"store", "stcx", "ncstore", "dcbz"}
    /\ q.op = "flush" => q.k = "dcbf"
    /\ q.op = "sync" => q.k = "sync" /\ q.hit_reload = FALSE
    /\ q.mmu => q.k = "load"

(* The state, the bus cycle, the reload and the request agree. *)
Control(r) ==
    /\ r.state \in States
    /\ r.reloading = (r.state = "RELOAD_WAIT_ACK")
    /\ r.wb.cyc = (r.state \notin {"IDLE", "FLUSH_CYCLE"})
    /\ r.full => Wf(r.req)
    /\ r.state = "NC_LOAD_WAIT_ACK" => r.full /\ r.req.k = "ncload"
    /\ r.state = "DO_STCX" => r.full /\ r.req.k = "stcx"
    /\ r.state = "FLUSH_CYCLE" => r.full /\ r.req.k = "dcbf"

(* The rows of a reload still to be requested and still to be received. *)
Fetching(w, s, e, len, stb) ==
    /\ w \in Rows /\ s \in Rows /\ e \in Rows
    /\ len + (IF stb THEN Dist(w, e) + 1 ELSE 0) = Dist(s, e) + 1

(* The accesses on the bus are those the state waits for. *)
BusOK(r, len) ==
    /\ ~r.wb.cyc => len = 0 /\ ~r.wb.stb
    /\ r.state = "STORE_WAIT_ACK" => Acks(r) = len + One(r.wb.stb) /\ len + One(r.wb.stb) <= MaxAcks
    /\ r.state = "RELOAD_WAIT_ACK" =>
         Fetching(r.wb.row, r.store_row, r.end_row, len, r.wb.stb)
    /\ r.state = "NC_LOAD_WAIT_ACK" => len + One(r.wb.stb) = 1
    /\ r.state = "DO_STCX" => len = 0 /\ ~r.wb.stb /\ r.acks_pending = 0 /\ ~r.dec_acks

(* The answers of a record: none, or one to the MMU (m) or to loadstore1. *)
NoAnswer(r) == r.ls_valid = FALSE /\ r.ls_error = FALSE /\ r.mmu_done = FALSE /\ r.mmu_error = FALSE
OneAnswer(r, m) == IF m THEN /\ r.ls_valid = FALSE /\ r.ls_error = FALSE
                             /\ r.mmu_done = ~r.mmu_error
                   ELSE /\ r.mmu_done = FALSE /\ r.mmu_error = FALSE
                        /\ r.ls_valid = ~r.ls_error

(* What an edge makes of the request q that it works on, if there is one.    *)
Settles(n, q, taken) ==
    /\ Bits(n)
    /\ n.full => taken /\ NoAnswer(n) /\ Wf(n.req) /\ n.req.k = q.k /\ n.req.mmu = q.mmu
    /\ ~n.full => IF taken THEN OneAnswer(n, q.mmu) ELSE NoAnswer(n)
    /\ ~(n.slow_valid /\ n.stcx_fail) /\ ~((n.slow_valid \/ n.stcx_fail) /\ n.hit_load_valid)
    /\ n.ls_valid /\ taken /\ q.k = "sync" => n.wb.cyc = FALSE

(* What the common part of an edge has made of it. *)
Took(v, q, taken) ==
    /\ v.slow_valid = FALSE /\ v.stcx_fail = FALSE
    /\ \/ taken /\ Wf(q) /\ v.full = TRUE /\ v.req = q /\ NoAnswer(v) /\ v.hit_load_valid = FALSE
       \/ /\ taken /\ q.op \notin Slow /\ v.full = FALSE /\ OneAnswer(v, q.mmu) /\ q.k # "sync"
          /\ q.hit_reload = FALSE /\ q.mmu \in BOOLEAN
          /\ v.ls_valid \in BOOLEAN /\ v.ls_error \in BOOLEAN /\ v.mmu_done \in BOOLEAN
          /\ v.mmu_error \in BOOLEAN
       \/ ~taken /\ q.op = "none" /\ v.full = FALSE /\ NoAnswer(v) /\ v.hit_load_valid = FALSE
          /\ q.hit_reload = FALSE /\ q.mmu = FALSE

Stepping(a, b) ==
    /\ Dist(a, b) \in Nat /\ (Dist(a, b) = 0 <=> a = b) /\ next_row(a) \in Rows
    /\ a # b => Dist(next_row(a), b) = Dist(a, b) - 1

(* Distances of rows. *)
LEMMA Distance ==
    ASSUME NEW a \in Rows, NEW b \in Rows
    PROVE  /\ Stepping(a, b) /\ Dist(a, b) <= NumRows - 1
           /\ (a + NumRows - 1) % NumRows \in Rows
           /\ Dist(a, (a + NumRows - 1) % NumRows) = NumRows - 1
  <1>1. NumRows \in Nat \ {0} BY DcacheAssumption
  <1>2. next_row(a) = IF a + 1 = NumRows THEN 0 ELSE a + 1 BY <1>1 DEF Rows, next_row
  <1>3. (a + NumRows - 1) % NumRows = IF a = 0 THEN NumRows - 1 ELSE a - 1 BY <1>1 DEF Rows
  <1> QED BY <1>1, <1>2, <1>3 DEF Rows, Dist, Stepping

(* The operation made of the request in r0. *)
LEMMA Operation ==
    ASSUME r0 \in Requests
    PROVE  /\ req_op \in Slow \cup {"hit", "nop", "bad"}
           /\ req_op = "lmiss" => r0.op \in {"load", "larx", "ncload", "touch"}
           /\ req_op = "store" => r0.op \in {"store", "stcx", "ncstore", "dcbz"}
           /\ req_op = "flush" => r0.op = "dcbf"
           /\ req_op = "sync" <=> r0.op = "sync"
           /\ req_op = "nop" => ~r0.mmu
  <1>1. /\ r0.op \in {"load", "larx", "ncload", "touch", "dcbf", "store", "stcx", "ncstore", "dcbz", "sync"}
        /\ r0.ok \in BOOLEAN /\ (r0.mmu => r0.op = "load")
    BY DEF Requests, Request
  <1>2. is_hit \in BOOLEAN /\ hit_reload \in BOOLEAN BY DEF is_hit, hit_reload
  <1>3. CASE r0.op = "sync" \/ ~r0.ok BY <1>1, <1>3 DEF req_op, Slow
  <1>4. CASE r0.ok /\ r0.op \in {"touch", "dcbf"} BY <1>1, <1>2, <1>4 DEF req_op, Slow
  <1>5. CASE r0.ok /\ r0.op \in {"load", "larx", "ncload"} BY <1>1, <1>2, <1>5 DEF req_op, Slow
  <1>6. CASE r0.ok /\ r0.op \in {"store", "stcx", "ncstore", "dcbz"}
    BY <1>1, <1>2, <1>6 DEF req_op, Slow
  <1> QED BY <1>1, <1>3, <1>4, <1>5, <1>6

(* A sequence of accesses, whatever they are. *)
IsSeq(s) == s \in Seq({s[i] : i \in DOMAIN s})

(* Every request asked and not answered is in r0, in r1.req or answered now. *)
Asked == [op : {"load", "larx", "ncload", "touch", "dcbf", "store", "stcx", "ncstore",
                "dcbz", "sync"}, mmu : BOOLEAN]
Queue ==
    /\ asked \in Seq(Asked)
    /\ Len(asked) = One(r0.op # "none") + One(r1.full \/ Answers)
    /\ r1.full => NoAnswer(r1) /\ asked[1] = [op |-> r1.req.k, mmu |-> r1.req.mmu]
    /\ Answers => OneAnswer(r1, asked[1].mmu)
    /\ r0.op # "none" => asked[Len(asked)] = [op |-> r0.op, mmu |-> r0.mmu]
    /\ r1.ls_valid /\ asked[1].op = "sync" => ~r1.wb.cyc
    /\ ~(r1.slow_valid /\ r1.stcx_fail) /\ ~((r1.slow_valid \/ r1.stcx_fail) /\ r1.hit_load_valid)

IInv == /\ Bits(r1) /\ Control(r1) /\ r0 \in Requests \cup {NoReq}
        /\ IsSeq(bus) /\ BusOK(r1, Len(bus)) /\ Queue

(* No valid way holds line l. *)
Absent(l) == \A w \in Ways : ~(valids[w] /\ tags[w] = l)
(* A request that will write the tag of its line. *)
Fills(q) == \/ q.op = "lmiss" /\ q.k # "ncload"
            \/ q.op = "store" /\ q.k = "dcbz" /\ ~q.is_hit
(* Row i of the line being reloaded is still to come. *)
ToCome(r, i) == Dist(r.store_row, i) <= Dist(r.store_row, r.end_row)

TagInv ==
    /\ valids \in [Ways -> BOOLEAN] /\ tags = [w \in Ways |-> tags[w]]
    /\ DOMAIN r1.rows_valid = Rows /\ OneWay
    /\ tag_set # tags => r1.full
    /\ r1.write_tag => /\ r1.state = "RELOAD_WAIT_ACK" /\ r1.full /\ r1.req.hit_reload
                       /\ bus = <<>> /\ Absent(r1.line)
    /\ r1.full /\ ~r1.req.hit_reload /\ Fills(r1.req) => Absent(r1.req.line)
    /\ r1.full /\ r1.req.hit_reload => r1.state \notin {"IDLE", "STORE_WAIT_ACK"}
    /\ r1.state = "RELOAD_WAIT_ACK" =>
         /\ \A i \in Rows : r1.rows_valid[i] \/ ToCome(r1, i)
         /\ r1.full /\ r1.req.hit_reload => ToCome(r1, r1.req.row)

-----------------------------------------------------------------------------
(* One edge, state by state.                                                 *)

(* The registers that the common part leaves to the state machine. *)
Ready(v, stall, ack) ==
    /\ Shape(v) /\ v.state = r1.state /\ v.reloading = r1.reloading /\ v.wb = r1.wb
    /\ v.store_row = r1.store_row /\ v.end_row = r1.end_row
    /\ v.acks_pending = Acks(r1) /\ v.stalled = (stall /\ r1.wb.cyc) /\ v.dec_acks = (ack /\ r1.wb.cyc)

(* The request that leaves stage 0. *)
LEMMA Fresh ==
    ASSUME NEW g, g = TRUE, NEW q, q = FromR0(g)
    PROVE  /\ q.op = req_op /\ q.k = r0.op /\ q.line = r0.line /\ q.row = r0.row /\ q.mmu = r0.mmu
           /\ q.is_hit = is_hit /\ q.hit_reload = (hit_reload /\ req_op = "lmiss")
  <1>1. q = [op |-> req_op, k |-> r0.op, line |-> r0.line, row |-> r0.row,
             data |-> IF r0.op = "dcbz" THEN Zero ELSE r0.data,
             sel |-> r0.op = "dcbz" \/ (load(r0) /\ ~nc(r0)) \/ r0.sel,
             mmu |-> r0.mmu, way |-> hit_way, is_hit |-> is_hit,
             hit_reload |-> hit_reload /\ req_op = "lmiss",
             same_page |-> Page[r0.line] = Page[r1.wb.line], valid |-> TRUE]
    BY DEF FromR0
  <1>2. q.op = req_op /\ q.k = r0.op /\ q.line = r0.line /\ q.row = r0.row /\ q.mmu = r0.mmu BY <1>1
  <1>3. q.is_hit = is_hit BY <1>1
  <1>4. q.hit_reload = (hit_reload /\ req_op = "lmiss") BY <1>1
  <1> QED BY <1>2, <1>3, <1>4, Zenon

(* The common part answers what needs no bus, and queues the rest. *)
LEMMA Taking ==
    ASSUME Bits(r1), Control(r1), r0 \in Requests \cup {NoReq}, NEW hold \in BOOLEAN,
           NEW g, g = go(hold), NEW q, q = Req(g),
           NEW victim, NEW stall, NEW ack, NEW dat, NEW v, v = Common(g, victim, stall, ack, dat)
    PROVE  g \in BOOLEAN /\ Took(v, q, r1.full \/ g) /\ Ready(v, stall, ack)
  <1>1. g \in BOOLEAN /\ (g => r0.op # "none" /\ ~r1.full) BY Zenon DEF go
  <1>2. Shape(r1) BY DEF Bits
  <1>c. CommonDoes(v, g, victim, stall, ack) BY <1>1, <1>2, CommonIs
  <1>3. Ready(v, stall, ack)
    BY <1>c, Zenon DEF CommonDoes, Ready, acks, Acks
  <1>4. /\ v.slow_valid = FALSE /\ v.stcx_fail = FALSE
        /\ v.ls_valid = (g /\ req_op \in {"hit", "nop"} /\ ~r0.mmu)
        /\ v.mmu_done = (g /\ req_op = "hit" /\ r0.mmu)
        /\ v.ls_error = (g /\ req_op = "bad" /\ ~r0.mmu)
        /\ v.mmu_error = (g /\ req_op = "bad" /\ r0.mmu)
        /\ v.hit_load_valid = (g /\ req_op = "hit")
        /\ v.full = (IF g THEN req_op \in Slow ELSE r1.full)
        /\ ~g => v.req = r1.req
        /\ g /\ req_op \in Slow => v.req = FromR0(g)
    BY <1>c, Zenon DEF CommonDoes
  <1>5. CASE r1.full
    <2>1. g = FALSE /\ q = r1.req BY <1>1, <1>5 DEF Req
    <2>2. Wf(q) BY <1>5, <2>1 DEF Control
    <2> QED BY <1>1, <1>3, <1>4, <1>5, <2>1, <2>2, Zenon DEF Took, NoAnswer
  <1>6. CASE ~r1.full /\ ~g
    <2>1. q = NoSlow /\ r1.full = FALSE BY <1>6 DEF Req, FromR0, Bits
    <2>2. q.op = "none" /\ q.hit_reload = FALSE /\ q.mmu = FALSE BY <2>1 DEF NoSlow
    <2> QED BY <1>1, <1>3, <1>4, <1>6, <2>1, <2>2, Zenon DEF Took, NoAnswer
  <1>7. CASE g
    <2>1. r0 \in Requests BY <1>1, <1>7 DEF NoReq
    <2>2. q = FromR0(g) /\ ~r1.full BY <1>1, <1>7, Zenon DEF Req
    <2>3. /\ q.op = req_op /\ q.k = r0.op /\ q.row = r0.row /\ q.mmu = r0.mmu /\ q.is_hit = is_hit
          /\ q.hit_reload = (hit_reload /\ req_op = "lmiss")
      BY <1>1, <1>7, <2>2, Fresh, Zenon
    <2>4. /\ r0.row \in Rows /\ r0.mmu \in BOOLEAN /\ is_hit \in BOOLEAN /\ hit_reload \in BOOLEAN
          /\ (r0.mmu => r0.op = "load")
      BY <2>1 DEF Requests, Request, is_hit, hit_reload
    <2>5. CASE req_op \in Slow
      <3>1. Wf(q) BY <2>1, <2>3, <2>4, <2>5, Operation DEF Wf
      <3>2. req_op \notin {"hit", "nop", "bad"} BY <2>5 DEF Slow
      <3>3. NoAnswer(v) /\ v.hit_load_valid = FALSE BY <1>4, <3>2, Zenon DEF NoAnswer
      <3> QED BY <1>1, <1>3, <1>4, <1>7, <2>2, <2>5, <3>1, <3>3, Zenon DEF Took
    <2>6. CASE req_op \notin Slow
      <3>1. req_op \in {"hit", "nop", "bad"} /\ r0.op # "sync" /\ (req_op = "nop" => ~r0.mmu)
        BY <2>1, <2>6, Operation DEF Slow
      <3>2. q.op \notin Slow /\ q.k # "sync" /\ q.hit_reload = FALSE /\ q.mmu \in BOOLEAN
        BY <2>3, <2>4, <2>6, <3>1, Zenon DEF Slow
      <3>3. /\ v.ls_valid \in BOOLEAN /\ v.ls_error \in BOOLEAN /\ v.mmu_done \in BOOLEAN
            /\ v.mmu_error \in BOOLEAN /\ v.full = FALSE
        <4>1. v.ls_valid \in BOOLEAN /\ v.ls_error \in BOOLEAN BY <1>4
        <4>2. v.mmu_done \in BOOLEAN /\ v.mmu_error \in BOOLEAN BY <1>4
        <4>3. v.full = (req_op \in Slow) BY <1>4, <1>7, Zenon
        <4>4. (req_op \in Slow) = FALSE BY <2>6
        <4> QED BY <4>1, <4>2, <4>3, <4>4, Zenon
      <3>4. OneAnswer(v, q.mmu)
        <4>1. CASE req_op = "hit" BY <1>4, <1>7, <2>3, <2>4, <4>1, Zenon DEF OneAnswer
        <4>2. CASE req_op = "nop" BY <1>4, <1>7, <2>3, <2>4, <3>1, <4>2, Zenon DEF OneAnswer
        <4>3. CASE req_op = "bad" BY <1>4, <1>7, <2>3, <2>4, <4>3, Zenon DEF OneAnswer
        <4> QED BY <3>1, <4>1, <4>2, <4>3
      <3> QED BY <1>1, <1>3, <1>4, <1>7, <3>2, <3>3, <3>4, Zenon DEF Took
    <2> QED BY <2>5, <2>6
  <1> QED BY <1>1, <1>5, <1>6, <1>7

(* The accesses of the bus after an edge. *)
Moves(len, len2, stall, ack) ==
    /\ len \in Nat /\ len2 \in Nat /\ stall \in BOOLEAN /\ ack \in BOOLEAN /\ (ack => len > 0)
    /\ len2 = len - One(ack) + One(r1.wb.cyc /\ r1.wb.stb /\ ~stall)
    /\ ~r1.wb.cyc => stall

(* What every state needs, and what it leaves. *)
Before(v, q, taken, stall, ack, len, len2) ==
    /\ Bits(r1) /\ Control(r1) /\ BusOK(r1, len) /\ Moves(len, len2, stall, ack)
    /\ Took(v, q, taken) /\ (r1.full => taken /\ q = r1.req) /\ taken \in BOOLEAN
    /\ Ready(v, stall, ack)
After(n, q, taken, len2) == Settles(n, q, taken) /\ Control(n) /\ BusOK(n, len2)

(* The count of outstanding stores keeps its width. *)
LEMMA AcksRange ==
    ASSUME Bits(r1) PROVE Acks(r1) \in 0..7
  BY DEF Acks, Bits

(* A request that is queued is the one the edge works on. *)
LEMMA Queued ==
    ASSUME NEW v, NEW q, NEW taken, NEW stall, NEW ack, NEW len, NEW len2,
           Before(v, q, taken, stall, ack, len, len2), r1.full
    PROVE  /\ taken = TRUE /\ q = r1.req /\ Wf(q) /\ v.full = TRUE /\ v.req = q /\ NoAnswer(v)
           /\ v.hit_load_valid = FALSE
  <1>1. taken /\ q = r1.req /\ Wf(q) /\ taken \in BOOLEAN BY Zenon DEF Before, Control
  <1>2. q.op \in Slow BY <1>1, Zenon DEF Wf
  <1> QED BY <1>1, <1>2, Zenon DEF Before, Took

(* The registers the common part has set are bits. *)
LEMMA Counted ==
    ASSUME NEW v, NEW stall \in BOOLEAN, NEW ack \in BOOLEAN, Bits(r1), Ready(v, stall, ack)
    PROVE  /\ v.stalled \in BOOLEAN /\ v.dec_acks \in BOOLEAN /\ v.acks_pending \in 0..7
           /\ v.wb.cyc \in BOOLEAN /\ v.wb.stb \in BOOLEAN
  BY AcksRange DEF Ready, Bits

(* The queued request is answered: the rest of Settles. *)
LEMMA Settled ==
    ASSUME NEW n, NEW v, NEW q, NEW m \in BOOLEAN, Wf(q), q.mmu = m, NoAnswer(v), v.hit_load_valid = FALSE,
           v.slow_valid = FALSE, v.stcx_fail = FALSE,
           AnswersSlow(n, v, m) \/ (FailsStcx(n, v) /\ ~m),
           n.ls_error = v.ls_error, n.mmu_error = v.mmu_error, n.hit_load_valid = v.hit_load_valid,
           Shape(n), n.wb.cyc \in BOOLEAN, n.wb.stb \in BOOLEAN, n.stalled \in BOOLEAN,
           n.dec_acks \in BOOLEAN, n.acks_pending \in 0..7,
           q.k = "sync" => n.wb.cyc = FALSE
    PROVE  Settles(n, q, TRUE)
  <1>1. /\ n.full = FALSE /\ n.hit_load_valid = FALSE /\ n.ls_error = FALSE /\ n.mmu_error = FALSE
        /\ n.ls_valid = ~m /\ n.mmu_done = m
        /\ n.slow_valid \in BOOLEAN /\ ~(n.slow_valid /\ n.stcx_fail)
    BY Zenon DEF AnswersSlow, FailsStcx, NoAnswer
  <1>2. Bits(n) BY <1>1, Zenon DEF Bits
  <1>3. OneAnswer(n, q.mmu) BY <1>1, Zenon DEF OneAnswer
  <1> QED BY <1>1, <1>2, <1>3, Zenon DEF Settles

(* The state machine adds no answer: the rest of Settles. *)
LEMMA Unanswered ==
    ASSUME NEW n, NEW v, NEW q, NEW taken \in BOOLEAN, Took(v, q, taken),
           n.full = v.full, n.slow_valid = FALSE, n.stcx_fail = FALSE, n.ls_valid = v.ls_valid,
           n.mmu_done = v.mmu_done, n.ls_error = v.ls_error, n.mmu_error = v.mmu_error,
           n.hit_load_valid = v.hit_load_valid, v.full => n.req = v.req,
           Shape(n), n.wb.cyc \in BOOLEAN, n.wb.stb \in BOOLEAN, n.stalled \in BOOLEAN,
           n.dec_acks \in BOOLEAN, n.acks_pending \in 0..7
    PROVE  Settles(n, q, taken)
  <1>1. CASE taken /\ Wf(q) /\ v.full = TRUE /\ v.req = q /\ NoAnswer(v)
    <2>1. NoAnswer(n) BY <1>1, Zenon DEF NoAnswer
    <2>2. Bits(n) BY <1>1, <2>1, Zenon DEF Bits, NoAnswer
    <2> QED BY <1>1, <2>1, <2>2, Zenon DEF Settles, NoAnswer
  <1>2. CASE /\ taken /\ v.full = FALSE /\ OneAnswer(v, q.mmu) /\ q.k # "sync"
             /\ v.ls_valid \in BOOLEAN /\ v.ls_error \in BOOLEAN /\ v.mmu_done \in BOOLEAN
             /\ v.mmu_error \in BOOLEAN
    <2>1. OneAnswer(n, q.mmu) BY <1>2, Zenon DEF OneAnswer
    <2>2. Bits(n) BY <1>2, Zenon DEF Bits
    <2> QED BY <1>2, <2>1, <2>2, Zenon DEF Settles
  <1>3. CASE ~taken /\ v.full = FALSE /\ NoAnswer(v)
    <2>1. NoAnswer(n) BY <1>3, Zenon DEF NoAnswer
    <2>2. Bits(n) BY <1>3, <2>1, Zenon DEF Bits, NoAnswer
    <2> QED BY <1>3, <2>1, <2>2, Zenon DEF Settles
  <1> QED BY <1>1, <1>2, <1>3, Zenon DEF Took

(* Control of a record that is idle. *)
LEMMA AtRest ==
    ASSUME NEW n, n.state = "IDLE", n.wb.cyc = FALSE, n.reloading = FALSE, n.full => Wf(n.req)
    PROVE  Control(n)
  <1>1. n.state \in States BY DEF States
  <1>2. n.reloading = (n.state = "RELOAD_WAIT_ACK") BY Zenon
  <1>3. n.wb.cyc = (n.state \notin {"IDLE", "FLUSH_CYCLE"}) BY Zenon
  <1> QED BY <1>1, <1>2, <1>3 DEF Control

(* FLUSH_CYCLE. *)
LEMMA FlushStep ==
    ASSUME NEW v, NEW q, NEW taken, NEW stall, NEW ack, NEW len, NEW len2,
           Before(v, q, taken, stall, ack, len, len2), r1.state = "FLUSH_CYCLE",
           NEW n, n = [Answered(v, FALSE) EXCEPT !.state = "IDLE"]
    PROVE  After(n, q, taken, len2)
  <1>1. r1.full /\ r1.req.k = "dcbf" BY Zenon DEF Before, Control
  <1>2. /\ taken = TRUE /\ q = r1.req /\ Wf(q) /\ v.full = TRUE /\ v.req = q /\ NoAnswer(v)
        /\ v.hit_load_valid = FALSE
    BY <1>1, Queued, Zenon
  <1>3. /\ Shape(v) /\ Ready(v, stall, ack) /\ v.slow_valid = FALSE /\ v.stcx_fail = FALSE
        /\ stall \in BOOLEAN /\ ack \in BOOLEAN /\ Bits(r1)
    BY Zenon DEF Before, Ready, Took, Moves
  <1>4. /\ Shape(n) /\ AnswersSlow(n, v, FALSE) /\ n.state = "IDLE"
        /\ Same(n, v, {"full", "ls_valid", "mmu_done", "slow_valid", "state"})
    BY <1>3, FlushIs, Zenon
  <1>5. /\ n.ls_error = v.ls_error /\ n.mmu_error = v.mmu_error /\ n.hit_load_valid = v.hit_load_valid
        /\ n.wb = v.wb /\ n.stalled = v.stalled /\ n.dec_acks = v.dec_acks
        /\ n.acks_pending = v.acks_pending /\ n.reloading = v.reloading
    BY <1>4, Zenon DEF Same, R1Fields
  <1>6. q.mmu = FALSE BY <1>1, <1>2 DEF Wf
  <1>7. r1.wb.cyc = FALSE /\ r1.reloading = FALSE
    BY <1>3, Zenon DEF Before, Control, Bits
  <1>8. n.wb = r1.wb /\ n.reloading = FALSE BY <1>3, <1>5, <1>7, Zenon DEF Ready
  <1>9. Settles(n, q, taken)
    BY <1>1, <1>2, <1>3, <1>4, <1>5, <1>6, <1>7, <1>8, Settled, Counted, ZenonT(60)
  <1>10. Control(n) BY <1>4, <1>7, <1>8, AtRest, Zenon DEF AnswersSlow
  <1>11. len = 0 /\ ~r1.wb.stb BY <1>7 DEF Before, BusOK
  <1>12. len2 = 0 BY <1>7, <1>11 DEF Before, Moves, One
  <1> QED BY <1>4, <1>7, <1>8, <1>9, <1>10, <1>11, <1>12, Zenon DEF After, BusOK

(* NC_LOAD_WAIT_ACK. *)
LEMMA NcLoadStep ==
    ASSUME NEW v, NEW q, NEW taken, NEW stall, NEW ack, NEW len, NEW len2,
           Before(v, q, taken, stall, ack, len, len2), r1.state = "NC_LOAD_WAIT_ACK",
           NEW n, n = NcLoad(v, stall, ack)
    PROVE  After(n, q, taken, len2)
  <1>1. r1.full /\ r1.req.k = "ncload" BY Zenon DEF Before, Control
  <1>2. /\ taken = TRUE /\ q = r1.req /\ Wf(q) /\ v.full = TRUE /\ v.req = q /\ NoAnswer(v)
        /\ v.hit_load_valid = FALSE
    BY <1>1, Queued, Zenon
  <1>3. /\ Shape(v) /\ Ready(v, stall, ack) /\ v.slow_valid = FALSE /\ v.stcx_fail = FALSE
        /\ stall \in BOOLEAN /\ ack \in BOOLEAN /\ Bits(r1)
    BY Zenon DEF Before, Ready, Took, Moves
  <1>4. NcLoadDoes(n, v, stall, ack) BY <1>3, Counted, NcLoadIs
  <1>5. /\ n.ls_error = v.ls_error /\ n.mmu_error = v.mmu_error /\ n.hit_load_valid = v.hit_load_valid
        /\ n.stalled = v.stalled /\ n.dec_acks = v.dec_acks /\ n.stcx_fail = v.stcx_fail
        /\ n.acks_pending = v.acks_pending /\ n.reloading = v.reloading /\ n.req = v.req
    BY <1>4 DEF NcLoadDoes, Same, R1Fields
  <1>6. q.mmu = FALSE BY <1>1, <1>2 DEF Wf
  <1>7. r1.wb.cyc = TRUE /\ r1.reloading = FALSE /\ r1.wb.stb \in BOOLEAN
    BY <1>3, Zenon DEF Before, Control, Bits
  <1>8. n.reloading = FALSE /\ v.state = "NC_LOAD_WAIT_ACK" /\ v.wb = r1.wb
    BY <1>3, <1>5, <1>7 DEF Ready
  <1>9. /\ n.wb.cyc = ~ack /\ n.wb.stb = (r1.wb.stb /\ stall /\ ~ack)
        /\ n.state = IF ack THEN "IDLE" ELSE "NC_LOAD_WAIT_ACK"
    BY <1>3, <1>4, <1>7, <1>8 DEF NcLoadDoes
  <1>10. len \in Nat /\ len + One(r1.wb.stb) = 1 BY DEF Before, BusOK, Moves
  <1>11. len2 = len - One(ack) + One(r1.wb.stb /\ ~stall) /\ (ack => len > 0) /\ len2 \in Nat
    BY <1>7 DEF Before, Moves
  <1>12. BusOK(n, len2)
    <2>1. CASE ack
      <3>1. len2 = 0 /\ n.wb.stb = FALSE /\ n.state = "IDLE"
        BY <1>7, <1>9, <1>10, <1>11, <2>1 DEF One
      <3> QED BY <3>1 DEF BusOK
    <2>2. CASE ~ack
      <3>1. n.wb.cyc /\ n.state = "NC_LOAD_WAIT_ACK" /\ n.wb.stb = (r1.wb.stb /\ stall)
        BY <1>9, <2>2, Zenon
      <3>2. len2 + One(n.wb.stb) = 1
        BY <1>3, <1>7, <1>10, <1>11, <2>2, <3>1 DEF One
      <3> QED BY <3>1, <3>2 DEF BusOK
    <2> QED BY <1>3, <2>1, <2>2
  <1>13. CASE ack
    <2>1. AnswersSlow(n, v, FALSE) BY <1>2, <1>4, <1>6, <1>13, Zenon DEF NcLoadDoes
    <2>2. Settles(n, q, taken)
      <3>1. n.wb.cyc \in BOOLEAN /\ n.wb.stb \in BOOLEAN /\ Shape(n) BY <1>4, <1>9 DEF NcLoadDoes
      <3>2. n.stalled \in BOOLEAN /\ n.dec_acks \in BOOLEAN /\ n.acks_pending \in 0..7
        BY <1>3, <1>5, Counted
      <3>3. q.k # "sync" BY <1>1, <1>2
      <3> QED BY <1>2, <1>3, <1>5, <1>6, <2>1, <3>1, <3>2, <3>3, Settled, Zenon
    <2>3. Control(n) BY <1>8, <1>9, <1>13, <2>1, AtRest, Zenon DEF AnswersSlow
    <2> QED BY <1>12, <2>2, <2>3 DEF After
  <1>14. CASE ~ack
    <2>1. SameAnswers(n, v) BY <1>4, <1>14, Zenon DEF NcLoadDoes
    <2>2. n.full = TRUE /\ NoAnswer(n) /\ n.slow_valid = FALSE /\ n.stcx_fail = FALSE
      BY <1>2, <1>3, <1>5, <2>1, Zenon DEF SameAnswers, NoAnswer
    <2>3. Bits(n)
      <3>1. n.wb.cyc \in BOOLEAN /\ n.wb.stb \in BOOLEAN /\ Shape(n) BY <1>4, <1>9 DEF NcLoadDoes
      <3>2. n.stalled \in BOOLEAN /\ n.dec_acks \in BOOLEAN /\ n.acks_pending \in 0..7
        BY <1>3, <1>5, Counted
      <3> QED BY <2>2, <3>1, <3>2, Zenon DEF Bits, NoAnswer
    <2>4. Settles(n, q, taken) BY <1>2, <1>5, <2>2, <2>3, Zenon DEF Settles, NoAnswer
    <2>5. Control(n)
      BY <1>1, <1>2, <1>5, <1>8, <1>9, <1>14, <2>2, ZenonT(60) DEF Control, States
    <2> QED BY <1>12, <2>4, <2>5 DEF After
  <1> QED BY <1>3, <1>13, <1>14

(* DO_STCX. *)
LEMMA StcxStep ==
    ASSUME NEW v, NEW q, NEW taken, NEW stall, NEW ack, NEW len, NEW len2,
           Before(v, q, taken, stall, ack, len, len2), r1.state = "DO_STCX",
           NEW n, n = Stcx(v, stall)
    PROVE  After(n, q, taken, len2)
  <1>1. r1.full /\ r1.req.k = "stcx" BY Zenon DEF Before, Control
  <1>2. /\ taken = TRUE /\ q = r1.req /\ Wf(q) /\ v.full = TRUE /\ v.req = q /\ NoAnswer(v)
        /\ v.hit_load_valid = FALSE
    BY <1>1, Queued, Zenon
  <1>3. /\ Shape(v) /\ Ready(v, stall, ack) /\ v.slow_valid = FALSE /\ v.stcx_fail = FALSE
        /\ stall \in BOOLEAN /\ ack \in BOOLEAN /\ Bits(r1)
    BY Zenon DEF Before, Ready, Took, Moves
  <1>4. StcxDoes(n, v, stall) BY <1>3, StcxIs
  <1>5. /\ n.ls_error = v.ls_error /\ n.mmu_error = v.mmu_error /\ n.hit_load_valid = v.hit_load_valid
        /\ n.stalled = v.stalled /\ n.dec_acks = v.dec_acks
        /\ n.acks_pending = v.acks_pending /\ n.reloading = v.reloading /\ n.req = v.req
    BY <1>4 DEF StcxDoes, Same, R1Fields
  <1>6. q.mmu = FALSE /\ q.k # "sync" BY <1>1, <1>2 DEF Wf
  <1>7. /\ r1.wb.cyc = TRUE /\ r1.reloading = FALSE /\ r1.wb.stb = FALSE
        /\ len = 0 /\ r1.acks_pending = 0 /\ r1.dec_acks = FALSE
    BY <1>3 DEF Before, Control, Bits, BusOK
  <1>8. ack = FALSE /\ len2 = 0 BY <1>7 DEF Before, Moves, One
  <1>9. /\ n.reloading = FALSE /\ v.wb.cyc = TRUE /\ v.wb.stb = FALSE /\ v.state = "DO_STCX"
        /\ n.dec_acks = FALSE /\ n.stalled = stall
    BY <1>3, <1>5, <1>7, <1>8 DEF Ready
  <1>10. n.acks_pending = 0 BY <1>3, <1>5, <1>7, Zenon DEF Ready, Acks
  <1>11. Shape(n) /\ n.stalled \in BOOLEAN /\ n.dec_acks \in BOOLEAN /\ n.acks_pending \in 0..7
    <2>1. v.stalled \in BOOLEAN /\ v.dec_acks \in BOOLEAN /\ v.acks_pending \in 0..7 BY <1>3, Counted
    <2>2. Shape(n) BY <1>4, Zenon DEF StcxDoes
    <2> QED BY <1>5, <2>1, <2>2, Zenon
  <1>12. CASE ~stcx_ok
    <2>1. FailsStcx(n, v) /\ n.state = "IDLE" /\ n.wb.cyc = FALSE /\ n.wb.stb = FALSE
      BY <1>4, <1>9, <1>12, Zenon DEF StcxDoes
    <2>2. Settles(n, q, taken)
      <3>1. n.wb.cyc \in BOOLEAN /\ n.wb.stb \in BOOLEAN BY <2>1, Zenon
      <3> QED BY <1>2, <1>3, <1>5, <1>6, <1>11, <2>1, <3>1, Settled, Zenon
    <2>3. Control(n) BY <1>9, <2>1, AtRest, Zenon DEF FailsStcx
    <2>4. BusOK(n, len2) BY <1>8, <2>1 DEF BusOK
    <2> QED BY <2>2, <2>3, <2>4 DEF After
  <1>13. CASE stcx_ok /\ stall
    <2>1. SameAnswers(n, v) /\ n.state = "DO_STCX" /\ n.wb.cyc = TRUE /\ n.wb.stb = FALSE
      BY <1>4, <1>9, <1>13, Zenon DEF StcxDoes
    <2>2. n.full = TRUE /\ NoAnswer(n) /\ n.slow_valid = FALSE /\ n.stcx_fail = FALSE
      BY <1>2, <1>3, <1>5, <2>1, Zenon DEF SameAnswers, NoAnswer
    <2>3. Bits(n) BY <1>11, <2>1, <2>2, Zenon DEF Bits, NoAnswer
    <2>4. Settles(n, q, taken) BY <1>2, <1>5, <2>2, <2>3, Zenon DEF Settles, NoAnswer
    <2>5. Control(n)
      BY <1>1, <1>2, <1>5, <1>9, <2>1, <2>2, ZenonT(60) DEF Control, States
    <2>6. BusOK(n, len2) BY <1>8, <1>9, <1>10, <2>1 DEF BusOK
    <2> QED BY <2>4, <2>5, <2>6 DEF After
  <1>14. CASE stcx_ok /\ ~stall
    <2>1. AnswersSlow(n, v, FALSE) /\ n.state = "STORE_WAIT_ACK" /\ n.wb.cyc = TRUE /\ n.wb.stb = TRUE
      BY <1>4, <1>9, <1>14, Zenon DEF StcxDoes
    <2>2. Settles(n, q, taken)
      <3>1. n.wb.cyc \in BOOLEAN /\ n.wb.stb \in BOOLEAN BY <2>1, Zenon
      <3> QED BY <1>2, <1>3, <1>5, <1>6, <1>11, <2>1, <3>1, Settled, Zenon
    <2>3. Control(n) BY <1>9, <2>1, Zenon DEF Control, States, AnswersSlow
    <2>4. Acks(n) = 1 BY <1>3, <1>9, <1>10, <1>14, <2>1 DEF Acks
    <2>5. BusOK(n, len2) BY <1>8, <2>1, <2>4, DcacheAssumption DEF BusOK, One
    <2> QED BY <2>2, <2>3, <2>5 DEF After
  <1> QED BY <1>3, <1>12, <1>13, <1>14

Counts(n, len, len2, stb, stall, ack) ==
    /\ len \in Nat /\ stall \in BOOLEAN /\ ack \in BOOLEAN /\ stb \in BOOLEAN /\ n.wb.stb \in BOOLEAN
    /\ (ack => len > 0) /\ len + One(stb) <= MaxAcks
    /\ (stall => n.wb.stb = stb) /\ (n.wb.stb /\ ~stall => len + One(stb) < MaxAcks)
    /\ n.wb.cyc = TRUE /\ n.stalled = stall /\ n.dec_acks = ack /\ n.acks_pending = len + One(stb)
    /\ len2 = len - One(ack) + One(stb /\ ~stall)

(* The count that lags the bus by a cycle: what it is after an edge. *)
LEMMA Count ==
    ASSUME NEW n, NEW len, NEW len2, NEW stb, NEW stall, NEW ack, Counts(n, len, len2, stb, stall, ack)
    PROVE  Acks(n) = len2 + One(n.wb.stb) /\ len2 + One(n.wb.stb) <= MaxAcks
  <1>1. MaxAcks \in 1..7 BY DcacheAssumption
  <1>2. CASE stall BY <1>1, <1>2 DEF Acks, One, Counts
  <1>3. CASE ~stall BY <1>1, <1>3 DEF Acks, One, Counts
  <1> QED BY <1>2, <1>3

(* STORE_WAIT_ACK. *)
LEMMA StoreStep ==
    ASSUME NEW v, NEW q, NEW taken, NEW stall, NEW ack, NEW len, NEW len2,
           Before(v, q, taken, stall, ack, len, len2), r1.state = "STORE_WAIT_ACK",
           NEW n, StoreDoes(n, v, q, stall, ack)
    PROVE  After(n, q, taken, len2)
  <1> DEFINE next == StoreNext(q, stall)
             ends == StoreEnds(q, stall, ack)
  <1>1. /\ Shape(v) /\ Ready(v, stall, ack) /\ v.slow_valid = FALSE /\ v.stcx_fail = FALSE
        /\ stall \in BOOLEAN /\ ack \in BOOLEAN /\ Bits(r1) /\ Took(v, q, taken) /\ taken \in BOOLEAN
    BY Zenon DEF Before, Ready, Took, Moves
  <1>2. /\ Shape(n) /\ n.full = (v.full /\ ~next) /\ n.slow_valid = (v.slow_valid \/ next)
        /\ n.ls_valid = (v.ls_valid \/ next) /\ n.mmu_done = v.mmu_done
        /\ n.wb.cyc = (v.wb.cyc /\ ~ends) /\ n.wb.stb = (~ends /\ IF stall THEN v.wb.stb ELSE next)
        /\ n.state = (IF ends THEN "IDLE" ELSE v.state)
    BY Zenon DEF StoreDoes
  <1>3. /\ n.ls_error = v.ls_error /\ n.mmu_error = v.mmu_error /\ n.hit_load_valid = v.hit_load_valid
        /\ n.stalled = v.stalled /\ n.dec_acks = v.dec_acks /\ n.stcx_fail = v.stcx_fail
        /\ n.acks_pending = v.acks_pending /\ n.reloading = v.reloading /\ n.req = v.req
    BY DEF StoreDoes, Same, R1Fields
  <1>4. /\ r1.wb.cyc = TRUE /\ r1.reloading = FALSE /\ r1.wb.stb \in BOOLEAN
        /\ Acks(r1) = len + One(r1.wb.stb) /\ len + One(r1.wb.stb) <= MaxAcks
    BY <1>1, Zenon DEF Before, Control, Bits, BusOK
  <1>5. /\ len \in Nat /\ len2 \in Nat /\ (ack => len > 0)
        /\ len2 = len - One(ack) + One(r1.wb.stb /\ ~stall)
    BY <1>4 DEF Before, Moves
  <1>6. /\ next \in BOOLEAN /\ ends \in BOOLEAN
        /\ next => ~stall /\ q.op = "store" /\ q.k \notin {"dcbz", "stcx"} /\ Acks(r1) < MaxAcks
        /\ ends => /\ ~next /\ (stall => ~r1.wb.stb)
                   /\ Acks(r1) = 0 \/ (ack /\ Acks(r1) = 1)
    BY Zenon DEF StoreNext, StoreEnds, follows, room, all_acked, acks, Acks
  <1>7. n.reloading = FALSE /\ v.wb.cyc = TRUE /\ v.wb.stb = r1.wb.stb /\ v.state = "STORE_WAIT_ACK"
    BY <1>1, <1>3, <1>4, Zenon DEF Ready
  <1> HIDE DEF next, ends
  <1>8. n.stalled = stall /\ n.dec_acks = ack /\ n.acks_pending = Acks(r1)
    BY <1>1, <1>3, <1>4 DEF Ready
  <1>9. /\ n.stalled \in BOOLEAN /\ n.dec_acks \in BOOLEAN /\ n.acks_pending \in 0..7
        /\ n.wb.cyc \in BOOLEAN /\ n.wb.stb \in BOOLEAN
    <2>1. n.acks_pending \in 0..7 BY <1>1, <1>8, AcksRange
    <2>2. n.stalled \in BOOLEAN /\ n.dec_acks \in BOOLEAN BY <1>1, <1>8
    <2>3. n.wb.cyc \in BOOLEAN /\ n.wb.stb \in BOOLEAN BY <1>2
    <2> QED BY <2>1, <2>2, <2>3, Zenon
  <1>10. BusOK(n, len2)
    <2>1. CASE ends
      <3>1. n.state = "IDLE" /\ n.wb.cyc = FALSE /\ n.wb.stb = FALSE BY <1>2, <2>1, Zenon
      <3>2. r1.wb.stb = FALSE BY <1>1, <1>4, <1>5, <1>6, <2>1 DEF One
      <3>3. len2 = 0 BY <1>1, <1>4, <1>5, <1>6, <2>1, <3>2 DEF One
      <3> QED BY <3>1, <3>3 DEF BusOK
    <2>2. CASE ~ends
      <3>1. /\ n.state = "STORE_WAIT_ACK" /\ n.wb.cyc = TRUE
            /\ n.wb.stb = IF stall THEN r1.wb.stb ELSE next
        BY <1>1, <1>2, <1>4, <1>6, <1>7, <2>2, Zenon
      <3>2. Acks(n) = len2 + One(n.wb.stb) /\ len2 + One(n.wb.stb) <= MaxAcks
        <4>1. stall => n.wb.stb = r1.wb.stb BY <3>1, Zenon
        <4>2. n.wb.stb /\ ~stall => Acks(r1) < MaxAcks BY <1>6, <3>1, Zenon
        <4>3. Counts(n, len, len2, r1.wb.stb, stall, ack)
          BY <1>1, <1>4, <1>5, <1>8, <1>9, <3>1, <4>1, <4>2 DEF Counts
        <4> QED BY <4>3, Count
      <3> QED BY <3>1, <3>2, Zenon DEF BusOK
    <2> QED BY <1>6, <2>1, <2>2
  <1>11. Settles(n, q, taken)
    <2>1. CASE next
      <3>1. q.op \in Slow /\ q.op # "none" BY <1>6, <2>1 DEF Slow
      <3>2. /\ taken = TRUE /\ Wf(q) /\ v.full = TRUE /\ v.req = q /\ NoAnswer(v)
            /\ v.hit_load_valid = FALSE
        BY <1>1, <3>1, Zenon DEF Took
      <3>3. q.mmu = FALSE /\ q.k # "sync" BY <1>6, <2>1, <3>2 DEF Wf
      <3>4. AnswersSlow(n, v, FALSE)
        BY <1>1, <1>2, <1>3, <2>1, <3>2, Zenon DEF AnswersSlow, NoAnswer
      <3> QED BY <1>1, <1>2, <1>3, <1>9, <3>2, <3>3, <3>4, Settled, Zenon
    <2>2. CASE ~next
      <3>1. n.full = v.full /\ n.slow_valid = FALSE /\ n.ls_valid = v.ls_valid /\ n.stcx_fail = FALSE
        <4>1. v.full \in BOOLEAN /\ v.ls_valid \in BOOLEAN BY <1>1, Zenon DEF Took, NoAnswer
        <4> QED BY <1>1, <1>2, <1>3, <2>2, <4>1, Zenon
      <3> QED BY <1>1, <1>2, <1>3, <1>9, <3>1, Unanswered, Zenon
    <2> QED BY <1>6, <2>1, <2>2
  <1>12. Control(n)
    <2>1. n.full => Wf(n.req) BY <1>11, Zenon DEF Settles
    <2>2. CASE ends
      <3>1. n.state = "IDLE" /\ n.wb.cyc = FALSE BY <1>2, <2>2, Zenon
      <3> QED BY <1>7, <2>1, <3>1, AtRest, Zenon
    <2>3. CASE ~ends
      <3>1. n.state = "STORE_WAIT_ACK" /\ n.wb.cyc = TRUE BY <1>2, <1>7, <2>3, Zenon
      <3> QED BY <1>7, <2>1, <3>1, Zenon DEF Control, States
    <2> QED BY <1>6, <2>2, <2>3
  <1> QED BY <1>10, <1>11, <1>12 DEF After

Fetched(n, w, s, e, len, len2, stb, sent, ack) ==
    /\ Fetching(w, s, e, len, stb) /\ len \in Nat
    /\ sent \in BOOLEAN /\ ack \in BOOLEAN /\ stb \in BOOLEAN /\ n.wb.stb \in BOOLEAN
    /\ (sent => stb) /\ (ack => len > 0) /\ n.wb.stb = (IF sent THEN w # e ELSE stb)
    /\ n.wb.row = (IF sent THEN next_row(w) ELSE w)
    /\ n.store_row = (IF ack THEN next_row(s) ELSE s)
    /\ len2 = len - One(ack) + One(sent)

(* The rows requested and the rows received of a reload, after an edge. *)
LEMMA RowsMove ==
    ASSUME NEW n, NEW w, NEW s, NEW e, NEW len, NEW len2, NEW stb, NEW sent, NEW ack,
           Fetched(n, w, s, e, len, len2, stb, sent, ack)
    PROVE  /\ ack /\ s = e => len2 = 0 /\ n.wb.stb = FALSE
           /\ ~(ack /\ s = e) => Fetching(n.wb.row, n.store_row, e, len2, n.wb.stb)
  <1>0. /\ w \in Rows /\ s \in Rows /\ e \in Rows /\ len \in Nat /\ sent \in BOOLEAN /\ ack \in BOOLEAN
        /\ stb \in BOOLEAN /\ n.wb.stb \in BOOLEAN
    BY DEF Fetched, Fetching
  <1>1. Stepping(w, e) BY <1>0, Distance, Zenon
  <1>2. Stepping(s, e) BY <1>0, Distance
  <1>3. n.wb.row \in Rows /\ n.store_row \in Rows BY <1>1, <1>2 DEF Fetched, Fetching, Stepping
  <1>4. CASE ack /\ s = e
    <2>1. Dist(s, e) = 0 BY <1>2, <1>4 DEF Stepping
    <2>2. stb = FALSE /\ len = 1 BY <1>0, <1>1, <1>4, <2>1 DEF Stepping, Fetched, Fetching
    <2> QED BY <1>4, <2>2 DEF One, Fetched
  <1>5. CASE ~(ack /\ s = e)
    <2> DEFINE x == IF stb THEN Dist(w, e) + 1 ELSE 0
               y == IF n.wb.stb THEN Dist(n.wb.row, e) + 1 ELSE 0
    <2>1. Dist(n.store_row, e) = Dist(s, e) - One(ack)
      BY <1>0, <1>2, <1>5 DEF One, Stepping, Fetched
    <2>2. y = x - One(sent)
      <3>1. CASE sent /\ w # e
        <4>1. n.wb.stb /\ n.wb.row = next_row(w) /\ stb BY <3>1, Zenon DEF Fetched
        <4> QED BY <1>1, <3>1, <4>1 DEF One, Stepping
      <3>2. CASE sent /\ w = e
        <4>1. ~n.wb.stb /\ stb BY <3>2, Zenon DEF Fetched
        <4> QED BY <1>1, <3>2, <4>1 DEF One, Stepping
      <3>3. CASE ~sent
        <4>1. n.wb.stb = stb /\ n.wb.row = w BY <3>3 DEF Fetched
        <4> QED BY <1>1, <3>3, <4>1 DEF One, Stepping
      <3> QED BY <1>0, <3>1, <3>2, <3>3
    <2>3. x \in Nat /\ len + x = Dist(s, e) + 1 /\ len2 = len - One(ack) + One(sent)
      BY <1>0, <1>1 DEF Fetched, Fetching, Stepping
    <2>4. One(ack) \in Nat /\ One(sent) \in Nat /\ Dist(s, e) \in Nat BY <1>2 DEF One, Stepping
    <2> HIDE DEF x
    <2>5. y \in Int BY <2>2, <2>3, <2>4
    <2>6. len2 + y = Dist(n.store_row, e) + 1
      <3> HIDE DEF y
      <3> QED BY <1>0, <2>1, <2>2, <2>3, <2>4, <2>5
    <2> QED BY <1>0, <1>3, <1>5, <2>6 DEF Fetching
  <1> QED BY <1>4, <1>5, Zenon

(* RELOAD_WAIT_ACK. *)
LEMMA ReloadStep ==
    ASSUME NEW v, NEW q, NEW taken, NEW stall, NEW ack, NEW len, NEW len2,
           Before(v, q, taken, stall, ack, len, len2), r1.state = "RELOAD_WAIT_ACK",
           NEW n, ReloadDoes(n, v, q, stall, ack)
    PROVE  After(n, q, taken, len2)
  <1> DEFINE sent == ~stall /\ r1.wb.stb
             last == ack /\ r1.store_row = r1.end_row
             row  == ack /\ row_wanted(q)
             done == touch_done
  <1>1. /\ Shape(v) /\ Ready(v, stall, ack) /\ v.slow_valid = FALSE /\ v.stcx_fail = FALSE
        /\ stall \in BOOLEAN /\ ack \in BOOLEAN /\ Bits(r1) /\ Took(v, q, taken) /\ taken \in BOOLEAN
    BY Zenon DEF Before, Ready, Took, Moves
  <1>2. /\ Shape(n)
        /\ n.full = (v.full /\ ~done /\ ~row)
        /\ n.slow_valid = (v.slow_valid \/ done \/ row)
        /\ n.ls_valid = (v.ls_valid \/ done \/ (row /\ ~q.mmu))
        /\ n.mmu_done = (v.mmu_done \/ (row /\ q.mmu))
        /\ n.wb.stb = (IF sent THEN r1.wb.row # r1.end_row ELSE v.wb.stb)
        /\ n.wb.row = (IF sent THEN next_row(v.wb.row) ELSE v.wb.row)
        /\ n.wb.cyc = (v.wb.cyc /\ ~last) /\ n.reloading = (v.reloading /\ ~last)
        /\ n.state = (IF last THEN "IDLE" ELSE v.state)
        /\ n.store_row = (IF ack THEN next_row(v.store_row) ELSE v.store_row)
    BY Zenon DEF ReloadDoes
  <1>3. /\ n.ls_error = v.ls_error /\ n.mmu_error = v.mmu_error /\ n.hit_load_valid = v.hit_load_valid
        /\ n.stalled = v.stalled /\ n.dec_acks = v.dec_acks /\ n.stcx_fail = v.stcx_fail
        /\ n.acks_pending = v.acks_pending /\ n.req = v.req /\ n.end_row = v.end_row
    BY Zenon DEF ReloadDoes, Same, R1Fields
  <1>4. /\ r1.wb.cyc = TRUE /\ r1.reloading = TRUE /\ r1.wb.stb \in BOOLEAN
        /\ Fetching(r1.wb.row, r1.store_row, r1.end_row, len, r1.wb.stb)
    BY <1>1, Zenon DEF Before, Control, Bits, BusOK
  <1>5. /\ len \in Nat /\ (ack => len > 0) /\ len2 = len - One(ack) + One(sent)
    BY <1>1, <1>4, Zenon DEF Before, Moves
  <1>6. v.state = "RELOAD_WAIT_ACK" /\ v.wb = r1.wb /\ v.store_row = r1.store_row
        /\ v.end_row = r1.end_row /\ v.reloading = TRUE
    BY <1>1, <1>4, Zenon DEF Ready
  <1>7. sent \in BOOLEAN /\ last \in BOOLEAN /\ row \in BOOLEAN /\ done \in BOOLEAN
    BY <1>1, Zenon DEF touch_done, row_wanted
  <1>8. /\ row => q.hit_reload = TRUE
        /\ done => r1.full /\ r1.req.k = "touch"
    <2>1. q.hit_reload \in BOOLEAN BY <1>1, Zenon DEF Took, Wf
    <2> QED BY <2>1 DEF touch_done, row_wanted
  <1>9. /\ n.stalled \in BOOLEAN /\ n.dec_acks \in BOOLEAN /\ n.acks_pending \in 0..7
        /\ n.wb.cyc \in BOOLEAN /\ n.wb.stb \in BOOLEAN
    <2>1. n.stalled \in BOOLEAN /\ n.dec_acks \in BOOLEAN /\ n.acks_pending \in 0..7
      BY <1>1, <1>3, Counted
    <2>2. n.wb.cyc \in BOOLEAN BY <1>2, Zenon
    <2>3. n.wb.stb \in BOOLEAN BY <1>2, <1>4, <1>6, Zenon
    <2> QED BY <2>1, <2>2, <2>3
  <1> HIDE DEF done, row
  <1>10. BusOK(n, len2)
    <2>1. sent => r1.wb.stb OBVIOUS
    <2>2. n.wb.stb = (IF sent THEN r1.wb.row # r1.end_row ELSE r1.wb.stb) BY <1>2, <1>6, Zenon
    <2>3. n.wb.row = (IF sent THEN next_row(r1.wb.row) ELSE r1.wb.row) BY <1>2, <1>6, Zenon
    <2>4. n.store_row = (IF ack THEN next_row(r1.store_row) ELSE r1.store_row) BY <1>2, <1>6, Zenon
    <2> HIDE DEF sent
    <2>5. Fetched(n, r1.wb.row, r1.store_row, r1.end_row, len, len2, r1.wb.stb, sent, ack)
      BY <1>1, <1>4, <1>5, <1>7, <1>9, <2>1, <2>2, <2>3, <2>4, Zenon DEF Fetched
    <2>8. /\ last => len2 = 0 /\ n.wb.stb = FALSE
          /\ ~last => Fetching(n.wb.row, n.store_row, r1.end_row, len2, n.wb.stb)
      BY <2>5, RowsMove, Zenon
    <2> HIDE DEF last
    <2>6. CASE last
      <3>1. n.state = "IDLE" BY <1>2, <2>6, Zenon
      <3> QED BY <2>8, <2>6, <3>1 DEF BusOK
    <2>7. CASE ~last
      <3>1. n.state = "RELOAD_WAIT_ACK" /\ n.wb.cyc = TRUE BY <1>2, <1>4, <1>6, <2>7, Zenon
      <3> QED BY <1>3, <1>4, <1>6, <2>8, <2>7, <3>1, Zenon DEF BusOK
    <2> QED BY <1>7, <2>6, <2>7
  <1> HIDE DEF sent, last
  <1>11. Settles(n, q, taken)
    <2>1. CASE done
      <3>1. r1.full /\ r1.req.k = "touch" BY <1>8, <2>1, Zenon
      <3>2. /\ taken = TRUE /\ q = r1.req /\ Wf(q) /\ v.full = TRUE /\ v.req = q /\ NoAnswer(v)
            /\ v.hit_load_valid = FALSE
        BY <3>1, Queued, Zenon
      <3>3. q.mmu = FALSE /\ q.k # "sync" BY <3>1, <3>2 DEF Wf
      <3>4. AnswersSlow(n, v, FALSE)
        BY <1>1, <1>2, <1>3, <2>1, <3>2, <3>3, Zenon DEF AnswersSlow, NoAnswer
      <3> QED BY <1>1, <1>2, <1>3, <1>9, <3>2, <3>3, <3>4, Settled, Zenon
    <2>2. CASE ~done /\ row
      <3>1. q.hit_reload = TRUE BY <1>8, <2>2
      <3>2. /\ taken = TRUE /\ Wf(q) /\ v.full = TRUE /\ v.req = q /\ NoAnswer(v)
            /\ v.hit_load_valid = FALSE
        BY <1>1, <3>1, Zenon DEF Took
      <3>3. q.mmu \in BOOLEAN /\ q.k # "sync" BY <3>1, <3>2, Zenon DEF Wf, Slow
      <3>4. AnswersSlow(n, v, q.mmu)
        <4>1. CASE q.mmu = TRUE
          BY <1>1, <1>2, <1>3, <2>2, <3>2, <4>1, Zenon DEF AnswersSlow, NoAnswer
        <4>2. CASE q.mmu = FALSE
          BY <1>1, <1>2, <1>3, <2>2, <3>2, <4>2, Zenon DEF AnswersSlow, NoAnswer
        <4> QED BY <3>3, <4>1, <4>2, Zenon
      <3> QED BY <1>1, <1>2, <1>3, <1>9, <3>2, <3>3, <3>4, Settled, Zenon
    <2>3. CASE ~done /\ ~row
      <3>1. v.full \in BOOLEAN /\ v.ls_valid \in BOOLEAN /\ v.mmu_done \in BOOLEAN
        BY <1>1, Zenon DEF Took, NoAnswer
      <3>2. n.full = v.full BY <1>2, <2>3, <3>1, Zenon
      <3>3. n.ls_valid = v.ls_valid BY <1>2, <2>3, <3>1, Zenon
      <3>4. n.mmu_done = v.mmu_done BY <1>2, <2>3, <3>1, Zenon
      <3>5. n.slow_valid = FALSE /\ n.stcx_fail = FALSE BY <1>1, <1>2, <1>3, <2>3, Zenon
      <3> QED BY <1>1, <1>2, <1>3, <1>9, <3>2, <3>3, <3>4, <3>5, Unanswered, Zenon
    <2> QED BY <1>7, <2>1, <2>2, <2>3
  <1>12. Control(n)
    <2>1. n.full => Wf(n.req) BY <1>11, Zenon DEF Settles
    <2>2. CASE last
      <3>1. n.state = "IDLE" /\ n.wb.cyc = FALSE /\ n.reloading = FALSE BY <1>2, <2>2, Zenon
      <3> QED BY <2>1, <3>1, AtRest, Zenon
    <2>3. CASE ~last
      <3>1. n.state = "RELOAD_WAIT_ACK" /\ n.wb.cyc = TRUE /\ n.reloading = TRUE
        BY <1>2, <1>4, <1>6, <2>3, Zenon
      <3> QED BY <2>1, <3>1, Zenon DEF Control, States
    <2> QED BY <1>7, <2>2, <2>3
  <1> QED BY <1>10, <1>11, <1>12 DEF After

(* The request of IDLE, once it is on its way. *)
LEMMA Started_Req ==
    ASSUME NEW v, NEW n, Shape(v), Wf(v.req), v.req.op # "sync",
           n.req = [v.req EXCEPT !.hit_reload = TRUE]
    PROVE  Wf(n.req) /\ n.req.k = v.req.k /\ n.req.mmu = v.req.mmu
  <1>1. /\ n.req.op = v.req.op /\ n.req.k = v.req.k /\ n.req.mmu = v.req.mmu /\ n.req.row = v.req.row
        /\ n.req.is_hit = v.req.is_hit /\ n.req.hit_reload = TRUE
    BY DEF Shape, ReqFields
  <1> QED BY <1>1 DEF Wf

(* IDLE. *)
LEMMA IdleStep ==
    ASSUME NEW v, NEW q, NEW taken, NEW stall, NEW ack, NEW len, NEW len2,
           Before(v, q, taken, stall, ack, len, len2), r1.state = "IDLE",
           NEW n, IdleDoes(n, v, q)
    PROVE  After(n, q, taken, len2)
  <1>1. /\ Shape(v) /\ Ready(v, stall, ack) /\ v.slow_valid = FALSE /\ v.stcx_fail = FALSE
        /\ stall \in BOOLEAN /\ ack \in BOOLEAN /\ Bits(r1) /\ Took(v, q, taken) /\ taken \in BOOLEAN
    BY Zenon DEF Before, Ready, Took, Moves
  <1>2. r1.wb.cyc = FALSE /\ r1.reloading = FALSE /\ r1.wb.stb = FALSE /\ len = 0
    BY <1>1, Zenon DEF Before, Control, Bits, BusOK
  <1>3. ack = FALSE /\ len2 = 0 BY <1>2 DEF Before, Moves, One
  <1>4. /\ v.wb.cyc = FALSE /\ v.wb.stb = FALSE /\ v.reloading = FALSE /\ v.state = "IDLE"
        /\ v.stalled = FALSE /\ v.dec_acks = FALSE
    BY <1>1, <1>2, Zenon DEF Ready
  <1>5. v.acks_pending = 0 BY <1>1, <1>2, Zenon DEF Ready, Acks
  <1>6. /\ Shape(n) /\ n.ls_error = v.ls_error /\ n.mmu_error = v.mmu_error
        /\ n.hit_load_valid = v.hit_load_valid
        /\ n.stalled = FALSE /\ n.dec_acks = FALSE /\ n.acks_pending = 0
        /\ n.store_row = q.row /\ n.end_row = (q.row + NumRows - 1) % NumRows /\ n.wb.row = q.row
        /\ n.req = [v.req EXCEPT !.hit_reload = TRUE]
    BY <1>4, <1>5, Zenon DEF IdleDoes, IdleKeeps
  <1>a. n.stalled = FALSE /\ n.dec_acks = FALSE /\ n.acks_pending = 0 BY <1>6, Zenon
  <1>b. n.stalled \in BOOLEAN /\ n.dec_acks \in BOOLEAN /\ n.acks_pending \in 0..7
    <2>1. n.stalled = FALSE /\ n.dec_acks = FALSE BY <1>a, Zenon
    <2>2. n.stalled \in BOOLEAN /\ n.dec_acks \in BOOLEAN BY <2>1, Zenon
    <2>3. n.acks_pending = 0 BY <1>a, Zenon
    <2>4. n.acks_pending \in 0..7 BY <2>3
    <2> QED BY <2>2, <2>4
  <1>c. /\ Shape(n) /\ n.ls_error = v.ls_error /\ n.mmu_error = v.mmu_error
        /\ n.hit_load_valid = v.hit_load_valid
    BY <1>6, Zenon
  <1>7. ASSUME NEW s, NEW cyc \in BOOLEAN, NEW stb \in BOOLEAN, NEW rl, NEW wt,
               Doing(n, s, cyc, stb, rl, wt), SameAnswers(n, v), Wf(q), v.req = q, v.full = TRUE,
               NoAnswer(v), v.hit_load_valid = FALSE, taken, q.op # "sync"
        PROVE  Settles(n, q, taken) /\ n.full = TRUE /\ Wf(n.req) /\ n.req.k = q.k
    <2>1. Wf(n.req) /\ n.req.k = q.k /\ n.req.mmu = q.mmu BY <1>1, <1>6, <1>7, Started_Req
    <2>2. n.full = TRUE /\ NoAnswer(n) /\ n.slow_valid = FALSE /\ n.stcx_fail = FALSE
      BY <1>1, <1>6, <1>7, Zenon DEF SameAnswers, NoAnswer
    <2>3. n.wb.cyc \in BOOLEAN /\ n.wb.stb \in BOOLEAN BY <1>7 DEF Doing
    <2>4. Bits(n) BY <1>b, <1>c, <2>2, <2>3, Zenon DEF Bits, NoAnswer
    <2> QED BY <1>6, <1>7, <2>1, <2>2, <2>4, Zenon DEF Settles, NoAnswer
  <1>8. ASSUME NEW s, NEW cyc \in BOOLEAN, NEW stb \in BOOLEAN, NEW rl, NEW wt,
               Doing(n, s, cyc, stb, rl, wt), Wf(q), NoAnswer(v), v.hit_load_valid = FALSE, taken,
               AnswersSlow(n, v, q.mmu) \/ (FailsStcx(n, v) /\ ~q.mmu),
               q.k = "sync" => cyc = FALSE
        PROVE  Settles(n, q, taken) /\ n.full = FALSE
    <2>1. n.wb.cyc \in BOOLEAN /\ n.wb.stb \in BOOLEAN /\ (q.k = "sync" => n.wb.cyc = FALSE)
      BY <1>8, Zenon DEF Doing
    <2>2. n.full = FALSE BY <1>8, Zenon DEF AnswersSlow, FailsStcx
    <2>3. taken = TRUE /\ q.mmu \in BOOLEAN BY <1>1, <1>8 DEF Wf
    <2> QED BY <1>1, <1>b, <1>c, <1>8, <2>1, <2>2, <2>3, Settled, Zenon
  <1>9. CASE /\ taken /\ Wf(q) /\ v.full = TRUE /\ v.req = q /\ NoAnswer(v) /\ v.hit_load_valid = FALSE
    <2>1. CASE q.op = "lmiss" /\ q.k = "ncload"
      <3>1. SameAnswers(n, v) /\ Doing(n, "NC_LOAD_WAIT_ACK", TRUE, TRUE, v.reloading, v.write_tag)
        BY <2>1, Zenon DEF IdleDoes
      <3>2. Settles(n, q, taken) /\ n.full = TRUE /\ Wf(n.req) /\ n.req.k = q.k
        BY <1>7, <1>9, <2>1, <3>1, Zenon
      <3>3. Control(n) BY <1>4, <2>1, <3>1, <3>2, Zenon DEF Doing, Control, States
      <3>4. BusOK(n, len2) BY <1>3, <3>1 DEF Doing, BusOK, One
      <3> QED BY <3>2, <3>3, <3>4, Zenon DEF After
    <2>2. CASE (q.op = "lmiss" /\ q.k # "ncload") \/ (q.op = "store" /\ q.k = "dcbz")
      <3>1. SameAnswers(n, v) /\ \E wt : Doing(n, "RELOAD_WAIT_ACK", TRUE, TRUE, TRUE, wt)
        BY <2>2, Zenon DEF IdleDoes
      <3>2. PICK wt : Doing(n, "RELOAD_WAIT_ACK", TRUE, TRUE, TRUE, wt) BY <3>1, Zenon
      <3>3. q.op # "sync" BY <2>2
      <3>4. Settles(n, q, taken) /\ n.full = TRUE /\ Wf(n.req) /\ n.req.k = q.k
        BY <1>7, <1>9, <3>1, <3>2, <3>3, Zenon
      <3>5. Control(n) BY <3>2, <3>4, Zenon DEF Doing, Control, States
      <3>6. q.row \in Rows BY <1>9, Zenon DEF Wf
      <3>7. Stepping(q.row, q.row) /\ n.end_row \in Rows /\ Dist(q.row, n.end_row) = NumRows - 1
        BY <1>6, <3>6, Distance
      <3>8. Fetching(n.wb.row, n.store_row, n.end_row, 0, TRUE)
        BY <1>6, <3>6, <3>7, DcacheAssumption DEF Fetching
      <3>9. BusOK(n, len2) BY <1>3, <3>2, <3>8, Zenon DEF Doing, BusOK
      <3> QED BY <3>4, <3>5, <3>9 DEF After
    <2>3. CASE q.op = "store" /\ q.k = "stcx"
      <3>1. CASE reserved
        <4>1. SameAnswers(n, v) /\ Doing(n, "DO_STCX", TRUE, FALSE, v.reloading, v.write_tag)
          BY <2>3, <3>1, Zenon DEF IdleDoes
        <4>2. Settles(n, q, taken) /\ n.full = TRUE /\ Wf(n.req) /\ n.req.k = q.k
          BY <1>7, <1>9, <2>3, <4>1, Zenon
        <4>3. Control(n) BY <1>4, <2>3, <4>1, <4>2, Zenon DEF Doing, Control, States
        <4>4. BusOK(n, len2) BY <1>3, <1>6, <4>1 DEF Doing, BusOK
        <4> QED BY <4>2, <4>3, <4>4 DEF After
      <3>2. CASE ~reserved
        <4>1. FailsStcx(n, v) /\ Doing(n, "IDLE", FALSE, FALSE, FALSE, v.write_tag)
          BY <1>4, <2>3, <3>2, Zenon DEF IdleDoes
        <4>2. ~q.mmu /\ q.k # "sync" BY <1>9, <2>3 DEF Wf
        <4>3. Settles(n, q, taken) /\ n.full = FALSE BY <1>8, <1>9, <4>1, <4>2, Zenon
        <4>4. Control(n) BY <4>1, <4>3, AtRest, Zenon DEF Doing
        <4>5. BusOK(n, len2) BY <1>3, <4>1 DEF Doing, BusOK
        <4> QED BY <4>3, <4>4, <4>5 DEF After
      <3> QED BY <3>1, <3>2
    <2>4. CASE q.op = "store" /\ q.k \notin {"stcx", "dcbz"}
      <3>1. AnswersSlow(n, v, q.mmu) /\ Doing(n, "STORE_WAIT_ACK", TRUE, TRUE, v.reloading, v.write_tag)
        BY <2>4, Zenon DEF IdleDoes
      <3>2. q.k # "sync" BY <1>9, <2>4 DEF Wf
      <3>3. Settles(n, q, taken) /\ n.full = FALSE BY <1>8, <1>9, <3>1, <3>2, Zenon
      <3>4. Control(n) BY <1>4, <3>1, <3>3, Zenon DEF Doing, Control, States
      <3>5. n.state = "STORE_WAIT_ACK" /\ n.wb.cyc = TRUE /\ n.wb.stb = TRUE BY <3>1, Zenon DEF Doing
      <3>6. Acks(n) = 1 BY <1>6, <3>5 DEF Acks
      <3>7. BusOK(n, len2) BY <1>3, <3>5, <3>6, DcacheAssumption DEF BusOK, One
      <3> QED BY <3>3, <3>4, <3>7 DEF After
    <2>5. CASE q.op = "flush"
      <3>1. SameAnswers(n, v) /\ Doing(n, "FLUSH_CYCLE", FALSE, FALSE, FALSE, v.write_tag)
        BY <1>4, <2>5, Zenon DEF IdleDoes
      <3>2. Settles(n, q, taken) /\ n.full = TRUE /\ Wf(n.req) /\ n.req.k = q.k
        BY <1>7, <1>9, <2>5, <3>1, Zenon
      <3>3. q.k = "dcbf" BY <1>9, <2>5 DEF Wf
      <3>4. Control(n) BY <3>1, <3>2, <3>3, Zenon DEF Doing, Control, States
      <3>5. BusOK(n, len2) BY <1>3, <3>1 DEF Doing, BusOK
      <3> QED BY <3>2, <3>4, <3>5 DEF After
    <2>6. CASE q.op = "sync"
      <3>1. AnswersSlow(n, v, FALSE) /\ Doing(n, "IDLE", FALSE, FALSE, FALSE, v.write_tag)
        BY <1>4, <2>6, Zenon DEF IdleDoes
      <3>2. q.mmu = FALSE BY <1>9, <2>6 DEF Wf
      <3>3. Settles(n, q, taken) /\ n.full = FALSE BY <1>8, <1>9, <3>1, <3>2, Zenon
      <3>4. Control(n) BY <3>1, <3>3, AtRest, Zenon DEF Doing
      <3>5. BusOK(n, len2) BY <1>3, <3>1, Zenon DEF Doing, BusOK
      <3> QED BY <3>3, <3>4, <3>5 DEF After
    <2> QED BY <1>9, <2>1, <2>2, <2>3, <2>4, <2>5, <2>6, Zenon DEF Wf, Slow
  <1>10. CASE q.op \notin Slow
    <2>1. SameAnswers(n, v) /\ Doing(n, "IDLE", FALSE, FALSE, FALSE, v.write_tag)
      BY <1>4, <1>10, Zenon DEF IdleDoes
    <2>2. v.full = FALSE BY <1>1, <1>10, Zenon DEF Took, Wf
    <2>3. /\ n.full = v.full /\ n.slow_valid = FALSE /\ n.stcx_fail = FALSE /\ n.ls_valid = v.ls_valid
          /\ n.mmu_done = v.mmu_done /\ (v.full => n.req = v.req)
      BY <1>1, <2>1, <2>2, Zenon DEF SameAnswers
    <2>4. n.wb.cyc \in BOOLEAN /\ n.wb.stb \in BOOLEAN BY <2>1, Zenon DEF Doing
    <2>5. Settles(n, q, taken) BY <1>1, <1>b, <1>c, <2>3, <2>4, Unanswered, Zenon
    <2>6. Control(n) BY <2>1, <2>2, <2>3, AtRest, Zenon DEF Doing
    <2>7. BusOK(n, len2) BY <1>3, <2>1 DEF Doing, BusOK
    <2> QED BY <2>5, <2>6, <2>7 DEF After
  <1>11. q.op = "none" => q.op \notin Slow BY DEF Slow
  <1> QED BY <1>1, <1>9, <1>10, <1>11, Zenon DEF Took

(* The state machine. *)
LEMMA MachineStep ==
    ASSUME NEW v, NEW q, NEW taken, NEW stall, NEW ack, NEW len, NEW len2,
           Before(v, q, taken, stall, ack, len, len2), NEW n, n = Machine(v, q, stall, ack)
    PROVE  After(n, q, taken, len2)
  <1>1. /\ Shape(v) /\ stall \in BOOLEAN /\ ack \in BOOLEAN /\ Bits(r1) /\ Ready(v, stall, ack)
        /\ Took(v, q, taken) /\ v.slow_valid = FALSE /\ Control(r1)
    BY Zenon DEF Before, Ready, Took, Moves
  <1>2. v.wb.cyc \in BOOLEAN /\ v.wb.stb \in BOOLEAN BY <1>1, Counted
  <1>3. v.reloading \in BOOLEAN BY <1>1, Zenon DEF Ready, Control
  <1>4. q.mmu \in BOOLEAN /\ BoolAnswers(v) BY <1>1, Zenon DEF Took, Wf, BoolAnswers, NoAnswer
  <1>5. CASE r1.state = "IDLE"
    <2>1. n = Idle(v, q) BY <1>5 DEF Machine
    <2> QED BY <1>1, <1>5, <2>1, IdleIs, IdleStep
  <1>6. CASE r1.state = "RELOAD_WAIT_ACK"
    <2>1. n = Reload(v, q, stall, ack) BY <1>6 DEF Machine
    <2>2. Reloading(n, v, q, stall, ack) BY <1>1, <1>2, <1>3, <1>4, <2>1, Zenon DEF Reloading
    <2>3. ReloadDoes(n, v, q, stall, ack) BY <2>2, ReloadOf, Zenon
    <2> QED BY <1>6, <2>3, ReloadStep
  <1>7. CASE r1.state = "STORE_WAIT_ACK"
    <2>1. n = Store(v, q, stall, ack) BY <1>7 DEF Machine
    <2>2. StoreDoes(n, v, q, stall, ack) BY <1>1, <1>2, <1>3, <1>4, <2>1, StoreIs, Zenon
    <2> QED BY <1>7, <2>2, StoreStep
  <1>8. CASE r1.state = "NC_LOAD_WAIT_ACK"
    <2>1. n = NcLoad(v, stall, ack) BY <1>8 DEF Machine
    <2> QED BY <1>8, <2>1, NcLoadStep
  <1>9. CASE r1.state = "DO_STCX"
    <2>1. n = Stcx(v, stall) BY <1>9 DEF Machine
    <2> QED BY <1>9, <2>1, StcxStep
  <1>10. CASE r1.state = "FLUSH_CYCLE"
    <2>1. n = [Answered(v, FALSE) EXCEPT !.state = "IDLE"] BY <1>10 DEF Machine
    <2> QED BY <1>10, <2>1, FlushStep, Zenon
  <1> QED BY <1>1, <1>5, <1>6, <1>7, <1>8, <1>9, <1>10, Zenon DEF Control, States

-----------------------------------------------------------------------------
(* No line in two ways.                                                      *)

(* The request that the edge works on: a reload it starts is of a line that  *)
(* is in no way, and a row it waits for is still to come.                    *)
Wanted(q) ==
    /\ Fills(q) /\ ~q.hit_reload => Absent(q.line)
    /\ q.hit_reload => r1.state \notin {"IDLE", "STORE_WAIT_ACK"}
    /\ r1.state = "RELOAD_WAIT_ACK" /\ q.hit_reload => ToCome(r1, q.row)

(* Stage 0 looks the line up in the tags as they are, and in the rows that   *)
(* have come (is_hit, hit_reload).                                           *)
LEMMA LooksUp ==
    ASSUME IInv, TagInv, r1.full = FALSE, r0 \in Requests, NEW q, q = FromR0(TRUE)
    PROVE  Wanted(q)
  <1>1. /\ q.op = req_op /\ q.k = r0.op /\ q.line = r0.line /\ q.row = r0.row
        /\ q.is_hit = is_hit /\ q.hit_reload = (hit_reload /\ req_op = "lmiss")
    BY Fresh, Zenon
  <1>2. /\ r0.op \in {"load", "larx", "ncload", "touch", "dcbf", "store", "stcx", "ncstore", "dcbz", "sync"}
        /\ r0.ok \in BOOLEAN /\ r0.row \in Rows
    BY DEF Requests, Request
  <1>3. tag_set = tags BY Zenon DEF TagInv
  <1>4. hit_ways = {} => Absent(q.line) BY <1>1, <1>3, Zenon DEF hit_ways, Absent
  <1>5. hit_reload => idx_reload BY DEF hit_reload, reload_ways
  <1>6. Fills(q) /\ ~q.hit_reload => hit_ways = {}
    <2>1. CASE req_op = "lmiss" /\ r0.op # "ncload" /\ ~hit_reload
      <3>1. ~is_hit
        <4>1. r0.op \in {"load", "larx", "touch"} /\ r0.ok
          BY <1>2, <2>1 DEF req_op
        <4> QED BY <2>1, <4>1 DEF req_op
      <3> QED BY <2>1, <3>1 DEF is_hit, hit_reload
    <2>2. CASE req_op = "store" /\ r0.op = "dcbz" /\ ~is_hit
      <3>1. ~idx_reload BY <2>2 DEF idx_reload, load
      <3> QED BY <2>2, <3>1 DEF is_hit, reload_ways
    <2> QED BY <1>1, <2>1, <2>2, Zenon DEF Fills
  <1>7. q.hit_reload => r1.state \notin {"IDLE", "STORE_WAIT_ACK"}
    <2>1. r1.reloading = (r1.state = "RELOAD_WAIT_ACK") BY Zenon DEF IInv, Control
    <2> QED BY <1>1, <1>5, <2>1, Zenon DEF idx_reload
  <1>8. r1.state = "RELOAD_WAIT_ACK" /\ q.hit_reload => ToCome(r1, q.row)
    <2>1. hit_reload => ~r1.rows_valid[r0.row] BY <1>5 DEF idx_reload
    <2>2. r1.state = "RELOAD_WAIT_ACK" => r1.rows_valid[r0.row] \/ ToCome(r1, r0.row)
      BY <1>2, Zenon DEF TagInv
    <2> QED BY <1>1, <2>1, <2>2, Zenon
  <1> QED BY <1>4, <1>6, <1>7, <1>8, Zenon DEF Wanted

(* So is the request that waits in r1.req. *)
LEMMA IsWanted ==
    ASSUME IInv, TagInv, NEW hold \in BOOLEAN, NEW g, g = go(hold), NEW q, q = Req(g), r1.full \/ g
    PROVE  Wanted(q)
  <1>1. r1.full \in BOOLEAN /\ r0 \in Requests \cup {NoReq} BY Zenon DEF IInv, Bits
  <1>2. CASE r1.full
    <2>1. q = r1.req BY <1>2 DEF Req
    <2> QED BY <1>2, <2>1, Zenon DEF TagInv, Wanted
  <1>3. CASE ~r1.full
    <2>1. r1.full = FALSE /\ g = TRUE /\ r0.op # "none" BY <1>1, <1>3 DEF go
    <2>2. r0 \in Requests BY <1>1, <2>1 DEF NoReq
    <2>3. q = FromR0(TRUE) BY <2>1, Zenon DEF Req
    <2> QED BY <2>1, <2>2, <2>3, LooksUp, Zenon
  <1> QED BY <1>2, <1>3

(* What the edge starts from, as far as the tags go, and what it leaves. *)
Filling(v, q, stall, ack) ==
    /\ Shape(v) /\ v.full \in BOOLEAN /\ stall \in BOOLEAN /\ ack \in BOOLEAN
    /\ v.state = r1.state /\ v.store_row = r1.store_row /\ v.end_row = r1.end_row
    /\ v.rows_valid = r1.rows_valid /\ v.write_tag = FALSE /\ DOMAIN r1.rows_valid = Rows
    /\ v.full => Wf(q) /\ v.req = q /\ Wanted(q)
    /\ q.op \in Slow => v.full = TRUE
    /\ r1.write_tag => r1.state = "RELOAD_WAIT_ACK" /\ v.full = TRUE /\ ack = FALSE
    /\ r1.state = "RELOAD_WAIT_ACK" =>
         /\ r1.store_row \in Rows /\ r1.end_row \in Rows
         /\ \A i \in Rows : r1.rows_valid[i] \/ ToCome(r1, i)
RowsToCome(n) ==
    n.state = "RELOAD_WAIT_ACK" =>
        /\ \A i \in Rows : n.rows_valid[i] \/ ToCome(n, i)
        /\ n.full /\ n.req.hit_reload => ToCome(n, n.req.row)
Filled(n, v, q) ==
    /\ DOMAIN n.rows_valid = Rows /\ RowsToCome(n)
    /\ n.write_tag => /\ r1.state = "IDLE" /\ Fills(q) /\ v.full /\ n.state = "RELOAD_WAIT_ACK"
                      /\ n.full /\ n.req.hit_reload /\ n.line = q.line
    /\ n.full /\ ~n.req.hit_reload => v.full /\ n.req = q
    /\ n.full /\ n.req.hit_reload => n.state \notin {"IDLE", "STORE_WAIT_ACK"}
    /\ r1.write_tag => n.full

(* IDLE starts a reload from the row that is wanted. *)
LEMMA FillIdle ==
    ASSUME NEW v, NEW q, NEW stall, NEW ack, Filling(v, q, stall, ack), r1.state = "IDLE",
           NEW n, IdleDoes(n, v, q)
    PROVE  Filled(n, v, q)
  <1>1. /\ Shape(v) /\ v.full \in BOOLEAN /\ v.state = "IDLE" /\ v.write_tag = FALSE
        /\ v.full => Wf(q) /\ v.req = q /\ Wanted(q)
        /\ q.op \in Slow => v.full = TRUE
        /\ r1.write_tag => r1.state = "RELOAD_WAIT_ACK"
    BY Zenon DEF Filling
  <1>2. /\ n.store_row = q.row /\ n.end_row = (q.row + NumRows - 1) % NumRows
        /\ n.line = q.line /\ n.rows_valid = [r \in Rows |-> FALSE]
        /\ n.req = [v.req EXCEPT !.hit_reload = TRUE]
    BY Zenon DEF IdleDoes, IdleKeeps
  <1>3. n.req.hit_reload = TRUE /\ n.req.row = v.req.row BY <1>1, <1>2 DEF Shape, ReqFields
  <1>4. ~r1.write_tag BY <1>1
  <1>5. n.full => v.full
        /\ n.state \in {"NC_LOAD_WAIT_ACK", "RELOAD_WAIT_ACK", "DO_STCX", "FLUSH_CYCLE"}
    <2>1. CASE q.op = "lmiss"
      <3>1. n.state \in {"NC_LOAD_WAIT_ACK", "RELOAD_WAIT_ACK"} /\ n.full = v.full
        BY <2>1, Zenon DEF IdleDoes, SameAnswers, Doing
      <3> QED BY <3>1
    <2>2. CASE q.op = "store"
      <3>1. CASE q.k = "stcx" BY <2>2, <3>1, Zenon DEF IdleDoes, SameAnswers, FailsStcx, Doing
      <3>2. CASE q.k = "dcbz" BY <2>2, <3>2, Zenon DEF IdleDoes, SameAnswers, Doing
      <3>3. CASE q.k \notin {"stcx", "dcbz"}
        <4>1. n.full = FALSE BY <2>2, <3>3, Zenon DEF IdleDoes, AnswersSlow
        <4> QED BY <4>1
      <3> QED BY <3>1, <3>2, <3>3
    <2>3. CASE q.op = "flush" BY <2>3, Zenon DEF IdleDoes, SameAnswers, Doing
    <2>4. CASE q.op = "sync"
      <3>1. n.full = FALSE BY <2>4, Zenon DEF IdleDoes, AnswersSlow
      <3> QED BY <3>1
    <2>5. CASE q.op \notin Slow
      <3>1. v.full = FALSE BY <1>1, <2>5 DEF Wf
      <3>2. n.full = v.full BY <2>5, Zenon DEF IdleDoes, SameAnswers
      <3> QED BY <3>1, <3>2, Zenon
    <2> QED BY <2>1, <2>2, <2>3, <2>4, <2>5 DEF Slow
  <1>6. n.write_tag => /\ Fills(q) /\ n.state = "RELOAD_WAIT_ACK" /\ n.full = v.full
    <2>1. CASE q.op = "lmiss" /\ q.k = "ncload"
      <3>1. n.write_tag = FALSE BY <1>1, <2>1, Zenon DEF IdleDoes, Doing
      <3> QED BY <3>1
    <2>2. CASE q.op = "lmiss" /\ q.k # "ncload"
      BY <2>2, Zenon DEF IdleDoes, SameAnswers, Doing, Fills
    <2>3. CASE q.op = "store" /\ q.k = "stcx"
      <3>1. n.write_tag = FALSE BY <1>1, <2>3, Zenon DEF IdleDoes, Doing
      <3> QED BY <3>1
    <2>4. CASE q.op = "store" /\ q.k = "dcbz"
      BY <2>4, Zenon DEF IdleDoes, SameAnswers, Doing, Fills
    <2>5. CASE q.op = "store" /\ q.k \notin {"stcx", "dcbz"}
      <3>1. n.write_tag = FALSE BY <1>1, <2>5, Zenon DEF IdleDoes, Doing
      <3> QED BY <3>1
    <2>6. CASE q.op \in {"flush", "sync"} \/ q.op \notin Slow
      <3>0. q.op = "flush" \/ q.op = "sync" \/ q.op \notin Slow BY <2>6
      <3>1. n.write_tag = FALSE BY <1>1, <3>0, Zenon DEF IdleDoes, Doing
      <3> QED BY <3>1
    <2> QED BY <2>1, <2>2, <2>3, <2>4, <2>5, <2>6 DEF Slow
  <1>7. n.write_tag => v.full /\ n.full
    <2>1. Fills(q) => q.op \in Slow BY DEF Fills, Slow
    <2> QED BY <1>1, <1>6, <2>1, Zenon
  <1>8. RowsToCome(n)
    <2> SUFFICES ASSUME n.state = "RELOAD_WAIT_ACK"
                 PROVE  /\ \A i \in Rows : ToCome(n, i)
                        /\ n.full => ToCome(n, n.req.row)
      BY DEF RowsToCome
    <2>1. v.full
      <3>1. q.op \in Slow \/ n.state = "IDLE"
        <4>1. q.op \notin Slow => n.state = v.state BY Zenon DEF IdleDoes, Doing
        <4> QED BY <1>1, <4>1
      <3> QED BY <1>1, <3>1
    <2>2. q.row \in Rows /\ v.req = q BY <1>1, <2>1 DEF Wf
    <2>3. Dist(n.store_row, n.end_row) = NumRows - 1
      BY <1>2, <2>2, Distance
    <2>4. \A i \in Rows : ToCome(n, i)
      BY <1>2, <2>2, <2>3, Distance DEF ToCome
    <2> QED BY <1>3, <2>2, <2>4
  <1>9. DOMAIN n.rows_valid = Rows BY <1>2
  <1>10. n.full /\ n.req.hit_reload => n.state \notin {"IDLE", "STORE_WAIT_ACK"} BY <1>5
  <1> QED BY <1>2, <1>3, <1>4, <1>6, <1>7, <1>8, <1>9, <1>10, Zenon DEF Filled

(* A row that arrives is not to come any more; the others still are. *)
LEMMA RowArrives ==
    ASSUME NEW s \in Rows, NEW e \in Rows, s # e, NEW i \in Rows, i # s,
           Dist(s, i) <= Dist(s, e)
    PROVE  Dist(next_row(s), i) <= Dist(next_row(s), e)
  <1>1. /\ Dist(s, i) \in Nat /\ Dist(next_row(s), i) = Dist(s, i) - 1
        /\ Dist(s, e) \in Nat /\ Dist(next_row(s), e) = Dist(s, e) - 1
    BY Distance DEF Stepping
  <1> QED BY <1>1

(* RELOAD_WAIT_ACK answers the request that waits before its last row. *)
LEMMA FillReload ==
    ASSUME NEW v, NEW q, NEW stall, NEW ack, Filling(v, q, stall, ack),
           r1.state = "RELOAD_WAIT_ACK", NEW n, ReloadDoes(n, v, q, stall, ack)
    PROVE  Filled(n, v, q)
  <1> DEFINE last == ack /\ r1.store_row = r1.end_row
             row  == ack /\ row_wanted(q)
             s == r1.store_row
             e == r1.end_row
  <1>1. /\ Shape(v) /\ v.full \in BOOLEAN /\ v.state = r1.state /\ v.write_tag = FALSE
        /\ v.store_row = s /\ v.end_row = e /\ v.rows_valid = r1.rows_valid
        /\ v.full => Wf(q) /\ v.req = q /\ Wanted(q)
        /\ r1.write_tag => v.full = TRUE /\ ack = FALSE
        /\ DOMAIN r1.rows_valid = Rows /\ ack \in BOOLEAN
        /\ s \in Rows /\ e \in Rows /\ \A i \in Rows : r1.rows_valid[i] \/ ToCome(r1, i)
    BY Zenon DEF Filling
  <1>2. /\ n.full = (v.full /\ ~touch_done /\ ~row)
        /\ n.state = (IF last THEN "IDLE" ELSE v.state)
        /\ n.store_row = (IF ack THEN next_row(v.store_row) ELSE v.store_row)
        /\ n.rows_valid = (IF ack THEN [v.rows_valid EXCEPT ![r1.store_row] = TRUE] ELSE v.rows_valid)
    BY Zenon DEF ReloadDoes
  <1>3. n.req = v.req /\ n.end_row = v.end_row /\ n.write_tag = v.write_tag
    BY DEF ReloadDoes, Same, R1Fields
  <1>4. n.full => v.full /\ n.req = q /\ ~row BY <1>1, <1>2, <1>3, Zenon
  <1>5. r1.write_tag => n.full
    <2>1. r1.write_tag => ~touch_done BY DEF touch_done
    <2> QED BY <1>1, <1>2, <2>1, Zenon
  <1>6. n.full /\ n.req.hit_reload => q.row \in Rows /\ ToCome(r1, q.row) /\ (ack => s # q.row)
    <2>1. n.full /\ n.req.hit_reload => q.row \in Rows /\ ToCome(r1, q.row)
      BY <1>1, <1>4, Zenon DEF Wanted, Wf
    <2> QED BY <1>4, <2>1 DEF row_wanted
  <1>7. n.full /\ n.req.hit_reload => n.state = "RELOAD_WAIT_ACK"
    <2> SUFFICES ASSUME n.full, n.req.hit_reload, last PROVE FALSE BY <1>1, <1>2
    <2>1. Dist(s, q.row) <= Dist(s, e) /\ s = e /\ q.row # s /\ q.row \in Rows
      BY <1>6 DEF ToCome
    <2>2. Dist(s, e) = 0
      <3>1. Dist(s, s) = 0 BY <1>1 DEF Dist, Rows
      <3> QED BY <2>1, <3>1
    <2>3. Dist(s, q.row) \in Nat /\ Dist(s, q.row) # 0 BY <1>1, <2>1, Distance, ZenonT(60) DEF Stepping
    <2> QED BY <2>1, <2>2, <2>3
  <1>8. RowsToCome(n)
    <2> SUFFICES ASSUME ~last
                 PROVE  /\ \A i \in Rows : n.rows_valid[i] \/ ToCome(n, i)
                        /\ n.full /\ n.req.hit_reload => ToCome(n, n.req.row)
      BY <1>1, <1>2, Zenon DEF RowsToCome
    <2>1. CASE ~ack
      <3>1. n.store_row = s /\ n.end_row = e /\ n.rows_valid = r1.rows_valid BY <1>1, <1>2, <1>3, <2>1, Zenon
      <3>2. \A i : ToCome(n, i) = ToCome(r1, i) BY <3>1 DEF ToCome
      <3> QED BY <1>1, <1>4, <1>6, <3>1, <3>2, Zenon
    <2>2. CASE ack
      <3>1. /\ n.store_row = next_row(s) /\ n.end_row = e /\ s # e
            /\ n.rows_valid = [r1.rows_valid EXCEPT ![s] = TRUE]
        BY <1>1, <1>2, <1>3, <2>2
      <3>2. ASSUME NEW i \in Rows, i # s, ToCome(r1, i) PROVE ToCome(n, i)
        BY <1>1, <3>1, <3>2, RowArrives, Zenon DEF ToCome
      <3>3. n.rows_valid[s] /\ \A i \in Rows : i # s => n.rows_valid[i] = r1.rows_valid[i]
        BY <1>1, <3>1, Zenon
      <3>4. \A i \in Rows : n.rows_valid[i] \/ ToCome(n, i) BY <1>1, <3>2, <3>3, Zenon
      <3>5. n.full /\ n.req.hit_reload => ToCome(n, n.req.row) BY <1>4, <1>6, <2>2, <3>2, Zenon
      <3> QED BY <3>4, <3>5
    <2> QED BY <1>1, <2>1, <2>2, Zenon
  <1>9. DOMAIN n.rows_valid = Rows BY <1>1, <1>2
  <1>10. ~n.write_tag BY <1>1, <1>3
  <1>11. n.full /\ n.req.hit_reload => n.state \notin {"IDLE", "STORE_WAIT_ACK"} BY <1>7
  <1> QED BY <1>4, <1>5, <1>8, <1>9, <1>10, <1>11, Zenon DEF Filled

(* The other states leave the tags and the rows alone. *)
LEMMA FillOther ==
    ASSUME NEW v, NEW q, NEW stall, NEW ack, Filling(v, q, stall, ack),
           r1.state \notin {"IDLE", "RELOAD_WAIT_ACK"}, NEW n,
           n.req = v.req, n.write_tag = v.write_tag, n.rows_valid = v.rows_valid,
           n.full => v.full, n.full /\ n.state # v.state => r1.state = "STORE_WAIT_ACK",
           n.state # "RELOAD_WAIT_ACK"
    PROVE  Filled(n, v, q)
  <1>1. /\ v.state = r1.state /\ v.rows_valid = r1.rows_valid /\ v.write_tag = FALSE
        /\ DOMAIN r1.rows_valid = Rows
        /\ v.full => v.req = q /\ Wanted(q)
        /\ r1.write_tag => r1.state = "RELOAD_WAIT_ACK"
    BY Zenon DEF Filling
  <1>2. ~r1.write_tag /\ ~n.write_tag BY <1>1
  <1>3. n.full => n.req = q BY <1>1, Zenon
  <1>4. n.full /\ n.req.hit_reload => r1.state # "STORE_WAIT_ACK" BY <1>1, <1>3 DEF Wanted
  <1>5. n.full /\ n.req.hit_reload => n.state \notin {"IDLE", "STORE_WAIT_ACK"} BY <1>1, <1>4
  <1>6. RowsToCome(n) BY Zenon DEF RowsToCome
  <1> QED BY <1>1, <1>2, <1>3, <1>5, <1>6, Zenon DEF Filled

(* Whatever the state. *)
LEMMA FillStep ==
    ASSUME NEW v, NEW q, NEW taken, NEW stall, NEW ack, NEW len, NEW len2,
           Before(v, q, taken, stall, ack, len, len2), Filling(v, q, stall, ack),
           NEW n, n = Machine(v, q, stall, ack)
    PROVE  Filled(n, v, q)
  <1>1. /\ Shape(v) /\ stall \in BOOLEAN /\ ack \in BOOLEAN /\ Bits(r1) /\ Ready(v, stall, ack)
        /\ Took(v, q, taken) /\ v.slow_valid = FALSE /\ Control(r1)
    BY Zenon DEF Before, Ready, Took, Moves
  <1>2. v.wb.cyc \in BOOLEAN /\ v.wb.stb \in BOOLEAN BY <1>1, Counted, Zenon
  <1>3. v.reloading \in BOOLEAN BY <1>1, Zenon DEF Ready, Control
  <1>4. q.mmu \in BOOLEAN /\ BoolAnswers(v) BY <1>1, Zenon DEF Took, Wf, BoolAnswers, NoAnswer
  <1>s. v.state = r1.state BY <1>1, Zenon DEF Ready
  <1>5. CASE r1.state = "IDLE"
    <2>1. n = Idle(v, q) BY <1>5 DEF Machine
    <2> QED BY <1>1, <1>5, <2>1, IdleIs, FillIdle
  <1>6. CASE r1.state = "RELOAD_WAIT_ACK"
    <2>1. n = Reload(v, q, stall, ack) BY <1>6 DEF Machine
    <2>2. Reloading(n, v, q, stall, ack) BY <1>1, <1>2, <1>3, <1>4, <2>1, Zenon DEF Reloading
    <2>3. ReloadDoes(n, v, q, stall, ack) BY <2>2, ReloadOf, Zenon
    <2> QED BY <1>6, <2>3, FillReload
  <1>7. CASE r1.state = "STORE_WAIT_ACK"
    <2>1. n = Store(v, q, stall, ack) BY <1>7 DEF Machine
    <2>2. StoreDoes(n, v, q, stall, ack) BY <1>1, <1>2, <1>3, <1>4, <2>1, StoreIs, Zenon
    <2>3. n.full = (v.full /\ ~StoreNext(q, stall)) /\ n.state \in {"IDLE", "STORE_WAIT_ACK"}
      BY <1>7, <1>s, <2>2, Zenon DEF StoreDoes
    <2>4. n.req = v.req /\ n.write_tag = v.write_tag /\ n.rows_valid = v.rows_valid
      BY <2>2, Zenon DEF StoreDoes, Same, R1Fields
    <2> QED BY <1>7, <2>3, <2>4, FillOther, Zenon
  <1>8. CASE r1.state = "NC_LOAD_WAIT_ACK"
    <2>1. n = NcLoad(v, stall, ack) BY <1>8 DEF Machine
    <2>2. NcLoadDoes(n, v, stall, ack) BY <1>1, <1>2, <2>1, NcLoadIs, Zenon
    <2>3. n.req = v.req /\ n.write_tag = v.write_tag /\ n.rows_valid = v.rows_valid
      BY <2>2, Zenon DEF NcLoadDoes, Same, R1Fields
    <2>4. /\ n.full => v.full /\ n.state = v.state
          /\ n.state \in {"IDLE", "NC_LOAD_WAIT_ACK"}
      BY <1>8, <1>s, <2>2, Zenon DEF NcLoadDoes, AnswersSlow, SameAnswers
    <2> QED BY <1>8, <2>3, <2>4, FillOther, Zenon
  <1>9. CASE r1.state = "DO_STCX"
    <2>1. n = Stcx(v, stall) BY <1>9 DEF Machine
    <2>2. StcxDoes(n, v, stall) BY <1>1, <2>1, StcxIs
    <2>3. n.req = v.req /\ n.write_tag = v.write_tag /\ n.rows_valid = v.rows_valid
      BY <2>2, Zenon DEF StcxDoes, Same, R1Fields
    <2>4. /\ n.full => v.full /\ n.state = v.state
          /\ n.state \in {"IDLE", "DO_STCX", "STORE_WAIT_ACK"}
      BY <1>1, <1>9, <1>s, <2>2 DEF StcxDoes, AnswersSlow, SameAnswers, FailsStcx
    <2> QED BY <1>9, <2>3, <2>4, FillOther, Zenon
  <1>10. CASE r1.state = "FLUSH_CYCLE"
    <2>1. n = [Answered(v, FALSE) EXCEPT !.state = "IDLE"] BY <1>10 DEF Machine
    <2>2. /\ AnswersSlow(n, v, FALSE) /\ n.state = "IDLE"
          /\ Same(n, v, {"full", "ls_valid", "mmu_done", "slow_valid", "state"})
      BY <1>1, <2>1, FlushIs, Zenon
    <2>3. n.req = v.req /\ n.write_tag = v.write_tag /\ n.rows_valid = v.rows_valid
      BY <2>2, Zenon DEF Same, R1Fields
    <2>4. ~n.full /\ n.state = "IDLE" BY <2>2 DEF AnswersSlow
    <2> QED BY <1>10, <2>3, <2>4, FillOther, Zenon
  <1> QED BY <1>1, <1>5, <1>6, <1>7, <1>8, <1>9, <1>10 DEF Control, States

(* No valid way holds line l after the edge. *)
Missing(l) == \A w \in Ways : ~(valids'[w] /\ tags'[w] = l)

(* The tag arrays: a way is filled with a line that no way holds, and        *)
(* emptied by a snooped write or a flush (next_valids, next_tags).           *)
LEMMA Arrays ==
    ASSUME TagInv, NEW victim, valids' = next_valids(victim), tags' = next_tags(victim), tag_set' = tags
    PROVE  /\ valids' \in [Ways -> BOOLEAN] /\ tags' = [w \in Ways |-> tags'[w]]
           /\ OneWay'
           /\ tag_set' # tags' => r1.write_tag
           /\ \A l : Absent(l) /\ (r1.write_tag => r1.line # l) => Missing(l)
  <1> DEFINE f == replace_way(victim)
  <1>1. /\ valids \in [Ways -> BOOLEAN] /\ tags = [w \in Ways |-> tags[w]] /\ OneWay
        /\ r1.write_tag => Absent(r1.line)
    BY Zenon DEF TagInv
  <1>2. valids' \in [Ways -> BOOLEAN] /\ tags' = [w \in Ways |-> tags'[w]]
    BY DEF next_valids, next_tags
  <1>3. \A w \in Ways : valids'[w] => (r1.write_tag /\ w = f) \/ valids[w]
    BY DEF next_valids
  <1>4. \A w \in Ways : tags'[w] = IF r1.write_tag /\ w = f THEN r1.line ELSE tags[w]
    BY DEF next_tags
  <1> HIDE DEF f
  <1>5. ASSUME NEW l, Absent(l), r1.write_tag => r1.line # l
        PROVE  Missing(l)
    BY <1>3, <1>4, <1>5 DEF Absent, Missing
  <1>6. OneWay'
    <2> SUFFICES ASSUME NEW u \in Ways, NEW w \in Ways, valids'[u], valids'[w], tags'[u] = tags'[w]
                 PROVE  u = w
      BY DEF OneWay
    <2>1. CASE ~r1.write_tag BY <1>1, <1>3, <1>4, <2>1 DEF OneWay
    <2>2. CASE r1.write_tag
      <3>1. CASE u = f /\ w # f BY <1>1, <1>3, <1>4, <2>2, <3>1 DEF Absent
      <3>2. CASE u # f /\ w = f BY <1>1, <1>3, <1>4, <2>2, <3>2 DEF Absent
      <3>3. CASE u # f /\ w # f BY <1>1, <1>3, <1>4, <2>2, <3>3 DEF OneWay
      <3> QED BY <3>1, <3>2, <3>3
    <2> QED BY <2>1, <2>2
  <1>7. ~r1.write_tag => tags' = tags
    <2>1. ~r1.write_tag => tags' = [w \in Ways |-> tags[w]] BY DEF next_tags
    <2> QED BY <1>1, <2>1, Zenon
  <1> QED BY <1>2, <1>5, <1>6, <1>7, Zenon
=============================================================================
