------------------------------- MODULE Dcache -------------------------------
(* The write-through L1 data cache of dcache.vhdl as one byte column of one   *)
(* set sees it: stage 0, the hit test, the data and tag RAMs with their       *)
(* one-cycle reads and the forwarding that hides them, the slow state machine *)
(* with its Wishbone master, the reservation, and the snooping of the other   *)
(* masters' writes.  Address translation is reduced to its outcome (q.ok);    *)
(* the PLRU victim is any way; quadword atomics are left out.  A step is one  *)
(* rising edge of clk.                                                        *)
EXTENDS Naturals, Sequences, FiniteSets

CONSTANTS Lines,      \* real line addresses that map to the set
          NumRows,    \* rows per line
          Ways,
          Vals,       \* values of the byte
          Zero,       \* what dcbz writes
          Page,       \* Lines -> page number
          MaxAcks,    \* limit on outstanding stores (7 in the code)
          MidTag      \* reset may come in the cycle that writes a tag

ASSUME DcacheAssumption == /\ Lines # {} /\ Ways # {} /\ Zero \in Vals
                           /\ NumRows \in Nat \ {0} /\ MaxAcks \in 1..7
                           /\ MidTag \in BOOLEAN

Rows == 0..(NumRows - 1)
NoReq == [op |-> "none", line |-> CHOOSE l \in Lines : TRUE, row |-> 0, data |-> Zero,
          sel |-> FALSE, ok |-> TRUE, mmu |-> FALSE]
(* sel: the store selects the byte; ok: translation and permissions allow it; *)
(* data: what the store data bus carries, with a load too.                    *)
Request == [op : {"load", "larx", "ncload", "touch", "dcbf", "store", "stcx", "ncstore",
                  "dcbz", "sync"},
            line : Lines, row : Rows, data : Vals, sel : BOOLEAN, ok : BOOLEAN, mmu : BOOLEAN]

VARIABLES
    r0,        \* the request in stage 0
    r1,        \* stage 1: reload/store machine, completion and forwarding registers
    valids, tags, ram,
    tag_set, dout,      \* what the tag RAM and the data RAMs read at the last edge
    rsrv,      \* reservation
    snoop,     \* snoop_valid, snoop_paddr, snoop_tag_set
    mem, bus,  \* memory behind the bus; our accepted and unacknowledged accesses
    own,       \* the arbiter keeps our master selected
    asked,     \* ghost: requests accepted and not answered, oldest first
    want,      \* ghost: what the load whose data is in data_out should have read
    link       \* ghost: the line the last larx read, and what became of it

vars == <<r0, r1, valids, tags, ram, tag_set, dout, rsrv, snoop, mem, bus, own, asked, want,
          link>>

(***************************************************************************)
(* Stage 0 and the hit test                                                *)
(***************************************************************************)
load(q) == q.op \in {"load", "larx", "ncload", "touch", "dcbf"}
nc(q) == q.op \in {"ncload", "ncstore"}
next_row(r) == (r + 1) % NumRows
Merge(old, w) == IF w.sel THEN w.data ELSE old

\* variant: the request behind one that failed is carried out
GoAfterError(hold) == r0.op # "none" /\ ~r1.full /\ ~hold
go(hold) == r0.op # "none" /\ ~r1.full /\ ~hold /\ ~r1.ls_error

hit_ways == {w \in Ways : valids[w] /\ tag_set[w] = r0.line}

\* the row wanted from the line being reloaded has not come yet
idx_reload == r1.reloading /\ load(r0) /\ r0.op # "touch" /\ ~r1.rows_valid[r0.row]
reload_ways == IF idx_reload THEN {r1.store_way} ELSE {}
is_hit == hit_ways \ reload_ways # {}
hit_reload == hit_ways \cap reload_ways # {}
hit_way == IF hit_ways = {} THEN r1.store_way ELSE CHOOSE w \in hit_ways : TRUE

snoop_hits == {w \in Ways : snoop.valid /\ snoop.tags[w] = snoop.line}
req_snoop_hit == snoop_hits \cap hit_ways # {}

\* variant: the reservation survives the other masters' writes
NoKill == FALSE
kill_rsrv == snoop.valid /\ rsrv.valid /\ snoop.line = rsrv.line

(* What dcache_request makes of the request in r0. *)
req_op ==
    IF r0.op = "sync" THEN "sync"
    ELSE IF ~r0.ok THEN IF r0.op = "touch" THEN "nop" ELSE "bad"
    ELSE CASE r0.op = "touch" -> IF is_hit \/ hit_reload THEN "hit" ELSE "lmiss"
           [] r0.op = "dcbf"  -> IF is_hit THEN "flush" ELSE "nop"
           [] r0.op = "ncload"  -> IF is_hit THEN "bad" ELSE "lmiss"
           [] r0.op = "ncstore" -> IF is_hit THEN "bad" ELSE "store"
           [] r0.op \in {"store", "stcx", "dcbz"} -> "store"
           [] r0.op \in {"load", "larx"} -> IF is_hit THEN "hit" ELSE "lmiss"

(* The store written into the RAM at this edge and the one written at the    *)
(* last edge are not in dout: they are forwarded.                            *)
\* variant: only the write of the previous cycle is forwarded
NoForward(w) == FALSE
use_forward_st(w) == r1.write_bram /\ r0.row = r1.store_row /\ w = r1.store_way
use_forward2(w) == r1.fwd.valid /\ r0.row = r1.fwd.row /\ w = r1.fwd.way
cache_out(w) == LET old == IF use_forward2(w) THEN Merge(dout[w], r1.fwd) ELSE dout[w]
                IN IF use_forward_st(w) THEN Merge(old, r1.req) ELSE old

(* The request as the slow machine sees it: r1.req if that is in use, else  *)
(* the one in r0.                                                           *)
NoSlow == [op |-> "none", k |-> "none", line |-> NoReq.line, row |-> 0, data |-> Zero,
           sel |-> FALSE, mmu |-> FALSE,
           way |-> CHOOSE w \in Ways : TRUE, is_hit |-> FALSE, hit_reload |-> FALSE,
           same_page |-> FALSE, valid |-> FALSE]
FromR0(g) ==
    LET op == req_op IN
    IF ~g THEN NoSlow
    ELSE [op |-> op, k |-> r0.op, line |-> r0.line, row |-> r0.row,
          data |-> IF r0.op = "dcbz" THEN Zero ELSE r0.data,
          sel |-> r0.op = "dcbz" \/ (load(r0) /\ ~nc(r0)) \/ r0.sel,
          mmu |-> r0.mmu, way |-> hit_way, is_hit |-> is_hit,
          hit_reload |-> hit_reload /\ op = "lmiss",
          same_page |-> Page[r0.line] = Page[r1.wb.line], valid |-> TRUE]
Req(g) == IF r1.full THEN r1.req ELSE FromR0(g)
Slow == {"lmiss", "store", "flush", "sync"}

(***************************************************************************)
(* The edge of r1: registers every state sets, then the state's own        *)
(***************************************************************************)
acks == IF ~r1.wb.cyc THEN 0
        ELSE IF r1.wb.stb /\ ~r1.stalled /\ ~r1.dec_acks THEN (r1.acks_pending + 1) % 8
        ELSE IF (~r1.wb.stb \/ r1.stalled) /\ r1.dec_acks THEN (r1.acks_pending + 7) % 8
        ELSE r1.acks_pending

(* Where the data RAM is written: the way being replaced while its tag is   *)
(* written, else the way of the store or of the reload.                     *)
replace_way(victim) == IF r1.write_tag THEN victim ELSE r1.store_way

NoWrite == [valid |-> FALSE, row |-> 0, way |-> NoSlow.way, data |-> Zero, sel |-> FALSE]
RamWrite(victim, ack, dat) ==
    IF ~(r1.write_bram \/ (r1.reloading /\ ack)) THEN NoWrite
    ELSE [valid |-> TRUE, row |-> r1.store_row, way |-> replace_way(victim),
          data |-> IF r1.write_bram \/ r1.dcbz THEN r1.req.data ELSE dat,
          sel |-> r1.write_bram => r1.req.sel]

Common(g, victim, stall, ack, dat) ==
    LET op == req_op IN
    [r1 EXCEPT !.slow_valid = FALSE, !.write_bram = FALSE, !.stcx_fail = FALSE,
               !.ls_valid  = g /\ op \in {"hit", "nop"} /\ ~r0.mmu,
               !.mmu_done  = g /\ op = "hit" /\ r0.mmu,
               !.ls_error  = g /\ op = "bad" /\ ~r0.mmu,
               !.mmu_error = g /\ op = "bad" /\ r0.mmu,
               !.hit_load_valid = g /\ op = "hit",
               !.data_out  = IF g /\ is_hit THEN cache_out(hit_way) ELSE dat,
               !.fwd       = RamWrite(victim, ack, dat),
               !.store_way = replace_way(victim),
               !.write_tag = FALSE,
               !.req       = IF ~g THEN @ ELSE IF op \in Slow THEN FromR0(g)
                             ELSE [NoSlow EXCEPT !.k = r0.op, !.data = FromR0(g).data],
               !.full      = IF g THEN op \in Slow ELSE @,
               !.acks_pending = acks,
               !.stalled   = stall /\ r1.wb.cyc,
               !.dec_acks  = ack /\ r1.wb.cyc]

Answered(v, mmu) == [v EXCEPT !.full = FALSE, !.slow_valid = TRUE,
                              !.ls_valid = @ \/ ~mmu, !.mmu_done = @ \/ mmu]
StcxFailed(v) == [v EXCEPT !.full = FALSE, !.ls_valid = TRUE, !.stcx_fail = TRUE]

reserved == rsrv.valid /\ ~kill_rsrv

Idle(v, q) ==
    LET u == [v EXCEPT !.wb = [v.wb EXCEPT !.line = q.line, !.row = q.row, !.data = q.data,
                                           !.sel = q.sel],
                       !.dcbz = q.k = "dcbz", !.store_row = q.row,
                       !.end_row = (q.row + NumRows - 1) % NumRows, !.line = q.line,
                       !.req.hit_reload = TRUE,
                       !.store_way = IF q.is_hit THEN q.way ELSE v.store_way,
                       !.rows_valid = [r \in Rows |-> FALSE]]
        Bus(s, we, stb) == [u EXCEPT !.state = s,
                                     !.wb = [u.wb EXCEPT !.we = we, !.cyc = TRUE, !.stb = stb]]
    IN CASE q.op = "lmiss" /\ q.k = "ncload" -> Bus("NC_LOAD_WAIT_ACK", FALSE, TRUE)
         [] q.op = "lmiss" /\ q.k # "ncload" ->
                [Bus("RELOAD_WAIT_ACK", FALSE, TRUE) EXCEPT !.reloading = TRUE, !.write_tag = TRUE]
         [] q.op = "store" /\ q.k = "stcx" ->
                IF reserved THEN Bus("DO_STCX", TRUE, FALSE) ELSE StcxFailed(u)
         [] q.op = "store" /\ q.k = "dcbz" ->
                [Bus("RELOAD_WAIT_ACK", TRUE, TRUE) EXCEPT !.reloading = TRUE,
                                                          !.write_tag = ~q.is_hit]
         [] q.op = "store" /\ q.k \notin {"stcx", "dcbz"} ->
                Answered([Bus("STORE_WAIT_ACK", TRUE, TRUE) EXCEPT !.write_bram = q.is_hit], q.mmu)
         [] q.op = "flush" -> [u EXCEPT !.state = "FLUSH_CYCLE"]
         [] q.op = "sync"  -> Answered(u, FALSE)
         [] q.op \notin Slow -> u

\* the row that arrives is the one the request waits for
row_wanted(q) == q.hit_reload /\ r1.store_row = q.row

\* variant: dcbt completes before the tag is written
TouchEarly == r1.full /\ r1.req.k = "touch" /\ r1.req.hit_reload
touch_done == r1.full /\ r1.req.k = "touch" /\ r1.req.hit_reload /\ ~r1.write_tag

\* variant: a row counts as written before its data have come
RowAlways(ack) == TRUE
row_written(ack) == ack

Reload(v, q, stall, ack) ==
    LET sent == ~stall /\ r1.wb.stb
        a == IF ~sent THEN v
             ELSE [v EXCEPT !.wb = [v.wb EXCEPT !.stb = r1.wb.row # r1.end_row, !.row = next_row(@)]]
        b == IF touch_done THEN Answered(a, FALSE) ELSE a
        c == IF row_wanted(q) THEN Answered(b, q.mmu) ELSE b
        d == [c EXCEPT !.store_row = next_row(@)]
        e == IF ~ack THEN b
             ELSE IF r1.store_row # r1.end_row THEN d
             ELSE [d EXCEPT !.wb.cyc = FALSE, !.reloading = FALSE, !.state = "IDLE"]
    IN IF row_written(ack) THEN [e EXCEPT !.rows_valid[r1.store_row] = TRUE] ELSE e

(* A store that can follow the one on the bus without giving the bus up. *)
follows(q) == q.op = "store" /\ q.same_page /\ q.k \notin {"dcbz", "stcx"}
room == acks < MaxAcks
\* variant: the cycle ends one acknowledgement early
AckedEarly(ack) == acks <= 1
all_acked(ack) == acks = 0 \/ (ack /\ acks = 1)

Store(v, q, stall, ack) ==
    LET next == ~stall /\ follows(q) /\ room
        done == IF stall THEN ~r1.wb.stb ELSE IF follows(q) THEN ~r1.wb.stb ELSE TRUE
        a == IF ~stall /\ q.valid
             THEN [v EXCEPT !.wb = [v.wb EXCEPT !.line = IF q.same_page THEN q.line ELSE @,
                                                !.row = q.row, !.data = q.data, !.sel = q.sel]]
             ELSE v
        b == [a EXCEPT !.wb.stb = IF stall THEN @ ELSE next]
        c == IF next THEN Answered([b EXCEPT !.store_way = q.way, !.store_row = q.row,
                                             !.write_bram = q.is_hit], FALSE)
             ELSE b
    IN IF done /\ ~next /\ all_acked(ack)
       THEN [c EXCEPT !.state = "IDLE", !.wb = [c.wb EXCEPT !.cyc = FALSE, !.stb = FALSE]]
       ELSE c

NcLoad(v, stall, ack) ==
    IF ack THEN Answered([v EXCEPT !.state = "IDLE", !.wb = [v.wb EXCEPT !.cyc = FALSE, !.stb = FALSE]],
                         r1.req.mmu)
    ELSE [v EXCEPT !.wb.stb = @ /\ stall]

stcx_ok == reserved /\ r1.req.line = rsrv.line

Stcx(v, stall) ==
    IF ~stcx_ok THEN [StcxFailed(v) EXCEPT !.state = "IDLE", !.wb.cyc = FALSE]
    ELSE IF stall THEN v
    ELSE Answered([v EXCEPT !.write_bram = r1.req.is_hit, !.wb.stb = TRUE,
                            !.state = "STORE_WAIT_ACK"], FALSE)

Machine(v, q, stall, ack) ==
    CASE r1.state = "IDLE"             -> Idle(v, q)
      [] r1.state = "RELOAD_WAIT_ACK"  -> Reload(v, q, stall, ack)
      [] r1.state = "STORE_WAIT_ACK"   -> Store(v, q, stall, ack)
      [] r1.state = "NC_LOAD_WAIT_ACK" -> NcLoad(v, stall, ack)
      [] r1.state = "DO_STCX"          -> Stcx(v, stall)
      [] r1.state = "FLUSH_CYCLE"      -> [Answered(v, FALSE) EXCEPT !.state = "IDLE"]

(***************************************************************************)
(* The other registers and the bus                                         *)
(***************************************************************************)
next_valids(victim) ==
    [w \in Ways |-> /\ ~(r1.state = "FLUSH_CYCLE" /\ w = r1.store_way)
                    /\ \/ r1.write_tag /\ w = replace_way(victim)
                       \/ valids[w] /\ w \notin snoop_hits]

next_tags(victim) ==
    [w \in Ways |-> IF r1.write_tag /\ w = replace_way(victim) THEN r1.line ELSE tags[w]]

next_ram(x) == IF x.valid THEN [ram EXCEPT ![x.way][x.row] = Merge(@, x)] ELSE ram

(* The larx takes the reservation when it hits, or when its row arrives; a  *)
(* stcx. that gets as far as DO_STCX gives it up.                           *)
arrival_reserves == r1.req.k \in {"larx", "stcx"}
next_rsrv(g, q, stall, ack) ==
    LET larx == g /\ r0.ok /\ r0.op = "larx"
        a == [rsrv EXCEPT !.valid = @ /\ ~kill_rsrv]
        b == IF larx THEN [valid |-> is_hit /\ ~req_snoop_hit, line |-> r0.line] ELSE a
    IN IF r1.state = "RELOAD_WAIT_ACK" /\ ack /\ row_wanted(q) /\ arrival_reserves
       THEN [b EXCEPT !.valid = TRUE]
       ELSE IF r1.state = "DO_STCX" /\ (~stcx_ok \/ ~stall) THEN [b EXCEPT !.valid = FALSE]
       ELSE b

(* Our strobe is accepted. *)
accepted(stall) == r1.wb.cyc /\ r1.wb.stb /\ ~stall

(* x: the write another master makes in this cycle, as a set of at most one. *)
next_mem(stall, x) ==
    [l \in Lines |-> [r \in Rows |->
        IF accepted(stall) /\ r1.wb.we /\ l = r1.wb.line /\ r = r1.wb.row
        THEN Merge(mem[l][r], r1.wb)
        ELSE IF \E e \in x : e.line = l /\ e.row = r THEN (CHOOSE e \in x : TRUE).data
        ELSE mem[l][r]]]

NoSnoop == [valid |-> FALSE, line |-> NoReq.line, tags |-> [w \in Ways |-> NoReq.line]]

SnoopEdge(x) ==
    snoop' = IF x = {} THEN NoSnoop
             ELSE [valid |-> TRUE, line |-> (CHOOSE e \in x : TRUE).line, tags |-> tags]

(* Memory with our store that is on the bus and not accepted yet. *)
View(l, r) == IF /\ r1.wb.cyc /\ r1.wb.stb /\ r1.wb.we
                 /\ l = r1.wb.line /\ r = r1.wb.row
              THEN Merge(mem[l][r], r1.wb) ELSE mem[l][r]

Answers == r1.ls_valid \/ r1.mmu_done \/ r1.ls_error \/ r1.mmu_error

(* The ghosts.  asked: the request is taken into r0; it leaves when it is    *)
(* answered, or is dropped from r0 in the cycle of an error.                 *)
AskedEdge(d, hold) ==
    LET rest == IF Answers /\ asked # <<>> THEN Tail(asked) ELSE asked
        kept == IF r1.ls_error /\ r0.op # "none" /\ ~hold /\ rest # <<>>
                THEN SubSeq(rest, 1, Len(rest) - 1) ELSE rest
    IN asked' = IF d.op # "none" THEN Append(kept, [op |-> d.op, mmu |-> d.mmu]) ELSE kept

WantEdge(q) == want' = IF q.k \in {"load", "larx", "ncload"}
                       THEN [val |-> View(q.line, q.row),
                             lax |-> snoop.valid /\ snoop.line = q.line]
                       ELSE [val |-> Zero, lax |-> FALSE]

(* linked: a larx has read linked.line; broken: another master has written   *)
(* that line since; bad: a stcx. has succeeded all the same.                 *)
LinkEdge(g, q, stall, ack, x) ==
    LET reads == /\ q.k = "larx"
                 /\ \/ g /\ q.op = "hit"
                    \/ r1.state = "RELOAD_WAIT_ACK" /\ ack /\ row_wanted(q)
        writes(l) == \E e \in x : e.line = l
        wins  == r1.state = "DO_STCX" /\ stcx_ok /\ ~stall
    IN link' = IF reads
               THEN [valid |-> TRUE, line |-> q.line, bad |-> FALSE,
                     broken |-> writes(q.line) \/ (snoop.valid /\ snoop.line = q.line)]
               ELSE [link EXCEPT !.broken = @ \/ writes(link.line),
                                 !.valid = @ /\ ~(r1.state = "DO_STCX" /\ (stcx_ok => ~stall)),
                                 !.bad = wins /\ (~link.valid \/ link.broken \/ link.line # r1.req.line)]

(***************************************************************************)
(* The clock edge                                                          *)
(***************************************************************************)
Clock(d, hold, ours, slow, ack, victim, x) ==
    LET stall == ~ours \/ slow
        g     == go(hold)
        q     == Req(g)
        dat   == IF ack THEN mem[Head(bus).line][Head(bus).row] ELSE Zero
        x1    == RamWrite(victim, ack, dat)
    IN /\ r1' = Machine(Common(g, victim, stall, ack, dat), q, stall, ack)
       /\ r0' = IF r1.full \/ hold THEN r0 ELSE d
       /\ valids' = next_valids(victim)
       /\ tags' = next_tags(victim)
       /\ tag_set' = tags
       /\ ram' = next_ram(x1)
       /\ dout' = [w \in Ways |-> IF load(r0') THEN ram[w][r0'.row] ELSE Zero]
       /\ rsrv' = next_rsrv(g, q, stall, ack)
       /\ SnoopEdge(x)
       /\ mem' = next_mem(stall, x)
       /\ bus' = (IF ack THEN Tail(bus) ELSE bus) \o
                 (IF accepted(stall) THEN <<[line |-> r1.wb.line, row |-> r1.wb.row]>> ELSE <<>>)
       /\ own' = (ours /\ r1'.wb.cyc)
       /\ AskedEdge(d, hold)
       /\ WantEdge(q)
       /\ LinkEdge(g, q, stall, ack, x)

R1Init == [full |-> FALSE, req |-> NoSlow, state |-> "IDLE", line |-> NoReq.line,
           dcbz |-> FALSE, write_bram |-> FALSE, write_tag |-> FALSE, slow_valid |-> FALSE,
           hit_load_valid |-> FALSE, reloading |-> FALSE, store_way |-> NoSlow.way,
           store_row |-> 0, end_row |-> 0, rows_valid |-> [r \in Rows |-> FALSE],
           acks_pending |-> 0, stalled |-> FALSE, dec_acks |-> FALSE,
           wb |-> [cyc |-> FALSE, stb |-> FALSE, we |-> FALSE, line |-> NoReq.line, row |-> 0,
                   data |-> Zero, sel |-> FALSE],
           fwd |-> NoWrite,
           data_out |-> Zero, ls_valid |-> FALSE, ls_error |-> FALSE, mmu_done |-> FALSE,
           mmu_error |-> FALSE, stcx_fail |-> FALSE]

Init == /\ r0 = NoReq /\ r1 = R1Init
        /\ valids = [w \in Ways |-> FALSE] /\ tags \in [Ways -> {NoReq.line}]
        /\ ram = [w \in Ways |-> [r \in Rows |-> Zero]]
        /\ tag_set = tags /\ dout = [w \in Ways |-> Zero]
        /\ rsrv = [valid |-> FALSE, line |-> NoReq.line]
        /\ snoop = NoSnoop
        /\ mem = [l \in Lines |-> [r \in Rows |-> Zero]]
        /\ bus = <<>> /\ own = FALSE
        /\ asked = <<>> /\ want = [val |-> Zero, lax |-> FALSE]
        /\ link = [valid |-> FALSE, line |-> NoReq.line, broken |-> FALSE, bad |-> FALSE]

(* loadstore1 sends a request only while stall_out and an error do not hold  *)
(* it; the MMU only when no other request is on its way.                     *)
Offers(reqs, hold) ==
    IF r1.full \/ hold \/ r1.ls_error THEN {NoReq}
    ELSE {NoReq} \cup {q \in reqs : q.mmu \/ (\E n \in DOMAIN asked : asked[n].mmu) =>
                                       asked = <<>>}
Victims == IF r1.write_tag THEN Ways ELSE {NoSlow.way}

(* rst = '1': the processes leave write_tag, write_bram, dcbz and the        *)
(* request registers as they are; the bus drops what it had of ours.         *)
Reset == /\ MidTag \/ ~r1.write_tag
         /\ r0' = NoReq
         /\ r1' = [r1 EXCEPT !.state = "IDLE", !.full = FALSE, !.slow_valid = FALSE,
                             !.wb = [r1.wb EXCEPT !.cyc = FALSE, !.stb = FALSE,
                                                  !.line = NoReq.line, !.row = 0],
                             !.ls_valid = FALSE, !.mmu_done = FALSE,
                             !.reloading = FALSE, !.acks_pending = 0, !.stalled = FALSE,
                             !.dec_acks = FALSE, !.ls_error = FALSE, !.mmu_error = FALSE,
                             !.hit_load_valid = FALSE, !.fwd = NoWrite]
         /\ valids' = [w \in Ways |-> FALSE]
         /\ rsrv' = [valid |-> FALSE, line |-> NoReq.line]
         /\ tag_set' = tags /\ snoop' = NoSnoop /\ bus' = <<>> /\ own' = FALSE
         /\ asked' = <<>> /\ want' = [val |-> Zero, lax |-> FALSE]
         /\ link' = [valid |-> FALSE, line |-> NoReq.line, broken |-> FALSE, bad |-> FALSE]
         /\ UNCHANGED <<tags, ram, dout, mem>>

Bit(b) == IF b THEN BOOLEAN ELSE {FALSE}

(* hold: loadstore1 keeps the request in r0; ours, slow: the arbiter has      *)
(* selected our master, the slave is not ready; x: another master's write,    *)
(* made while the bus is not ours.                                            *)
Edge(reqs, snoops, holds) ==
    \E hold \in Bit(holds /\ r0.op # "none"), grant \in Bit(r1.wb.cyc /\ ~own) :
        LET ours == r1.wb.cyc /\ (own \/ grant)
        IN \E slow \in Bit(ours), ack \in Bit(bus # <<>>), victim \in Victims,
              x \in {{}} \cup (IF ours THEN {} ELSE {{e} : e \in snoops}) :
               \E d \in Offers(reqs, hold) : Clock(d, hold, ours, slow, ack, victim, x)

(* Everything that may come: any request of loadstore1, a load of the MMU,    *)
(* any write of another master.                                               *)
Requests == {q \in Request : q.mmu => q.op = "load"}
Writes == [line : Lines, row : Rows, data : Vals]

Next == Reset \/ Edge(Requests, Writes, TRUE)

Spec == Init /\ [][Next]_vars

-----------------------------------------------------------------------------
(* The registers and arrays keep their widths: the row counter stays in the   *)
(* line, the count of outstanding stores in its three bits.                   *)
TypeOK ==
    /\ r0 \in Request \cup {NoReq}
    /\ valids \in [Ways -> BOOLEAN] /\ tags \in [Ways -> Lines] /\ tag_set \in [Ways -> Lines]
    /\ ram \in [Ways -> [Rows -> Vals]] /\ dout \in [Ways -> Vals]
    /\ mem \in [Lines -> [Rows -> Vals]]
    /\ r1.acks_pending \in 0..7 /\ r1.store_way \in Ways /\ r1.store_row \in Rows
    /\ rsrv.line \in Lines

(* A load, larx or uncached load is answered with the value memory has once  *)
(* our stores that are on their way are counted in, whatever the forwarding  *)
(* paths, the reload in progress and the request queued behind it; only a    *)
(* write of another master that is being snooped may be missing.             *)
LoadFresh ==
    (r1.ls_valid \/ r1.mmu_done) /\ asked # <<>> /\ Head(asked).op \in {"load", "larx", "ncload"}
    => r1.data_out = want.val \/ want.lax

(* The RAM with the store that is written into it at the next edge. *)
RamView(w, r) == IF r1.write_bram /\ w = r1.store_way /\ r = r1.store_row
                 THEN Merge(ram[w][r], r1.req) ELSE ram[w][r]

(* Write-through: every row of a valid line that is not still to come agrees *)
(* with memory and our store on its way, but for a line being snooped.       *)
Coherent ==
    \A w \in Ways : valids[w] /\ ~(snoop.valid /\ snoop.line = tags[w]) =>
        \A r \in Rows : (r1.reloading /\ w = r1.store_way => r1.rows_valid[r]) =>
            RamView(w, r) = View(tags[w], r)

(* No line is in two ways: a second miss on a line whose reload has begun    *)
(* finds its tag.                                                            *)
OneWay == \A v, w \in Ways : valids[v] /\ valids[w] /\ tags[v] = tags[w] => v = w

(* Every request is answered once, in order and to the unit that sent it,    *)
(* and the collisions the assertions of writeback_control exclude cannot     *)
(* happen: what is asked is in r0, in r1.req or being answered.              *)
AnswersInOrder ==
    /\ Len(asked) = (IF r0.op # "none" THEN 1 ELSE 0) + (IF r1.full THEN 1 ELSE 0)
                    + (IF Answers THEN 1 ELSE 0)
    /\ Answers => Head(asked).mmu = (r1.mmu_done \/ r1.mmu_error)
    /\ Cardinality({b \in 1..4 : <<r1.ls_valid, r1.ls_error, r1.mmu_done, r1.mmu_error>>[b]}) <= 1
    /\ ~(r1.slow_valid /\ r1.stcx_fail)
    /\ ~((r1.slow_valid \/ r1.stcx_fail) /\ r1.hit_load_valid)

(* The bus is given up only when every access has been acknowledged, the     *)
(* count of outstanding stores is exact although it lags the bus by a cycle, *)
(* and a sync is answered after every store before it has reached memory.    *)
BusDrained ==
    /\ ~r1.wb.cyc => bus = <<>> /\ ~r1.wb.stb
    /\ r1.state = "STORE_WAIT_ACK" => acks = Len(bus) + (IF r1.wb.stb THEN 1 ELSE 0)
    /\ Len(bus) <= IF MaxAcks > NumRows THEN MaxAcks ELSE NumRows
    /\ r1.ls_valid /\ Head(asked).op = "sync" => bus = <<>> /\ ~r1.wb.stb

(* A stcx. succeeds only if its line is the one the last larx read and no    *)
(* other master has written that line since (dcache.vhdl 1453: "Clear the    *)
(* reservation if another entity writes to that line").                      *)
Atomic == ~link.bad
=============================================================================
