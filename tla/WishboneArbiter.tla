-------------------------- MODULE WishboneArbiter --------------------------
(* wishbone_arbiter.vhdl between its masters (the caches, the debug master,  *)
(* DMA) and one pipelined wishbone slave.  One step is one clock cycle: the  *)
(* combinational muxes route strobe, stall and ack, then selected and the    *)
(* masters' and the slave's registers change at the clock edge.              *)
EXTENDS Naturals, Sequences, FiniteSets

CONSTANTS Counts,       \* values of the generic NUM_MASTERS
          MaxPend       \* bound: strobes a master leaves unacknowledged

ASSUME ArbiterAssumption == Counts \subseteq Nat \ {0} /\ MaxPend \in Nat

VARIABLES NUM_MASTERS,  \* the generic: fixed in a behaviour
          selected,
          cyc, stb,     \* wb_masters_in(i).cyc, .stb
          pend,         \* acks each master still waits for
          slv           \* masters whose accepted strobes the slave has not acked

avars == <<NUM_MASTERS, selected, cyc, stb, pend, slv>>

Master == 0 .. NUM_MASTERS - 1

busy == cyc[selected]

Requesting == {i \in Master : cyc[i]}

\* variant: the last requesting master wins
CandidateLast == IF Requesting = {} THEN selected
                 ELSE CHOOSE i \in Requesting : \A j \in Requesting : i >= j

candidate == IF Requesting = {} THEN selected
             ELSE CHOOSE i \in Requesting : \A j \in Requesting : i <= j

\* variant: a new candidate takes the bus without waiting for the owner
EarlySelAlways == candidate

early_sel == IF NUM_MASTERS <= 4 /\ ~busy THEN candidate ELSE selected

Routed(i) == early_sel = i /\ cyc[i]

AckTo(i, ack) == Routed(i) /\ ack
StallTo(i, stall) == ~Routed(i) \/ stall

(* A strobe is accepted when cyc and stb are up and stall is down. *)
Accepted(i, stall) == cyc[i] /\ stb[i] /\ ~StallTo(i, stall)

PendAfter(i, stall, ack) ==
    pend[i] + (IF Accepted(i, stall) THEN 1 ELSE 0)
            - (IF AckTo(i, ack) THEN 1 ELSE 0)

(* What a master drives: nothing, a cycle, or a cycle with a strobe. *)
Drive == {[cyc |-> FALSE, stb |-> FALSE], [cyc |-> TRUE, stb |-> FALSE], [cyc |-> TRUE, stb |-> TRUE]}

(* The wishbone master side as dcache.vhdl drives it: stb stays up until it  *)
(* is accepted, and cyc is dropped only when the last ack has come           *)
(* (STORE_WAIT_ACK, RELOAD_WAIT_ACK).                                        *)
MayDrive(i, stall, ack, d) ==
    /\ d.stb => PendAfter(i, stall, ack) < MaxPend
    /\ stb[i] /\ ~Accepted(i, stall) => d.stb
    /\ ~d.cyc => PendAfter(i, stall, ack) = 0

MasterStep(stall, ack) ==
    \E d \in [Master -> Drive] :
        /\ \A i \in Master : MayDrive(i, stall, ack, d[i])
        /\ cyc' = [i \in Master |-> d[i].cyc]
        /\ stb' = [i \in Master |-> d[i].stb]
        /\ pend' = [i \in Master |-> PendAfter(i, stall, ack)]

(* The slave acks accepted strobes in order, one cycle later or more. *)
SlaveStep(stall, ack) ==
    LET rest == IF ack THEN Tail(slv) ELSE slv
    IN /\ ack => slv # <<>>
       /\ slv' = IF \E i \in Master : Accepted(i, stall)
                 THEN Append(rest, early_sel) ELSE rest

Arbitrate == selected' = IF busy THEN selected ELSE candidate

Quiet(n) == /\ selected = 0
            /\ cyc = [i \in 0 .. n - 1 |-> FALSE]
            /\ stb = [i \in 0 .. n - 1 |-> FALSE]
            /\ pend = [i \in 0 .. n - 1 |-> 0]
            /\ slv = <<>>

ArbiterInit == NUM_MASTERS \in Counts /\ Quiet(NUM_MASTERS)

ArbiterClock(stall, ack) ==
    /\ MasterStep(stall, ack)
    /\ SlaveStep(stall, ack)
    /\ Arbitrate
    /\ UNCHANGED NUM_MASTERS

(* rst = '1', which the masters and the slave see too. *)
ArbiterReset == /\ selected' = 0
                /\ cyc' = [i \in Master |-> FALSE]
                /\ stb' = [i \in Master |-> FALSE]
                /\ pend' = [i \in Master |-> 0]
                /\ slv' = <<>>
                /\ UNCHANGED NUM_MASTERS

ArbiterNext == ArbiterReset \/ \E stall, ack \in BOOLEAN : ArbiterClock(stall, ack)

ArbiterSpec == ArbiterInit /\ [][ArbiterNext]_avars

-----------------------------------------------------------------------------

(* selected is a master, and no master is sent more acks than it has sent    *)
(* strobes.                                                                  *)
ArbiterTypeOK ==
    /\ selected \in Master
    /\ cyc \in [Master -> BOOLEAN] /\ stb \in [Master -> BOOLEAN]
    /\ pend \in [Master -> 0 .. MaxPend]
    /\ slv \in Seq(Master)

(* Whatever the slave acks next is routed to the master that sent the        *)
(* strobe, and that master still holds its cycle: the early selection of a   *)
(* new candidate never takes the bus away from, or delivers an ack past, a   *)
(* master with an access outstanding.                                        *)
AckReachesIssuer == slv # <<>> => Routed(Head(slv))

(* A master never waits for an ack the slave does not owe it: no ack is      *)
(* dropped by the multiplexer and none is delivered twice.                   *)
NoAckLost == \A i \in Master :
                pend[i] = Cardinality({k \in DOMAIN slv : slv[k] = i})

(* Every ack of the slave goes to the master that is owed it, and to no      *)
(* other, however the early selection of a candidate, the release of cyc and *)
(* accesses in flight coincide.                                              *)
AcksRouted == AckReachesIssuer /\ NoAckLost

(* Master 0, which comes first in the priority order of the candidate loop,  *)
(* is given the bus each time it asks for it and keeps asking, as long as    *)
(* every master that owns the bus gives it up in the end.                    *)
TopPriorityServed == cyc[0] ~> (~cyc[0] \/ Routed(0))

(* The clock does not stop while selected is due to change, and no master    *)
(* owns the bus for ever.                                                    *)
Clocked == WF_selected(~busy /\ selected' = candidate)
MastersYield == \A i \in UNION {0 .. n - 1 : n \in Counts} : []<>(i \in Master => ~Routed(i))
=============================================================================
