----------------------- MODULE WishboneArbiterProofs -----------------------
(* For every number of masters and every bound on outstanding strobes, each  *)
(* ack of the slave is routed to the master that is owed it.                 *)
EXTENDS WishboneArbiter, FiniteSetTheorems, WellFoundedInduction, TLAPS

(* The strobes the slave owes an ack all belong to the selected master,      *)
(* which holds its cycle and waits for exactly them; no other master waits.  *)
(* AcksRouted is not inductive: it does not say that selected stays with the *)
(* owner of slv, nor that a master without a cycle has no strobe.            *)
OneOwner == /\ \A k \in DOMAIN slv : slv[k] = selected
            /\ \A i \in Master : pend[i] = IF i = selected THEN Len(slv) ELSE 0
            /\ slv # <<>> => cyc[selected]

(* A strobe is up only in a cycle, and only with room for its ack. *)
StrobeHeld == \A i \in Master : stb[i] => cyc[i] /\ pend[i] < MaxPend

IInv == /\ NUM_MASTERS \in Nat \ {0}
        /\ ArbiterTypeOK
        /\ OneOwner
        /\ StrobeHeld

-----------------------------------------------------------------------------

(* A non-empty set of naturals has a least element. *)
LEMMA LeastNatural ==
    ASSUME NEW T, T \subseteq Nat, T # {}
    PROVE  \E i \in T : \A j \in T : i <= j
  <1> DEFINE R == OpToRel(<, Nat)
  <1>1. PICK i \in T : \A j \in T : ~(<<j, i>> \in R) BY NatLessThanWellFounded, WFMin, Zenon
  <1>2. \A j \in T : ~(j < i) BY <1>1, Zenon DEF OpToRel
  <1> QED BY <1>2

(* The loop over the masters that gives candidate ends at a requesting one,  *)
(* if there is one, and at the selected one otherwise.                       *)
LEMMA CandidateIsMaster ==
    ASSUME NUM_MASTERS \in Nat \ {0}, selected \in Master
    PROVE  /\ candidate \in Master
           /\ Requesting # {} => candidate \in Requesting
  <1>1. CASE Requesting = {} BY <1>1 DEF candidate
  <1>2. CASE Requesting # {}
    <2>1. Requesting \subseteq Nat /\ Requesting \subseteq Master BY DEF Requesting, Master
    <2>2. \E i \in Requesting : \A j \in Requesting : i <= j BY <1>2, <2>1, LeastNatural, Zenon
    <2> QED BY <1>2, <2>1, <2>2, Zenon DEF candidate
  <1> QED BY <1>1, <1>2

(* What early selection does to the owner: an idle bus has nothing           *)
(* outstanding, so whoever is routed is selected or takes over from nobody.  *)
LEMMA RoutedIsNext ==
    ASSUME IInv, Arbitrate
    PROVE  /\ selected' \in Master
           /\ early_sel \in Master
           /\ \A i \in Master : Routed(i) => i = selected'
           /\ ~busy => slv = <<>> /\ \A i \in Master : pend[i] = 0
           /\ busy => early_sel = selected /\ selected' = selected
  <1>1. candidate \in Master /\ selected \in Master
    BY CandidateIsMaster DEF IInv, ArbiterTypeOK
  <1>2. selected' \in Master /\ early_sel \in Master BY <1>1 DEF Arbitrate, early_sel
  <1>3. ~busy => slv = <<>> /\ \A i \in Master : pend[i] = 0
    BY DEF IInv, OneOwner, busy, ArbiterTypeOK
  <1>4. busy => early_sel = selected /\ selected' = selected BY DEF early_sel, Arbitrate
  <1>5. ASSUME NEW i \in Master, Routed(i), ~busy PROVE i = selected'
    BY <1>5 DEF Routed, early_sel, Arbitrate, busy
  <1> QED BY <1>2, <1>3, <1>4, <1>5 DEF Routed

(* The acknowledge of a clock comes only when something is outstanding, and  *)
(* then goes to the selected master.                                         *)
LEMMA PendStep ==
    ASSUME IInv, NEW stall \in BOOLEAN, NEW ack \in BOOLEAN, ArbiterClock(stall, ack)
    PROVE  /\ \A i \in Master : i # selected' => PendAfter(i, stall, ack) = 0 /\ ~Accepted(i, stall)
           /\ PendAfter(selected', stall, ack) = Len(slv')
           /\ slv' \in Seq(Master) /\ \A k \in DOMAIN slv' : slv'[k] = selected'
  <1> USE DEF ArbiterClock
  <1>1. /\ selected' \in Master /\ early_sel \in Master
        /\ \A i \in Master : Routed(i) => i = selected'
        /\ ~busy => slv = <<>> /\ \A i \in Master : pend[i] = 0
        /\ busy => early_sel = selected /\ selected' = selected
    BY RoutedIsNext
  <1>2. /\ slv \in Seq(Master) /\ Len(slv) \in Nat
        /\ \A k \in DOMAIN slv : slv[k] = selected
        /\ \A i \in Master : pend[i] = IF i = selected THEN Len(slv) ELSE 0
        /\ slv # <<>> => busy
    BY DEF IInv, OneOwner, ArbiterTypeOK, busy
  <1>3. ASSUME NEW i \in Master, i # selected'
        PROVE  PendAfter(i, stall, ack) = 0 /\ ~Accepted(i, stall)
    <2>1. ~Routed(i) BY <1>1, <1>3
    <2>2. pend[i] = 0 BY <1>1, <1>2, <1>3
    <2> QED BY <2>1, <2>2 DEF PendAfter, Accepted, AckTo, StallTo
  <1>4. ack => slv # <<>> /\ busy /\ Routed(selected')
    BY <1>1, <1>2 DEF SlaveStep, Routed, busy
  <1>5. AckTo(selected', ack) <=> ack BY <1>4 DEF AckTo
  <1>6. (\E i \in Master : Accepted(i, stall)) <=> Accepted(selected', stall) BY <1>1, <1>3
  <1>7. Accepted(selected', stall) => early_sel = selected' BY DEF Accepted, StallTo, Routed
  <1>8. pend[selected'] = Len(slv) BY <1>1, <1>2
  <1> DEFINE rest == IF ack THEN Tail(slv) ELSE slv
  <1>9. /\ rest \in Seq(Master) /\ Len(rest) = Len(slv) - (IF ack THEN 1 ELSE 0)
        /\ \A k \in DOMAIN rest : rest[k] = selected'
    <2>1. CASE ack BY <1>1, <1>2, <1>4, <2>1
    <2>2. CASE ~ack BY <1>1, <1>2, <2>2
    <2> QED BY <2>1, <2>2, Zenon
  <1>10. slv' = IF Accepted(selected', stall) THEN Append(rest, selected') ELSE rest
    BY <1>6, <1>7 DEF SlaveStep
  <1> HIDE DEF rest
  <1>11. CASE Accepted(selected', stall)
    <2>1. slv' = Append(rest, selected') BY <1>10, <1>11
    <2>2. slv' \in Seq(Master) /\ Len(slv') = Len(rest) + 1 BY <1>1, <1>9, <2>1
    <2>3. ASSUME NEW k \in DOMAIN slv' PROVE slv'[k] = selected' BY <1>1, <1>9, <2>1, <2>3
    <2>4. PendAfter(selected', stall, ack) = Len(slv')
      BY <1>2, <1>5, <1>8, <1>9, <1>11, <2>2 DEF PendAfter
    <2> QED BY <1>3, <2>2, <2>3, <2>4
  <1>12. CASE ~Accepted(selected', stall)
    <2>1. slv' = rest BY <1>10, <1>12
    <2>2. PendAfter(selected', stall, ack) = Len(slv')
      BY <1>2, <1>5, <1>8, <1>9, <1>12, <2>1 DEF PendAfter
    <2> QED BY <1>3, <1>9, <2>1, <2>2
  <1> QED BY <1>11, <1>12

(* The arbiter, the masters and the slave start in the inductive invariant. *)
LEMMA InitInv == ArbiterInit => IInv
  BY ArbiterAssumption DEF ArbiterInit, Quiet, IInv, ArbiterTypeOK, OneOwner, StrobeHeld, Master

(* A reset of arbiter, masters and slave leads back into it. *)
LEMMA ResetInv == IInv /\ ArbiterReset => IInv'
  BY ArbiterAssumption DEF ArbiterReset, IInv, ArbiterTypeOK, OneOwner, StrobeHeld, Master

(* A clock with any stall and ack of the slave and any move of the masters   *)
(* keeps it: no new owner is selected over an outstanding strobe.            *)
LEMMA ClockInv ==
    ASSUME IInv, NEW stall \in BOOLEAN, NEW ack \in BOOLEAN, ArbiterClock(stall, ack)
    PROVE  IInv'
  <1>1. /\ \A i \in Master : i # selected' => PendAfter(i, stall, ack) = 0 /\ ~Accepted(i, stall)
        /\ PendAfter(selected', stall, ack) = Len(slv')
        /\ slv' \in Seq(Master) /\ \A k \in DOMAIN slv' : slv'[k] = selected'
    BY PendStep
  <1>2. selected' \in Master BY RoutedIsNext DEF ArbiterClock
  <1>3. PICK d \in [Master -> Drive] :
            /\ \A i \in Master : MayDrive(i, stall, ack, d[i])
            /\ cyc' = [i \in Master |-> d[i].cyc]
            /\ stb' = [i \in Master |-> d[i].stb]
            /\ pend' = [i \in Master |-> PendAfter(i, stall, ack)]
    BY DEF ArbiterClock, MasterStep
  <1>4. Master' = Master /\ NUM_MASTERS' \in Nat \ {0} BY DEF ArbiterClock, Master, IInv
  <1>5. \A i \in Master : d[i].cyc \in BOOLEAN /\ d[i].stb \in BOOLEAN /\ (d[i].stb => d[i].cyc)
    <2>1. ASSUME NEW x \in Drive
          PROVE  x.cyc \in BOOLEAN /\ x.stb \in BOOLEAN /\ (x.stb => x.cyc)
      <3>1. CASE x = [cyc |-> FALSE, stb |-> FALSE] BY <3>1
      <3>2. CASE x = [cyc |-> TRUE, stb |-> FALSE] BY <3>2
      <3>3. CASE x = [cyc |-> TRUE, stb |-> TRUE] BY <3>3
      <3> QED BY <3>1, <3>2, <3>3, Zenon DEF Drive
    <2> QED BY <2>1
  <1>6. cyc' \in [Master -> BOOLEAN] /\ stb' \in [Master -> BOOLEAN] BY <1>3, <1>5
  <1>7. Len(slv') \in Nat BY <1>1
  <1>8. \A i \in Master : pend'[i] = IF i = selected' THEN Len(slv') ELSE 0 BY <1>1, <1>2, <1>3
  <1>9. Len(slv') <= MaxPend
    <2>1. pend[selected'] \in 0 .. MaxPend /\ (stb[selected'] => pend[selected'] < MaxPend)
      BY <1>2 DEF IInv, ArbiterTypeOK, StrobeHeld
    <2>2. PendAfter(selected', stall, ack) <= MaxPend
      BY <2>1, ArbiterAssumption DEF PendAfter, Accepted
    <2> QED BY <1>1, <2>2
  <1>10. pend' \in [Master -> 0 .. MaxPend]
    <2>1. \A i \in Master : PendAfter(i, stall, ack) \in 0 .. MaxPend
      BY <1>1, <1>7, <1>9, ArbiterAssumption
    <2> QED BY <1>3, <2>1
  <1>11. slv' # <<>> => cyc'[selected']
    <2>1. slv' # <<>> => Len(slv') # 0 BY <1>1
    <2> QED BY <1>1, <1>2, <1>3, <1>5, <2>1 DEF MayDrive
  <1>12. \A i \in Master : stb'[i] => cyc'[i] /\ pend'[i] < MaxPend BY <1>3, <1>5 DEF MayDrive
  <1> QED BY <1>1, <1>2, <1>4, <1>6, <1>8, <1>10, <1>11, <1>12
          DEF IInv, ArbiterTypeOK, OneOwner, StrobeHeld

(* With one owner every ack goes to the master that is owed it. *)
LEMMA InvRoutes == IInv => AcksRouted
  <1> SUFFICES ASSUME IInv PROVE AckReachesIssuer /\ NoAckLost BY DEF AcksRouted
  <1> USE DEF IInv, ArbiterTypeOK, OneOwner
  <1>1. AckReachesIssuer
    BY DEF AckReachesIssuer, Routed, early_sel, busy
  <1>2. ASSUME NEW i \in Master PROVE pend[i] = Cardinality({k \in DOMAIN slv : slv[k] = i})
    <2>1. CASE i = selected
      <3>1. {k \in DOMAIN slv : slv[k] = i} = 1 .. Len(slv) BY <2>1
      <3>2. Len(slv) \in Nat OBVIOUS
      <3>3. \A n \in Nat : Cardinality(1 .. n) = n
        <4> SUFFICES ASSUME NEW n \in Nat PROVE Cardinality(1 .. n) = n OBVIOUS
        <4>1. 1 \in Int /\ n \in Int OBVIOUS
        <4>2. Cardinality(1 .. n) = IF 1 > n THEN 0 ELSE n - 1 + 1 BY <4>1, FS_Interval, Zenon
        <4> QED BY <4>2
      <3> QED BY <2>1, <3>1, <3>2, <3>3, Zenon
    <2>2. CASE i # selected
      <3>1. {k \in DOMAIN slv : slv[k] = i} = {} BY <2>2
      <3> QED BY <2>2, <3>1, FS_EmptySet, Zenon
    <2> QED BY <2>1, <2>2
  <1> QED BY <1>1, <1>2 DEF NoAckLost

(* One owner at a time, in every behaviour of the arbiter. *)
THEOREM Inductive == ArbiterSpec => []IInv
  <1>1. IInv /\ [ArbiterNext]_avars => IInv'
    <2> SUFFICES ASSUME IInv, [ArbiterNext]_avars PROVE IInv' OBVIOUS
    <2>1. CASE ArbiterReset BY <2>1, ResetInv
    <2>2. ASSUME NEW stall \in BOOLEAN, NEW ack \in BOOLEAN, ArbiterClock(stall, ack) PROVE IInv'
      BY <2>2, ClockInv
    <2>3. CASE UNCHANGED avars
      BY <2>3, Zenon DEF avars, IInv, ArbiterTypeOK, OneOwner, StrobeHeld, Master
    <2> QED BY <2>1, <2>2, <2>3 DEF ArbiterNext
  <1> QED BY InitInv, <1>1, PTL DEF ArbiterSpec

(* wishbone_arbiter.vhdl, with early selection (at most four masters) or     *)
(* without, sends every ack to the master that is owed it and to no other,   *)
(* for every number of masters and of outstanding strobes.                   *)
THEOREM Routing == ArbiterSpec => []AcksRouted
  BY Inductive, InvRoutes, PTL
=============================================================================
