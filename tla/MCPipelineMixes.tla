-------------------------- MODULE MCPipelineMixes --------------------------
(* Two mixes of instructions in one state space: the units that meet in      *)
(* writeback, with interrupts at any time; and FP instructions that trap     *)
(* among the multi-cycle operations of execute1.                             *)
EXTENDS MCPipeline

VARIABLE mode

AllKinds == Units \cup FpTraps

Mix == [units |-> [kinds |-> Units, irqs |-> BOOLEAN],
        traps |-> [kinds |-> FpTraps, irqs |-> {FALSE}]]

MixStep(kinds, irqs) ==
    \E irq \in IrqChoices \cap irqs, wake \in WakeChoices \cap irqs :
        LET u == Signals(irq, wake)
        IN \E k \in {"none"} \cup (Offers(u) \cap kinds), act \in FP!Acts,
              outcome \in LS!Outcomes, finish \in LS!SlowEnds, mchoice \in LS!MmuChoices :
              /\ Clock(u, k, act, outcome, finish, mchoice)
              /\ e_in'.k \in kinds \cup {"exc"}

MixInit == Init /\ mode \in DOMAIN Mix
MixNext == /\ Reset \/ MixStep(Mix[mode].kinds, Mix[mode].irqs)
           /\ UNCHANGED mode
MixSpec == MixInit /\ [][MixNext]_<<vars, mode>>
=============================================================================
