------------------------------- MODULE MCSoc -------------------------------
(* What stands around the core, one instance each: a FIFO of three entries   *)
(* (not a power of two) over two data values, long enough to wrap both       *)
(* indices past each other and to be full at every position; the arbiter     *)
(* with three masters, which selects early, and with five, which does not;   *)
(* and the interrupt controller.  mode is the one that runs.                 *)
EXTENDS SyncFifo, WishboneArbiter, Xics

VARIABLE mode
socvars == <<mode, vars, avars, xvars>>

FifoIdle == /\ memory = [i \in Index |-> 0] /\ rd_idx = 0 /\ wr_idx = 0
            /\ op_prev = "POP" /\ delivered = <<>>
ArbiterIdle == NUM_MASTERS = 1 /\ Quiet(1)

SocInit == \/ mode = "fifo" /\ Init /\ ArbiterIdle /\ XicsInit
           \/ mode = "arbiter" /\ FifoIdle /\ ArbiterInit /\ XicsInit
           \/ mode = "xics" /\ FifoIdle /\ ArbiterIdle /\ XicsInit

SocNext == \/ mode = "fifo" /\ Next /\ UNCHANGED <<mode, avars, xvars>>
           \/ mode = "arbiter" /\ ArbiterNext /\ UNCHANGED <<mode, vars, xvars>>
           \/ mode = "xics" /\ XicsNext /\ UNCHANGED <<mode, vars, avars>>

SocSpec == SocInit /\ [][SocNext]_socvars /\ Clocked /\ MastersYield
=============================================================================
