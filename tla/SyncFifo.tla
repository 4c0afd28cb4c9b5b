------------------------------ MODULE SyncFifo ------------------------------
(* sync_fifo.vhdl: a synchronous FIFO with a fall-through read port.  One    *)
(* step of Next is one rising edge of clk; wr_valid, wr_data and rd_ready    *)
(* are the inputs of that cycle.                                             *)
EXTENDS Naturals, Sequences

CONSTANTS Depth,    \* generic DEPTH, entries
          Data      \* values of data_t

ASSUME DepthAssumption == Depth \in Nat \ {0}

VARIABLES memory, rd_idx, wr_idx, op_prev,
          delivered   \* the word rd_data gave in the last cycle with pop = '1'

vars == <<memory, rd_idx, wr_idx, op_prev, delivered>>

Index == 0 .. Depth - 1

next_index(idx) == IF idx + 1 = Depth THEN 0 ELSE idx + 1

empty == rd_idx = wr_idx /\ op_prev = "POP"
full  == rd_idx = wr_idx /\ op_prev = "PUSH"

wr_ready(rd_ready) == rd_ready \/ ~full
rd_valid(wr_valid) == wr_valid \/ ~empty

\* variant: a cycle with both a push and a pop counts as a push
OpNextIgnoresBoth(push, pop) == IF push THEN "PUSH" ELSE IF pop THEN "POP" ELSE op_prev

op_next(push, pop) == IF push = pop THEN op_prev ELSE IF push THEN "PUSH" ELSE "POP"

rd_data(wr_data) == IF empty THEN wr_data ELSE memory[rd_idx]

Init ==
    /\ memory \in [Index -> Data]
    /\ rd_idx = 0
    /\ wr_idx = 0
    /\ op_prev = "POP"
    /\ delivered = <<>>

(* The clocked processes reader, producer and op, with reset = '1'. *)
Reset ==
    /\ rd_idx' = 0
    /\ wr_idx' = 0
    /\ op_prev' = "POP"
    /\ delivered' = <<>>
    /\ UNCHANGED memory

(* The same processes with reset = '0'.  A word that is pushed and popped in *)
(* the same cycle while the FIFO is empty falls through to the reader.       *)
Clock(wr_valid, wr_data, rd_ready) ==
    LET push == wr_ready(rd_ready) /\ wr_valid
        pop  == rd_ready /\ rd_valid(wr_valid)
    IN /\ rd_idx' = IF pop THEN next_index(rd_idx) ELSE rd_idx
       /\ wr_idx' = IF push THEN next_index(wr_idx) ELSE wr_idx
       /\ memory' = IF push THEN [memory EXCEPT ![wr_idx] = wr_data] ELSE memory
       /\ op_prev' = op_next(push, pop)
       /\ delivered' = IF pop THEN <<rd_data(wr_data)>> ELSE <<>>

Next == \/ Reset
        \/ \E wr_valid, rd_ready \in BOOLEAN, wr_data \in Data :
               Clock(wr_valid, wr_data, rd_ready)

Spec == Init /\ [][Next]_vars

-----------------------------------------------------------------------------

TypeOK ==
    /\ memory \in [Index -> Data]
    /\ rd_idx \in Index
    /\ wr_idx \in Index
    /\ op_prev \in {"PUSH", "POP"}
    /\ delivered = <<>> \/ \E d \in Data : delivered = <<d>>

(* The refinement mapping: the words between rd_idx and wr_idx, wrapping at  *)
(* the end of the memory; equal indices are disambiguated by op_prev.        *)
Count == IF full THEN Depth
         ELSE IF wr_idx >= rd_idx THEN wr_idx - rd_idx
         ELSE wr_idx + Depth - rd_idx

Slot(i) == IF rd_idx + i < Depth THEN rd_idx + i ELSE rd_idx + i - Depth

Contents == [i \in 1 .. Count |-> memory[Slot(i - 1)]]

Queue == INSTANCE BoundedQueue WITH queue <- Contents

(* The FIFO is a queue of Depth entries: whatever the reader and the writer  *)
(* do, no word is lost, duplicated or overtaken, none is overwritten while   *)
(* it waits, and a full FIFO still accepts a word when one leaves            *)
(* (sync_fifo.vhdl 96-121: empty, full, wr_ready, rd_valid and rd_data are   *)
(* all derived from two indices and the direction of the last operation).    *)
IsBoundedQueue == Queue!Spec
=============================================================================
