---------------------------- MODULE BoundedQueue ----------------------------
(* What a synchronous FIFO promises: a queue of at most Depth words, from    *)
(* which the oldest word leaves first.  In one clock cycle a word may enter, *)
(* a word may leave, or both; a word entering an empty queue may leave in    *)
(* the same cycle.                                                           *)
EXTENDS Naturals, Sequences

CONSTANTS Depth, Data

VARIABLES queue,      \* the words held, oldest first
          delivered   \* the word that left in the last cycle, <<>> if none did

Init == queue = <<>> /\ delivered = <<>>

Clear == queue' = <<>> /\ delivered' = <<>>

Idle == queue' = queue /\ delivered' = <<>>

Put(d) == /\ Len(queue) < Depth
          /\ queue' = Append(queue, d)
          /\ delivered' = <<>>

Get == /\ queue # <<>>
       /\ delivered' = <<Head(queue)>>
       /\ queue' = Tail(queue)

PutGet(d) == /\ delivered' = <<Head(Append(queue, d))>>
             /\ queue' = Tail(Append(queue, d))

Next == \/ Clear
        \/ Idle
        \/ Get
        \/ \E d \in Data : Put(d) \/ PutGet(d)

Spec == Init /\ [][Next]_<<queue, delivered>>
=============================================================================
