--------------------------- MODULE SyncFifoProofs ---------------------------
(* sync_fifo.vhdl implements a bounded queue, for every DEPTH >= 1 and every *)
(* set of data words.                                                        *)
EXTENDS SyncFifo, TLAPS

USE DepthAssumption

(* The indices stay inside the memory and rd_data is always a data word.     *)
THEOREM TypeCorrect == Spec => []TypeOK
<1>1. Init => TypeOK
  BY DEF Init, TypeOK, Index
<1>2. TypeOK /\ [Next]_vars => TypeOK'
  <2> SUFFICES ASSUME TypeOK, [Next]_vars PROVE TypeOK'
    OBVIOUS
  <2>1. CASE Reset
    BY <2>1 DEF TypeOK, Reset, Index
  <2>2. ASSUME NEW wr_valid \in BOOLEAN, NEW rd_ready \in BOOLEAN, NEW wr_data \in Data,
               Clock(wr_valid, wr_data, rd_ready)
        PROVE  TypeOK'
    <3>1. rd_idx' \in Index /\ wr_idx' \in Index
      BY <2>2 DEF TypeOK, Clock, Index, next_index
    <3>2. memory' \in [Index -> Data]
      BY <2>2 DEF TypeOK, Clock
    <3>3. op_prev' \in {"PUSH", "POP"}
      BY <2>2 DEF TypeOK, Clock, op_next
    <3>4. rd_data(wr_data) \in Data
      BY DEF TypeOK, rd_data
    <3>5. delivered' = <<>> \/ \E d \in Data : delivered' = <<d>>
      BY <2>2, <3>4 DEF Clock
    <3> QED BY <3>1, <3>2, <3>3, <3>5 DEF TypeOK
  <2>3. CASE UNCHANGED vars
    BY <2>3 DEF TypeOK, vars
  <2> QED BY <2>1, <2>2, <2>3 DEF Next
<1> QED BY <1>1, <1>2, PTL DEF Spec

-----------------------------------------------------------------------------

(* The number of words held stays between zero and DEPTH.                    *)
LEMMA CountBounds ==
    TypeOK => /\ Count \in 0 .. Depth
              /\ Count = 0 <=> empty
              /\ Count = Depth <=> full
BY DEF TypeOK, Count, empty, full, Index

(* A slot is an index of the memory. *)
LEMMA SlotInRange ==
    ASSUME TypeOK, NEW i \in 0 .. Depth - 1
    PROVE  Slot(i) \in Index
BY DEF TypeOK, Slot, Index

(* The slots of the words held are distinct from the one written next.       *)
LEMMA SlotOfWrite ==
    ASSUME TypeOK, NEW i \in 0 .. Count - 1, ~full
    PROVE  Slot(i) # wr_idx
BY DEF TypeOK, Slot, Count, full, Index

(* The next word is written to the slot behind the last one. *)
LEMMA WriteSlot ==
    ASSUME TypeOK, ~full
    PROVE  Slot(Count) = wr_idx
BY DEF TypeOK, Slot, Count, full, Index

(* A write in the cycle of a pop hits no word behind the head. *)
LEMMA SlotBehindHead ==
    ASSUME TypeOK, NEW i \in 1 .. Count - 1
    PROVE  Slot(i) # wr_idx
BY DEF TypeOK, Slot, Count, full, Index

(* When a word enters as another leaves, it lands behind all that stay.      *)
LEMMA PushPopSlot ==
    ASSUME TypeOK, ~empty, rd_idx' = next_index(rd_idx), NEW n \in Nat, n = Count - 1
    PROVE  Slot(n)' = wr_idx
BY DEF TypeOK, Slot, Count, empty, full, next_index, Index

(* The words the mapping reads off the memory. *)
LEMMA ContentsType ==
    TypeOK => /\ Contents \in Seq(Data)
              /\ Len(Contents) = Count
              /\ \A i \in 1 .. Count : Contents[i] = memory[Slot(i - 1)]
<1> HAVE TypeOK
<1>1. Count \in Nat /\ Count <= Depth
  BY CountBounds
<1>2. ASSUME NEW i \in 1 .. Count PROVE memory[Slot(i - 1)] \in Data
  BY <1>1, <1>2, SlotInRange DEF TypeOK
<1> QED BY <1>1, <1>2 DEF Contents

(* Sequences with the same elements are equal. *)
LEMMA SameSequence ==
    ASSUME NEW s \in Seq(Data), NEW t \in Seq(Data), Len(s) = Len(t),
           \A i \in 1 .. Len(s) : s[i] = t[i]
    PROVE  s = t
OBVIOUS

(* Under every combination of push and pop, Count and the slots of the words *)
(* that stay move the way a queue does.                                      *)
LEMMA CountStep ==
    ASSUME TypeOK, TypeOK',
           NEW wr_valid \in BOOLEAN, NEW rd_ready \in BOOLEAN, NEW wr_data \in Data,
           Clock(wr_valid, wr_data, rd_ready),
           NEW push \in BOOLEAN, push = (wr_ready(rd_ready) /\ wr_valid),
           NEW pop \in BOOLEAN, pop = (rd_ready /\ rd_valid(wr_valid))
    PROVE  /\ Count' = Count + (IF push THEN 1 ELSE 0) - (IF pop THEN 1 ELSE 0)
           /\ push => ~full \/ pop
           /\ pop => ~empty \/ push
           /\ push /\ ~pop => ~full
           /\ memory' = IF push THEN [memory EXCEPT ![wr_idx] = wr_data] ELSE memory
           /\ delivered' = IF pop THEN <<rd_data(wr_data)>> ELSE <<>>
           /\ \A i \in 0 .. Depth - 2 : pop => Slot(i)' = Slot(i + 1)
           /\ ~pop => \A i \in 0 .. Depth - 1 : Slot(i)' = Slot(i)
<1>1. CASE push /\ pop
  BY <1>1 DEF TypeOK, Clock, Count, Slot, empty, full, wr_ready, rd_valid, op_next, next_index, Index
<1>2. CASE push /\ ~pop
  BY <1>2 DEF TypeOK, Clock, Count, Slot, empty, full, wr_ready, rd_valid, op_next, next_index, Index
<1>3. CASE ~push /\ pop
  BY <1>3 DEF TypeOK, Clock, Count, Slot, empty, full, wr_ready, rd_valid, op_next, next_index, Index
<1>4. CASE ~push /\ ~pop
  BY <1>4 DEF TypeOK, Clock, Count, Slot, empty, full, wr_ready, rd_valid, op_next, next_index, Index
<1> QED BY <1>1, <1>2, <1>3, <1>4

(* A clock edge is a step of the queue. *)
LEMMA ClockImplementsQueue ==
    ASSUME TypeOK, TypeOK',
           NEW wr_valid \in BOOLEAN, NEW rd_ready \in BOOLEAN, NEW wr_data \in Data,
           Clock(wr_valid, wr_data, rd_ready)
    PROVE  Queue!Next
<1> DEFINE push == wr_ready(rd_ready) /\ wr_valid
           pop  == rd_ready /\ rd_valid(wr_valid)
<1>0. push \in BOOLEAN /\ pop \in BOOLEAN
  BY DEF wr_ready, rd_valid
<1>1. /\ Count' = Count + (IF push THEN 1 ELSE 0) - (IF pop THEN 1 ELSE 0)
      /\ pop => ~empty \/ push
      /\ push /\ ~pop => ~full
      /\ memory' = IF push THEN [memory EXCEPT ![wr_idx] = wr_data] ELSE memory
      /\ delivered' = IF pop THEN <<rd_data(wr_data)>> ELSE <<>>
      /\ \A i \in 0 .. Depth - 2 : pop => Slot(i)' = Slot(i + 1)
      /\ ~pop => \A i \in 0 .. Depth - 1 : Slot(i)' = Slot(i)
  BY ZenonT(40), <1>0, CountStep
<1> HIDE DEF push, pop
<1>2. /\ Count \in 0 .. Depth
      /\ Count = 0 <=> empty
      /\ Count = Depth <=> full
  BY CountBounds
<1>2a. (/\ Count \in 0 .. Depth
        /\ Count = 0 <=> empty
        /\ Count = Depth <=> full)'
  BY CountBounds, PTL
<1>3. /\ Contents \in Seq(Data) /\ Len(Contents) = Count
      /\ \A i \in 1 .. Count : Contents[i] = memory[Slot(i - 1)]
  BY ContentsType
<1>4. (/\ Contents \in Seq(Data)
       /\ Len(Contents) = Count
       /\ \A i \in 1 .. Count : Contents[i] = memory[Slot(i - 1)])'
  BY ContentsType, PTL
<1>5. CASE ~push /\ ~pop
  <2>1. \A i \in 1 .. Count : Contents'[i] = Contents[i]
    BY <1>1, <1>2, <1>3, <1>4, <1>5
  <2>2. Contents' = Contents
    BY <1>1, <1>2, <1>3, <1>4, <1>5, <2>1, SameSequence
  <2> QED BY <1>1, <1>5, <2>2 DEF Queue!Next, Queue!Idle
<1>6. CASE push /\ ~pop
  <2>1. Contents' = Append(Contents, wr_data)
    <3>1. ASSUME NEW i \in 1 .. Count + 1 PROVE Contents'[i] = Append(Contents, wr_data)[i]
      <4>1. CASE i = Count + 1
        BY <1>1, <1>2, <1>3, <1>4, <1>6, <4>1, WriteSlot DEF TypeOK
      <4>2. CASE i \in 1 .. Count
        BY <1>1, <1>2, <1>3, <1>4, <1>6, <4>2, SlotOfWrite DEF TypeOK
      <4>3. i = Count + 1 \/ i \in 1 .. Count
        BY <1>2
      <4> QED BY Zenon, <4>1, <4>2, <4>3
    <3> QED BY <1>1, <1>2, <1>3, <1>4, <1>6, <3>1, SameSequence
  <2> QED BY <1>1, <1>2, <1>3, <1>6, <2>1 DEF Queue!Next, Queue!Put
<1>7. CASE ~push /\ pop
  <2>1. Contents' = Tail(Contents)
    <3>1. ASSUME NEW i \in 1 .. Count - 1 PROVE Contents'[i] = Contents[i + 1]
      <4>1. i - 1 \in 0 .. Depth - 2 /\ i \in 1 .. Count' /\ i + 1 \in 1 .. Count
        BY <1>1, <1>2, <1>7
      <4>2. Contents'[i] = memory'[Slot(i - 1)']
        BY <1>4, <4>1
      <4>3. Slot(i - 1)' = Slot(i)
        <5>1. Slot(i - 1)' = Slot((i - 1) + 1)
          BY <1>1, <1>7, <4>1
        <5> QED BY <1>2, <5>1
      <4>4. Contents[i + 1] = memory[Slot(i)]
        <5>1. Contents[i + 1] = memory[Slot((i + 1) - 1)]
          BY <1>3, <4>1
        <5> QED BY <1>2, <5>1
      <4> QED BY <1>1, <1>7, <4>2, <4>3, <4>4
    <3> QED BY SMTT(40), <1>1, <1>2, <1>3, <1>4, <1>7, <3>1, SameSequence
  <2>2. Head(Contents) = rd_data(wr_data)
    BY <1>1, <1>2, <1>3, <1>7 DEF rd_data, Slot, TypeOK, Index
  <2> QED BY <1>1, <1>2, <1>3, <1>7, <2>1, <2>2 DEF Queue!Next, Queue!Get
<1>8. CASE push /\ pop
  <2>1. CASE empty
    BY <1>1, <1>2, <1>3, <1>4, <1>8, <2>1 DEF Queue!Next, Queue!PutGet, rd_data
  <2>2. CASE ~empty
    <3>1. Contents' = Tail(Append(Contents, wr_data))
      <4>1. ASSUME NEW i \in 1 .. Count PROVE Contents'[i] = Append(Contents, wr_data)[i + 1]
        <5>1. Contents'[i] = memory'[Slot(i - 1)']
          BY <1>1, <1>2, <1>4, <1>8
        <5>2. CASE i = Count
          <6>1. rd_idx' = next_index(rd_idx)
            BY <1>8 DEF Clock, push, pop
          <6>2. Slot(i - 1)' = wr_idx
            BY <1>2, <2>2, <5>2, <6>1, PushPopSlot
          <6> QED BY <1>1, <1>2, <1>3, <1>8, <5>1, <5>2, <6>2 DEF TypeOK
        <5>3. CASE i \in 1 .. Count - 1
          <6>1. i - 1 \in 0 .. Depth - 2 /\ i + 1 \in 1 .. Count
            BY <1>2, <5>3
          <6>2. Slot(i - 1)' = Slot((i - 1) + 1)
            BY <1>1, <1>8, <6>1
          <6>3. Slot(i - 1)' = Slot(i)
            BY <1>2, <6>2
          <6>4. memory'[Slot(i)] = memory[Slot(i)]
            BY <1>1, <1>8, <5>3, SlotBehindHead DEF TypeOK
          <6>5. Contents[i + 1] = memory[Slot((i + 1) - 1)]
            BY <1>3, <6>1
          <6>6. Contents[i + 1] = memory[Slot(i)]
            BY <1>2, <6>5
          <6>7. Append(Contents, wr_data)[i + 1] = Contents[i + 1]
            BY <1>2, <1>3, <6>1
          <6> QED BY <5>1, <6>3, <6>4, <6>6, <6>7
        <5>4. i = Count \/ i \in 1 .. Count - 1
          BY <1>2
        <5> QED BY Zenon, <5>2, <5>3, <5>4
      <4> QED BY <1>1, <1>2, <1>3, <1>4, <1>8, <4>1, SameSequence
    <3>2. Head(Append(Contents, wr_data)) = rd_data(wr_data)
      BY <1>1, <1>2, <1>3, <2>2 DEF rd_data, Slot, TypeOK, Index
    <3> QED BY Zenon, <1>1, <1>3, <1>8, <3>1, <3>2 DEF Queue!Next, Queue!PutGet
  <2> QED BY <2>1, <2>2
<1> QED BY <1>0, <1>5, <1>6, <1>7, <1>8

(* The refinement: every behaviour of the FIFO's registers is a behaviour of *)
(* the bounded queue under the mapping Contents (sync_fifo.vhdl 94-161).     *)
THEOREM Refinement == Spec => IsBoundedQueue
<1>1. Init => Queue!Init
  BY DEF Init, Queue!Init, Contents, Count, full
<1>2. TypeOK /\ TypeOK' /\ [Next]_vars => [Queue!Next]_<<Contents, delivered>>
  <2> SUFFICES ASSUME TypeOK, TypeOK', [Next]_vars
               PROVE  Queue!Next \/ UNCHANGED <<Contents, delivered>>
    OBVIOUS
  <2>1. CASE Reset
    <3>1. Contents' = <<>>
      BY <2>1 DEF Reset, Contents, Count, full
    <3> QED BY <2>1, <3>1 DEF Reset, Queue!Next, Queue!Clear
  <2>2. ASSUME NEW wr_valid \in BOOLEAN, NEW rd_ready \in BOOLEAN, NEW wr_data \in Data,
               Clock(wr_valid, wr_data, rd_ready)
        PROVE  Queue!Next
    BY <2>2, ClockImplementsQueue
  <2>3. CASE UNCHANGED vars
    BY <2>3 DEF vars, Contents, Count, full, Slot
  <2> QED BY <2>1, <2>2, <2>3 DEF Next
<1> QED BY <1>1, <1>2, TypeCorrect, PTL DEF Spec, IsBoundedQueue, Queue!Spec
=============================================================================
