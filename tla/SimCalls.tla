------------------------------- MODULE SimCalls -------------------------------
(***************************************************************************)
(* The C functions the simulated SoC calls: the memory behind main_bram    *)
(* (sim_bram_helpers_c.c), the vectors the calls carry (sim_vhpi_c.c), and *)
(* the messages of the JTAG socket (sim_jtag_socket_c.c and the client's   *)
(* side, sim_command of mw_debug.c).                                       *)
(***************************************************************************)
EXTENDS Integers, Sequences, FiniteSets

LOCAL INSTANCE FiniteSetsExt

CONSTANTS BYTE,         \* bits of a byte of the memory
          WORD,         \* bytes of a memory word
          PAGE,         \* bytes of a page
          Files,        \* contents of RAM_INIT_FILE, sequences of bytes
          Sizes,        \* values of MEMORY_SIZE, powers of two
          Vectors,      \* words the SoC writes, sequences of BYTE * WORD logic values
          MAX_REGIONS,  \* memories
          MaxAccesses,  \* writes in a behaviour
          Messages      \* DMI messages of the socket: [op, data, addr], sequences of bits

ASSUME SimAssumption == BYTE \in Nat \ {0} /\ WORD \in Nat \ {0} /\ PAGE \in Nat \ {0} /\ MAX_REGIONS \in Nat /\ MaxAccesses \in Nat

VARIABLES regions,   \* behavioural_regions
          ref,       \* ghost: what each memory should hold, by region and word address
          acc,       \* accesses so far
          jt         \* a message of the socket and its answer
simvars == <<regions, ref, acc, jt>>

----------------------------------------------------------------------------
\* sim_vhpi_c.c: bit 1 of a vector is the most significant one; what is
\* neither 0 nor 1 counts as 0.

from_std_logic_vector(v) == MapThenSumSet(LAMBDA i : IF v[i] = "1" THEN 2 ^ (Len(v) - i) ELSE 0, DOMAIN v)

to_std_logic_vector(val, len) == [i \in 1 .. len |-> IF (val \div (2 ^ (len - i))) % 2 = 1 THEN "1" ELSE "0"]

----------------------------------------------------------------------------
\* sim_bram_helpers_c.c

ALIGN_UP(n) == PAGE * ((n + PAGE - 1) \div PAGE)

Byte(f, a) == IF a < Len(f) THEN f[a + 1] ELSE 0

\* The mapping: the file, private, and zeros up to the size asked for.
behavioural_initialize(f, size) ==
  /\ Len(regions) < MAX_REGIONS
  /\ LET mapped == Max({ALIGN_UP(size), ALIGN_UP(Len(f))})
     IN regions' = Append(regions, [size |-> ALIGN_UP(size), asked |-> size,
                                    m |-> [a \in 0 .. mapped - 1 |-> Byte(f, a)]])
  /\ ref' = Append(ref, [a \in {WORD * k : k \in 0 .. (size \div WORD) - 1} |->
                           [lane \in 0 .. WORD - 1 |-> Byte(f, a + lane)]])
  /\ UNCHANGED <<acc, jt>>

\* A byte past the size is refused; one at the size is not.
BadAccess(r, a) == a > r.size

Lanes(val) == [lane \in 0 .. WORD - 1 |-> (val \div ((2 ^ BYTE) ^ lane)) % (2 ^ BYTE)]

\* The word, unless a byte of it is refused.
behavioural_read(id, addr) ==
  LET r == regions[id]
  IN IF \E i \in 0 .. WORD - 1 : BadAccess(r, addr + i) THEN <<>>
     ELSE to_std_logic_vector(MapThenSumSet(LAMBDA i : r.m[addr + i] * ((2 ^ BYTE) ^ i), 0 .. WORD - 1), BYTE * WORD)

Selected(sel) == sel

behavioural_write(id, addr, v, sel) ==
  LET r == regions[id]
      new == Lanes(from_std_logic_vector(v))
  IN /\ acc < MaxAccesses
     /\ \A i \in Selected(sel) : ~BadAccess(r, addr + i)
     /\ regions' = [regions EXCEPT ![id].m = [a \in DOMAIN r.m |-> IF a - addr \in Selected(sel) THEN new[a - addr]
                                                                   ELSE r.m[a]]]
     /\ ref' = [ref EXCEPT ![id][addr] = [lane \in 0 .. WORD - 1 |->
                                            IF lane \in sel THEN from_std_logic_vector(
                                              SubSeq(v, BYTE * (WORD - lane - 1) + 1, BYTE * (WORD - lane)))
                                            ELSE @[lane]]]
     /\ acc' = acc + 1
     /\ UNCHANGED jt

\* The word addresses main_bram can form.
Addresses(id) == {WORD * k : k \in 0 .. (regions[id].asked \div WORD) - 1}

----------------------------------------------------------------------------
\* The socket: a buffer is the sequence of its bits, least significant first,
\* behind the byte that holds the size.

\* sim_command: add_bits three times, and whole bytes are sent.
Bytes(n) == (n + 7) \div 8
Packed(m) == m.op \o m.data \o m.addr
sim_command(m) == Packed(m) \o [k \in 1 .. 8 * Bytes(Len(Packed(m))) - Len(Packed(m)) |-> 0]

\* sim_jtag_read_msg: the bits for the scan, no more than were received.
sim_jtag_read_msg(bits, size) == SubSeq(bits, 1, Min({size, Len(bits)}))

\* variant: the bytes sent are rounded down.
WriteFloor(rsp) == SubSeq(rsp, 1, 8 * ((Len(rsp) \div 8) - 1))

\* sim_jtag_write_msg: as many bytes as the bits need are sent, the size byte
\* among them, so that the last byte of bits is not.
sim_jtag_write_msg(rsp) == SubSeq(rsp, 1, 8 * (Bytes(Len(rsp)) - 1))

\* What the client then has in its buffer, which still held the request.
Answered(req, ans) == ans \o SubSeq(sim_command(req), Len(ans) + 1, Len(sim_command(req)))
read_bits(bits, p, c) == SubSeq(bits, p + 1, p + c)

\* A command of the client, which the target answers with rsp.
Exchange(m, rsp) ==
  LET bits == Answered(m, sim_jtag_write_msg(Packed(rsp)))
  IN /\ jt.n = 0
     /\ jt' = [n |-> 1, req |-> m, rsp |-> rsp, shifted |-> sim_jtag_read_msg(sim_command(m), Len(Packed(m))),
               op |-> read_bits(bits, 0, Len(rsp.op)), data |-> read_bits(bits, Len(rsp.op), Len(rsp.data))]
     /\ UNCHANGED <<regions, ref, acc>>

----------------------------------------------------------------------------
SimInit == /\ regions = <<>> /\ ref = <<>> /\ acc = 0
           /\ jt = [n |-> 0]

RamNext ==
  \/ \E f \in Files, size \in Sizes : behavioural_initialize(f, size)
  \/ \E id \in DOMAIN regions, v \in Vectors, sel \in SUBSET (0 .. WORD - 1) :
       \E addr \in Addresses(id) : behavioural_write(id, addr, v, sel)

JtagNext == \E m, r \in Messages : Exchange(m, r)

----------------------------------------------------------------------------
\* A read returns, lane by lane, what the SoC last wrote to that memory at
\* that address, or what the file held, or zero behind its end: lanes that are
\* not selected keep their byte, and two memories over one file share nothing.
RamHolds ==
  \A id \in DOMAIN regions : \A addr \in Addresses(id) :
    LET v == behavioural_read(id, addr)
    IN /\ Len(v) = BYTE * WORD
       /\ \A lane \in 0 .. WORD - 1 :
            from_std_logic_vector(SubSeq(v, BYTE * (WORD - lane - 1) + 1, BYTE * (WORD - lane))) = ref[id][addr][lane]

\* The scan is the client's message bit by bit, and the client gets the op and
\* the data that were shifted out, though the last byte of the answer is not
\* sent and its place in the buffer still holds the request.
MessageCarried ==
  jt.n = 1 => jt.shifted = Packed(jt.req) /\ jt.op = jt.rsp.op /\ jt.data = jt.rsp.data
================================================================================
