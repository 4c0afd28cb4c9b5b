----------------------------- MODULE VerilatorUart ----------------------------
(***************************************************************************)
(* The serial line of the Verilator simulation: uart-verilator.c, called   *)
(* on every clock by microwatt-verilator.cpp.  uart_tx decodes the line    *)
(* the SoC's UART drives; uart_rx drives the line the UART listens to.     *)
(* The UART itself is external: it sends and samples bits of SOC_BIT       *)
(* clocks.                                                                 *)
(***************************************************************************)
EXTENDS Integers, Sequences

LOCAL INSTANCE SequencesExt

CONSTANTS BITWIDTH,     \* clocks of a bit, as uart-verilator.c rounds it
          SOC_BIT,      \* clocks of a bit, as the UART of the SoC divides
          RX_INTERVAL,  \* clocks between two looks at stdin
          Sends,        \* sequences of bytes the SoC sends
          Gaps,         \* idle clocks between two bytes
          Keys          \* sequences of bytes typed

ASSUME LineAssumption == BITWIDTH \in Nat \ {0} /\ SOC_BIT \in Nat \ {0} /\ RX_INTERVAL \in Nat

VARIABLES tx,      \* uart_tx: tx_state, tx_countbits, tx_bits, tx_byte, tx_prev
          rx,      \* uart_rx: rx_state, rx_countbits, rx_bit, rx_char, rx, rx_sometimes
          soc,     \* the UART of the SoC: what it sends, what it has received
          tty      \* stdin and stdout
lvars == <<tx, rx, soc, tty>>

\* Bit k of byte b.
BitOf(b, k) == (b \div (2 ^ k)) % 2

----------------------------------------------------------------------------
\* uart_tx

\* A transition is an error unless it is within a twentieth of a bit of the
\* start or the end of a bit.
is_error(count) == 20 * count <= 19 * BITWIDTH /\ 20 * count >= BITWIDTH

Error(t) == [t EXCEPT !.count = 2 * BITWIDTH, !.state = "ERROR"]

\* Each state, given the decoder with its count taken down, and the line.
START_BIT(t, line) ==
  IF line = 1 /\ is_error(t.count) THEN Error(t)
  ELSE IF t.count = 0 THEN [t EXCEPT !.state = "BITS", !.count = BITWIDTH] ELSE t

\* variant: the bit is sampled at its end.
SampleLate(t, line) ==
  IF t.count = 0 THEN [t EXCEPT !.byte = @ + line * (2 ^ t.bits), !.bits = @ + 1] ELSE t

Sample(t, line) ==
  IF t.count = BITWIDTH \div 2 THEN [t EXCEPT !.byte = @ + line * (2 ^ t.bits), !.bits = @ + 1] ELSE t

BITS(t, line) ==
  LET s == Sample(t, line)
  IN IF line # s.prev /\ is_error(s.count) THEN Error(s)
     ELSE IF s.count = 0 THEN [s EXCEPT !.state = IF s.bits = 8 THEN "STOP_BIT" ELSE "BITS",
                                        !.count = BITWIDTH]
     ELSE s

STOP_BIT(t, line) ==
  IF line = 0 /\ is_error(t.count) THEN Error(t)
  ELSE IF line = 0 \/ t.count = 0 THEN [t EXCEPT !.state = "IDLE"] ELSE t

\* The byte is written when the next start bit comes early, and when the count
\* is zero.
Written(t, line) ==
  IF t.state # "STOP_BIT" \/ (line = 0 /\ is_error(t.count)) THEN <<>>
  ELSE (IF line = 0 THEN <<t.byte>> ELSE <<>>) \o (IF t.count = 0 THEN <<t.byte>> ELSE <<>>)

uart_tx(line) ==
  LET t == [tx EXCEPT !.count = IF tx.state = "IDLE" THEN @ ELSE @ - 1]
      new == CASE t.state = "IDLE" -> IF line = 0 THEN [t EXCEPT !.state = "START_BIT", !.count = BITWIDTH,
                                                                 !.bits = 0, !.byte = 0] ELSE t
               [] t.state = "START_BIT" -> START_BIT(t, line)
               [] t.state = "BITS" -> BITS(t, line)
               [] t.state = "STOP_BIT" -> STOP_BIT(t, line)
               [] t.state = "ERROR" -> IF t.count = 0 THEN [t EXCEPT !.state = "IDLE"] ELSE t
  IN tx' = [new EXCEPT !.prev = line]

\* What uart_tx writes to stdout on this clock.
TxWrites(line) == Written([tx EXCEPT !.count = @ - 1], line)

----------------------------------------------------------------------------
\* uart_rx: the same states, driving the line.  nonblocking_read looks at
\* stdin when the line has been idle for RX_INTERVAL clocks.

Looks == rx.state = "IDLE" /\ rx.sometimes >= RX_INTERVAL
nonblocking_read == Looks /\ tty.keys # <<>>
\* At the end of stdin the simulator exits.
ReadFails == Looks /\ tty.keys = <<>> /\ tty.eof

LastBit == rx.bit = 7

uart_rx ==
  rx' = CASE rx.state = "IDLE" ->
               IF nonblocking_read
               THEN [state |-> "START_BIT", char |-> Head(tty.keys), count |-> BITWIDTH, bit |-> 0,
                     line |-> 0, sometimes |-> 0]
               ELSE [rx EXCEPT !.sometimes = IF Looks THEN 0 ELSE @ + 1]
          [] rx.count > 1 -> [rx EXCEPT !.count = @ - 1]
          [] rx.state = "START_BIT" -> [rx EXCEPT !.state = "BITS", !.count = BITWIDTH,
                                                  !.line = BitOf(rx.char, 0)]
          [] rx.state = "BITS" -> [rx EXCEPT !.bit = @ + 1, !.count = BITWIDTH,
                                             !.state = IF LastBit THEN "STOP_BIT" ELSE "BITS",
                                             !.line = IF LastBit THEN 1 ELSE BitOf(rx.char, rx.bit + 1)]
          [] rx.state = "STOP_BIT" -> [rx EXCEPT !.count = 0, !.state = "IDLE"]

----------------------------------------------------------------------------
\* The UART of the SoC (external): a frame is a start bit, eight data bits and
\* a stop bit; pos is the clock within the frame, negative in a gap.

Txd == LET k == soc.pos \div SOC_BIT
       IN CASE soc.sends = <<>> \/ soc.pos < 0 \/ k = 9 -> 1
            [] k = 0 -> 0
            [] OTHER -> BitOf(Head(soc.sends), k - 1)

\* It samples the middle of each bit, counted from the falling edge.
Sampling(t) == t % SOC_BIT = SOC_BIT \div 2

SocClock ==
  \E gap \in IF soc.pos = 10 * SOC_BIT - 1 THEN Gaps ELSE {0} :
    soc' = [sends |-> IF soc.pos = 10 * SOC_BIT - 1 THEN Tail(soc.sends) ELSE soc.sends,
            pos |-> IF soc.pos = 10 * SOC_BIT - 1 THEN 0 - gap
                    ELSE IF soc.pos < 0 \/ soc.sends # <<>> THEN soc.pos + 1 ELSE soc.pos,
            all |-> soc.all,
            t |-> IF soc.t = 0 THEN 1 - rx.line
                  ELSE IF soc.t = 9 * SOC_BIT + (SOC_BIT \div 2) THEN 0 ELSE soc.t + 1,
            byte |-> IF soc.t = 0 THEN 0
                     ELSE IF Sampling(soc.t) /\ soc.t \div SOC_BIT \in 1 .. 8
                     THEN soc.byte + rx.line * (2 ^ ((soc.t \div SOC_BIT) - 1)) ELSE soc.byte,
            got |-> IF soc.t = 9 * SOC_BIT + (SOC_BIT \div 2)
                    THEN Append(soc.got, IF rx.line = 1 THEN soc.byte ELSE -1) ELSE soc.got]

\* One turn of the loop of microwatt-verilator.cpp.
Tick ==
  /\ tty.alive
  /\ SocClock
  /\ uart_tx(Txd)
  /\ uart_rx
  /\ tty' = [keys |-> IF nonblocking_read THEN Tail(tty.keys) ELSE tty.keys,
             typed |-> tty.typed, eof |-> tty.eof, alive |-> ~ReadFails,
             out |-> tty.out \o TxWrites(Txd)]

LineStart(sends, keys, gap, eof) ==
  /\ tx = [state |-> "IDLE", count |-> 0, bits |-> 0, byte |-> 0, prev |-> 0]
  /\ rx = [state |-> "IDLE", char |-> 0, count |-> 0, bit |-> 0, line |-> 1, sometimes |-> 0]
  /\ soc = [sends |-> sends, all |-> sends, pos |-> 0 - gap, t |-> 0, byte |-> 0, got |-> <<>>]
  /\ tty = [keys |-> keys, typed |-> keys, out |-> <<>>, eof |-> eof, alive |-> TRUE]

LineInit == \E s \in Sends, k \in Keys, gap \in Gaps \ {0}, eof \in BOOLEAN : LineStart(s, k, gap, eof)

----------------------------------------------------------------------------
\* The counters stay in range: no unsigned counter is taken below zero.
LineTypeOK ==
  /\ tx.count \in 0 .. 2 * BITWIDTH /\ tx.bits \in 0 .. 8 /\ tx.byte \in 0 .. 255
  /\ rx.count \in 0 .. BITWIDTH /\ rx.bit \in 0 .. 8 /\ rx.sometimes \in 0 .. RX_INTERVAL

\* Every byte the SoC sends is written to stdout once, in order, and no later
\* than the next byte is through, although the decoder's bits are longer than
\* the sender's and frames follow each other without a gap.
EveryByteOnce ==
  /\ IsPrefix(tty.out, soc.all)
  /\ Len(soc.all) - Len(soc.sends) <= Len(tty.out) + 1
  /\ soc.sends = <<>> /\ tx.state = "IDLE" => tty.out = soc.all

\* Every key is received once and in order by a UART that samples with its own
\* bit length, none with a bad stop bit.
EveryKeyOnce ==
  /\ IsPrefix(soc.got, tty.typed)
  /\ tty.keys = <<>> /\ rx.state = "IDLE" /\ soc.t = 0 => soc.got = tty.typed

\* Both directions of the serial line carry every character once.
LineFaithful == EveryByteOnce /\ EveryKeyOnce
==============================================================================
