------------------------------- MODULE Console -------------------------------
(***************************************************************************)
(* The console of a program: lib/console.c on the core, the UART of the    *)
(* simulated SoC (sim_16550_uart.vhdl or sim_pp_uart.vhdl), and the        *)
(* terminal behind it (sim_console_c.c).  One step is one clock.           *)
(***************************************************************************)
EXTENDS Integers, Sequences, FiniteSets

LOCAL INSTANCE SequencesExt

CONSTANTS Strings,      \* arguments of puts
          Typed,        \* characters the user types, in order
          Frequencies,  \* clock frequencies of the SoC
          MaxOut        \* characters a program writes at most

ASSUME ConsoleAssumption == MaxOut \in Nat

VARIABLES cpu,    \* the program inside the console library
          uart,   \* the UART's registers
          term,   \* stdin and stdout of the simulator
          sys     \* the syscon registers, fixed
cvars == <<cpu, uart, term, sys>>

CR == 13
LF == 10
Boolean01(b) == IF b THEN 1 ELSE 0

----------------------------------------------------------------------------
\* sim_console_c.c

\* poll() reports input when a character waits and when stdin is at its end.
sim_console_poll == term.stdin # <<>> \/ term.eof

\* The character read, and the terminal after it; at end of file the simulator
\* exits.  A read with nothing to read would wait.
sim_console_read == IF term.stdin = <<>> THEN [term EXCEPT !.alive = FALSE]
                    ELSE [term EXCEPT !.stdin = Tail(@)]
ReadChar == IF term.stdin = <<>> THEN 0 ELSE Head(term.stdin)

sim_console_write(c) == [term EXCEPT !.out = Append(@, c % 256)]

----------------------------------------------------------------------------
\* The 16550: one clock, with the bus idle or an access in its first phase.
\* Registers have the offsets of microwatt_soc.h divided by 4.
RXTX == 0
IER == 1
FCR == 2
LCR == 3
MCR == 4
LSR == 5

DLAB == 128
THRE == 32
TEMT == 64
DR == 1

dlab == uart.lcr >= DLAB
reg_lsr == TEMT + THRE + DR * Boolean01(uart.lsr_dr)

Read16550(r) == CASE r = RXTX -> IF dlab THEN uart.div % 256 ELSE uart.data_out
                  [] r = IER -> IF dlab THEN uart.div \div 256 ELSE uart.ier
                  [] r = LCR -> uart.lcr
                  [] r = LSR -> reg_lsr
                  [] OTHER -> 0

\* variant: a read of LSR does not poll.
PollsOnce(a) == uart.first

\* poll_cnt runs out only once, on the first clock: after that it is the read
\* of LSR that polls.
polls(a) == uart.first \/ (~a.we /\ a.reg = LSR)

\* rxtx: data waiting after this clock, given an access a.
Rxtx(a) ==
  LET wrote == a.we /\ a.reg = RXTX /\ ~dlab
      taken == ~a.we /\ a.reg = RXTX /\ ~dlab
      dp == uart.pending /\ ~taken
      reads == polls(a) /\ ~dp /\ sim_console_poll
  IN /\ term' = IF wrote THEN sim_console_write(a.dat)
                ELSE IF reads THEN sim_console_read ELSE term
     /\ uart' = [uart EXCEPT
                   !.first = FALSE,
                   !.pending = dp \/ reads,
                   !.data_out = IF reads THEN ReadChar ELSE IF taken THEN 0 ELSE @,
                   !.lsr_dr = uart.pending,
                   !.dat_o = IF a.we THEN 0 ELSE Read16550(a.reg),
                   !.lcr = IF a.we /\ a.reg = LCR THEN a.dat ELSE @,
                   !.ier = IF a.we /\ a.reg = IER /\ ~dlab THEN a.dat % 16 ELSE @,
                   !.div = IF a.we /\ a.reg = RXTX /\ dlab THEN 256 * (@ \div 256) + a.dat
                           ELSE IF a.we /\ a.reg = IER /\ dlab THEN 256 * a.dat + (@ % 256)
                           ELSE @]

NoAccess == [we |-> FALSE, reg |-> MCR, dat |-> 0]

\* The potato UART; its registers have offsets 8 apart.
PTX == 0
PRX == 1
PSTATUS == 2
PDIV == 3
PIRQ == 4

Potato(a) ==
  /\ term' = IF a.we /\ a.reg = PTX THEN sim_console_write(a.dat)
             ELSE IF ~a.we /\ a.reg = PRX THEN sim_console_read ELSE term
  /\ uart' = [uart EXCEPT
                !.dat_o = CASE a.we -> @
                            [] a.reg = PRX -> ReadChar
                            [] a.reg = PSTATUS -> 2 + (IF sim_console_poll THEN 4 ELSE 1)
                            [] a.reg = PDIV -> uart.div
                            [] a.reg = PIRQ -> uart.ier
                            [] OTHER -> 0,
                !.div = IF a.we /\ a.reg = PDIV THEN a.dat % 256 ELSE @,
                !.ier = IF a.we /\ a.reg = PIRQ THEN a.dat % 4 ELSE @]

UartIdle == IF sys.is_16550 THEN Rxtx(NoAccess) ELSE UNCHANGED <<uart, term>>
UartAccess(a) == IF sys.is_16550 THEN Rxtx(a) ELSE Potato(a)

----------------------------------------------------------------------------
\* lib/console.c

BAUDS16 == 115200 * 16
uart_divisor(freq) == freq \div BAUDS16

Wr(r, d) == [we |-> TRUE, reg |-> r, dat |-> d % 256]
Rd(r) == [we |-> FALSE, reg |-> r, dat |-> 0]

std_uart_init(freq) == <<Wr(LCR, DLAB), Wr(RXTX, uart_divisor(freq)), Wr(IER, uart_divisor(freq) \div 256),
                         Wr(LCR, 3), Wr(MCR, 3), Wr(FCR, 7)>>

potato_uart_init(freq) == <<Wr(PDIV, uart_divisor(freq) - 1)>>

\* What a terminal must be sent for the string str.
Lines(str) == FlattenSeq([i \in DOMAIN str |-> IF str[i] = LF THEN <<CR, LF>> ELSE <<str[i]>>])

\* puts sends a carriage return before each line feed.
puts(str) == LET Put[n \in 0 .. Len(str)] ==
                   IF n = 0 THEN <<>>
                   ELSE IF str[n] = LF THEN Put[n - 1] \o <<CR, LF>> ELSE Append(Put[n - 1], str[n])
             IN Put[Len(str)]

potato_uart_status == Rd(PSTATUS)
potato_uart_read == Rd(PRX)
potato_uart_write(c) == Wr(PTX, c)
potato_uart_set_irq_en(rx, tx) == Wr(PIRQ, Boolean01(rx) + 2 * Boolean01(tx))

std_uart_status == Rd(LSR)
std_uart_read == Rd(RXTX)
std_uart_write(c) == Wr(RXTX, c)
std_uart_set_irq_en(rx, tx) == Wr(IER, 2 * Boolean01(tx) + Boolean01(rx))

\* The access the library makes next.
Access ==
  CASE cpu.pc = "init" -> Head(cpu.init)
    [] cpu.pc \in {"rx_empty", "tx_full"} -> IF cpu.is_std THEN std_uart_status ELSE potato_uart_status
    [] cpu.pc = "rx" -> IF cpu.is_std THEN std_uart_read ELSE potato_uart_read
    [] cpu.pc = "tx" -> IF cpu.is_std THEN std_uart_write(Head(cpu.todo)) ELSE potato_uart_write(Head(cpu.todo))
    [] cpu.pc = "irq" -> IF cpu.is_std THEN std_uart_set_irq_en(cpu.irq[1], cpu.irq[2])
                         ELSE potato_uart_set_irq_en(cpu.irq[1], cpu.irq[2])

Bit(v, b) == (v \div b) % 2 = 1

\* What a status read says.
potato_uart_rx_empty(v) == Bit(v, 1)
potato_uart_tx_full(v) == Bit(v, 8)
std_uart_rx_empty(v) == ~Bit(v, DR)
std_uart_tx_full(v) == ~Bit(v, THRE)
rx_empty(v) == IF cpu.is_std THEN std_uart_rx_empty(v) ELSE potato_uart_rx_empty(v)
tx_full(v) == IF cpu.is_std THEN std_uart_tx_full(v) ELSE potato_uart_tx_full(v)

\* variant: getchar reads without looking first.
NoWait(v) ==
  CASE cpu.pc = "rx_empty" -> [cpu EXCEPT !.pc = "rx"]
    [] cpu.pc = "rx" -> [cpu EXCEPT !.pc = "main", !.got = Append(@, v)]
    [] cpu.pc = "tx_full" -> IF tx_full(v) THEN cpu ELSE [cpu EXCEPT !.pc = "tx"]
    [] cpu.pc = "tx" -> [cpu EXCEPT !.todo = Tail(@), !.pc = IF Len(cpu.todo) = 1 THEN "main" ELSE "tx_full"]
    [] cpu.pc = "irq" -> [cpu EXCEPT !.pc = "main"]
    [] cpu.pc = "init" -> [cpu EXCEPT !.init = Tail(@), !.pc = IF Len(cpu.init) = 1 THEN "main" ELSE "init"]

\* The library after the access, whose value is v.
After(v) ==
  CASE cpu.pc = "rx_empty" -> IF rx_empty(v) THEN cpu ELSE [cpu EXCEPT !.pc = "rx"]
    [] cpu.pc = "rx" -> [cpu EXCEPT !.pc = "main", !.got = Append(@, v)]
    [] cpu.pc = "tx_full" -> IF tx_full(v) THEN cpu ELSE [cpu EXCEPT !.pc = "tx"]
    [] cpu.pc = "tx" -> [cpu EXCEPT !.todo = Tail(@), !.pc = IF Len(cpu.todo) = 1 THEN "main" ELSE "tx_full"]
    [] cpu.pc = "irq" -> [cpu EXCEPT !.pc = "main"]
    [] cpu.pc = "init" -> [cpu EXCEPT !.init = Tail(@), !.pc = IF Len(cpu.init) = 1 THEN "main" ELSE "init"]

\* console_init: the frequency of the processor is used for the UART, and the
\* 16550 is known from a register only a large syscon has.
console_init ==
  LET uart_info == sys.large /\ sys.is_16550
  IN /\ cpu.pc = "reset"
     /\ cpu' = [cpu EXCEPT !.pc = "init", !.is_std = uart_info,
                           !.init = IF uart_info THEN std_uart_init(sys.proc_freq)
                                    ELSE potato_uart_init(sys.proc_freq)]
     /\ UartIdle /\ UNCHANGED sys

getchar ==
  /\ cpu.pc = "main"
  /\ cpu' = [cpu EXCEPT !.pc = "rx_empty"]
  /\ UartIdle /\ UNCHANGED sys

\* puts of a string, or putchar of one character.
Say(chars, wanted) ==
  /\ cpu.pc = "main" /\ chars # <<>> /\ Len(cpu.asked) + Len(wanted) <= MaxOut
  /\ cpu' = [cpu EXCEPT !.pc = "tx_full", !.todo = chars, !.asked = @ \o wanted]
  /\ UartIdle /\ UNCHANGED sys

console_set_irq_en(rx_irq, tx_irq) ==
  /\ cpu.pc = "main" /\ cpu.irq # <<rx_irq, tx_irq>>
  /\ cpu' = [cpu EXCEPT !.pc = "irq", !.irq = <<rx_irq, tx_irq>>]
  /\ UartIdle /\ UNCHANGED sys

InLibrary == cpu.pc \notin {"reset", "main"}

\* First clock of a bus access: the register is read or written.
Phase0 ==
  /\ InLibrary /\ ~cpu.phase
  /\ cpu' = [cpu EXCEPT !.phase = TRUE]
  /\ UartAccess(Access) /\ UNCHANGED sys

\* Second clock: the acknowledge, with the data.
Phase1 ==
  /\ InLibrary /\ cpu.phase
  /\ cpu' = [After(uart.dat_o) EXCEPT !.phase = FALSE]
  /\ UartIdle /\ UNCHANGED sys

\* A clock in which the program does something else.
Elsewhere ==
  /\ ~cpu.phase
  /\ UartIdle /\ UNCHANGED <<cpu, sys>>

\* The user.
Type ==
  /\ term.n < Len(Typed) /\ ~term.eof
  /\ term' = [term EXCEPT !.stdin = Append(@, Typed[term.n + 1]), !.n = @ + 1]
  /\ UNCHANGED <<cpu, uart, sys>>

CloseStdin ==
  /\ ~term.eof
  /\ term' = [term EXCEPT !.eof = TRUE]
  /\ UNCHANGED <<cpu, uart, sys>>

ConsoleStart ==
  /\ cpu = [pc |-> "reset", phase |-> FALSE, init |-> <<>>, is_std |-> FALSE, todo |-> <<>>, got |-> <<>>,
            asked |-> <<>>, irq |-> <<FALSE, FALSE>>]
  /\ uart = [first |-> TRUE, pending |-> FALSE, data_out |-> 0, lsr_dr |-> FALSE, dat_o |-> 0, lcr |-> 3,
             ier |-> 0, div |-> 0]
  /\ term = [stdin |-> <<>>, out |-> <<>>, n |-> 0, eof |-> FALSE, alive |-> TRUE]

ConsoleInit ==
  /\ ConsoleStart
  /\ sys \in [proc_freq : Frequencies, large : BOOLEAN, is_16550 : BOOLEAN]
  /\ sys.is_16550 => sys.large

Program == \/ console_init \/ getchar \/ Phase0 \/ Phase1
           \/ \E s \in Strings : Say(puts(s), Lines(s))
           \/ \E s \in Strings : Say(<<s[1]>>, <<s[1]>>)
           \/ \E r, t \in BOOLEAN : console_set_irq_en(r, t)

ConsoleNext == /\ term.alive
               /\ Program \/ Elsewhere \/ Type \/ CloseStdin

ConsoleStep == term.alive /\ (console_init \/ Phase0 \/ Phase1)

----------------------------------------------------------------------------
\* The registers keep their widths, and a program that waits to send has a
\* character to send: the loop of puts ends with its string.
ConsoleTypeOK ==
  /\ uart.div \in 0 .. 65535 /\ uart.lcr \in 0 .. 255 /\ uart.ier \in 0 .. 15
  /\ uart.dat_o \in 0 .. 255 /\ uart.data_out \in 0 .. 255
  /\ (cpu.pc \in {"tx_full", "tx"}) = (cpu.todo # <<>>)

\* Every character typed is, in order, either returned by getchar, or on the
\* bus, or held by the UART, or still in stdin: the status bit that lags the
\* receive register by a clock loses none and returns none twice.
InputInOrder ==
  LET held == IF uart.pending THEN <<uart.data_out>> ELSE <<>>
      onbus == IF cpu.pc = "rx" /\ cpu.phase THEN <<uart.dat_o>> ELSE <<>>
  IN term.alive => cpu.got \o onbus \o held \o term.stdin = SubSeq(Typed, 1, term.n)

\* What the terminal has been sent, followed by what putchar and puts still
\* have to send, is what the program asked for, line feeds expanded: no
\* character goes into another register of the UART.
OutputInOrder ==
  term.out \o (IF cpu.pc = "tx" /\ cpu.phase THEN Tail(cpu.todo) ELSE cpu.todo) = cpu.asked

\* Once console_init is done the divisor is the one for the clock frequency,
\* and nothing the library writes later (characters and the interrupt enables
\* share the divisor's addresses) changes it.
DivisorKept ==
  cpu.pc \notin {"reset", "init"} =>
    IF sys.is_16550 THEN ~dlab /\ uart.div = sys.proc_freq \div (115200 * 16)
    ELSE uart.div = (sys.proc_freq \div (115200 * 16)) - 1

\* Characters go both ways in order, none lost, repeated or written into the
\* divisor, whose addresses they share.
ConsoleFaithful == InputInOrder /\ OutputInOrder /\ DivisorKept

\* A getchar that waits while a character has been typed that it has not
\* returned comes back, or the simulator has ended on end of file.
GetcharReturns == (cpu.pc = "rx_empty" /\ term.n > Len(cpu.got)) ~> (cpu.pc = "main" \/ ~term.alive)
==============================================================================
