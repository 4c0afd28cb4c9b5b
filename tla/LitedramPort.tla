----------------------------- MODULE LitedramPort -----------------------------
(***************************************************************************)
(* The signals between the simulated SoC and the verilated DRAM controller *)
(* (sim_litedram_c.cpp, called by sim_litedram.vhdl).  A call carries the  *)
(* signals of one port as a vector that one side puts together and the     *)
(* other takes apart from the most significant bit down.  A layout is the  *)
(* sequence of the pieces: signal, first bit, last bit.                    *)
(***************************************************************************)
EXTENDS Integers, Sequences

LOCAL INSTANCE SequencesExt

CONSTANT MaxEdges   \* edges of the SoC's clock

ASSUME PortAssumption == MaxEdges \in Nat

VARIABLES vcore,      \* the verilated controller: its inputs and outputs that are one, and its clock cycles
          pins   \* the SoC's side: the signals it drives, those it sees, and the clock edges
portvars == <<vcore, pins>>

----------------------------------------------------------------------------
\* send_signals and recv_signals of sim_litedram.vhdl.
hdl_set_wb == <<<<"cti", 2, 0>>, <<"bte", 1, 0>>, <<"sel", 3, 0>>, <<"we", 0, 0>>, <<"stb", 0, 0>>, <<"cyc", 0, 0>>,
                <<"adr", 29, 0>>, <<"dat_w", 31, 0>>>>
hdl_set_user == <<<<"cmd_valid", 0, 0>>, <<"cmd_we", 0, 0>>, <<"wdata_valid", 0, 0>>, <<"rdata_ready", 0, 0>>,
                  <<"cmd_addr", 23, 0>>, <<"wdata_we", 15, 0>>, <<"wdata", 127, 0>>>>
hdl_get_wb == <<<<"init_error", 0, 0>>, <<"init_done", 0, 0>>, <<"err", 0, 0>>, <<"ack", 0, 0>>, <<"dat_r", 31, 0>>>>
hdl_get_user == <<<<"cmd_ready", 0, 0>>, <<"wdata_ready", 0, 0>>, <<"rdata_valid", 0, 0>>, <<"rdata", 127, 0>>>>

\* The same in sim_litedram_c.cpp, where a wide signal is an array of words.
litedram_set_wb == <<<<"cti", 2, 0>>, <<"bte", 1, 0>>, <<"sel", 3, 0>>, <<"we", 0, 0>>, <<"stb", 0, 0>>,
                     <<"cyc", 0, 0>>, <<"adr", 29, 0>>, <<"dat_w", 31, 0>>>>
litedram_set_user == <<<<"cmd_valid", 0, 0>>, <<"cmd_we", 0, 0>>, <<"wdata_valid", 0, 0>>, <<"rdata_ready", 0, 0>>,
                       <<"cmd_addr", 23, 0>>, <<"wdata_we", 15, 0>>, <<"wdata", 127, 96>>, <<"wdata", 95, 64>>,
                       <<"wdata", 63, 32>>, <<"wdata", 31, 0>>>>
litedram_get_wb == <<<<"init_error", 0, 0>>, <<"init_done", 0, 0>>, <<"err", 0, 0>>, <<"ack", 0, 0>>,
                     <<"dat_r", 31, 0>>>>

litedram_get_user == <<<<"cmd_ready", 0, 0>>, <<"wdata_ready", 0, 0>>, <<"rdata_valid", 0, 0>>, <<"rdata", 127, 96>>,
                       <<"rdata", 95, 64>>, <<"rdata", 63, 32>>, <<"rdata", 31, 0>>>>

\* The bits of a layout in the order they are taken.
get_bits(f) == [k \in 1 .. f[2] - f[3] + 1 |-> <<f[1], f[2] - k + 1>>]
Taken(layout) == FlattenSeq([k \in DOMAIN layout |-> get_bits(layout[k])])
to_wb == <<Taken(hdl_set_wb), Taken(litedram_set_wb)>>
to_user == <<Taken(hdl_set_user), Taken(litedram_set_user)>>
from_wb == <<Taken(litedram_get_wb), Taken(hdl_get_wb)>>
from_user == <<Taken(litedram_get_user), Taken(hdl_get_user)>>

\* What the bits that are one at the sender are at the receiver.
Carry(call, ones) == {call[2][k] : k \in {j \in DOMAIN call[1] \cap DOMAIN call[2] : call[1][j] \in ones}}

send_signals(ones) == Carry(to_wb, ones) \cup Carry(to_user, ones)
recv_signals(ones) == Carry(from_wb, ones) \cup Carry(from_user, ones)

Inputs == Range(to_wb[1]) \cup Range(to_user[1])
Outputs == Range(from_wb[1]) \cup Range(from_user[1])

\* An edge of the SoC's clock: the signals go out, and on the rising edge the
\* controller is clocked (external: its outputs then change); the SoC samples
\* the outputs last.
Edge(ones, answer) ==
  /\ pins.edges < MaxEdges
  /\ LET rising == pins.edges % 2 = 0
         out == IF rising THEN answer ELSE vcore.out
     IN /\ vcore' = [in |-> send_signals(ones), out |-> out, clocks |-> vcore.clocks + (IF rising THEN 1 ELSE 0)]
        /\ pins' = [drive |-> ones, see |-> recv_signals(out), edges |-> pins.edges + 1]

\* The values tried: a signal of which all bits are one, or every third.
Tries(all) == {{b \in all : b[1] = s /\ b[2] % n = 0} : s \in {b[1] : b \in all}, n \in {1, 3}}
Drives == Tries(Inputs)
Answers == Tries(Outputs)

PortInit == /\ vcore = [in |-> {}, out |-> {}, clocks |-> 0]
            /\ pins = [drive |-> {}, see |-> {}, edges |-> 0]

PortNext == \E ones \in Drives, answer \in IF pins.edges % 2 = 0 THEN Answers ELSE {{}} : Edge(ones, answer)

----------------------------------------------------------------------------
\* The controller's inputs are the signals the SoC drives and the SoC sees the
\* controller's outputs, bit for bit, after every edge, and the controller has
\* been clocked once per cycle of the SoC.
PortsTrue == vcore.in = pins.drive /\ pins.see = vcore.out /\ vcore.clocks = (pins.edges + 1) \div 2
================================================================================
