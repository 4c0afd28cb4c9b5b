------------------------------- MODULE MCDebug -------------------------------
(* Scenarios for the debugger: command lines small enough to interleave every  *)
(* clock of the two domains.                                                   *)
EXTENDS MwDebug

Scen(b, c) == [backend |-> b, clients |-> c, kill |-> FALSE, fails |-> FALSE, terminates |-> FALSE,
               hits |-> {}, logging |-> FALSE, minsys |-> 0]

A(c) == [cmd |-> c]
Mr(a, n) == [cmd |-> "mr", addr |-> a, count |-> n]
Mw(a, d) == [cmd |-> "mw", addr |-> a, data |-> d]
Load(a, f) == [cmd |-> "load", addr |-> a, file |-> f]
Save(a, n) == [cmd |-> "save", addr |-> a, size |-> n]
Gpr(r, n) == [cmd |-> "gpr", reg |-> r, count |-> n]
Trig(t) == [cmd |-> "trig", trig |-> t]
TrigOff(t) == [cmd |-> "trig_off", trig |-> t]
TrigSet(t, a) == [cmd |-> "trig_set", trig |-> t, addr |-> a]

DmiRead(r) == [cmd |-> "dmiread", reg |-> r]
DmiWrite(r, d) == [cmd |-> "dmiwrite", reg |-> r, data |-> d]

\* Memory commands over a cable whose calls may fail.
Memory == [Scen("ecp5", <<<<Load(8, <<4, 5>>), Mr(16, 2), Save(8, 9), Mw(0, 7)>>>>) EXCEPT !.fails = TRUE]

\* A client killed at any point, and the next one, over the cable and in the
\* simulator.
Killed == [Scen("bscane2", <<<<Mw(8, 7)>>, <<Mr(8, 1)>>>>) EXCEPT !.kill = TRUE]
Orphan == [Scen("sim", <<<<Mw(8, 7)>>, <<Mr(0, 1)>>>>) EXCEPT !.kill = TRUE]

\* The log, stopped and then dumped: at least two system clocks
\* fit in a scan of 74 bits.
Log == [Scen("bscane2", <<<<A("lstop"), A("ldump"), A("lstart")>>>>) EXCEPT !.logging = TRUE, !.minsys = 2]

\* The core: stopped, stepped, its last register read, reset; then the
\* simulation is ended under the client.
Core == Scen("sim", <<<<A("stop"), A("step"), Gpr(95, 2), A("creset"), A("icreset"), A("quit"), A("start")>>>>)

\* A core that terminates by itself, and triggers that are hit while they are
\* set and cleared.
Terminates == [Scen("sim", <<<<DmiRead("WB_CTRL"), A("start"), DmiWrite("EXIT", 1)>>, <<>>>>)
               EXCEPT !.terminates = TRUE]
Trigger == [Scen("bscane2", <<<<TrigSet("ltrig", 6), Trig("ltrig"), TrigOff("ltrig")>>>>)
            EXCEPT !.hits = {"ltrig"}]

MCScenarios == {Memory, Killed, Orphan, Log, Core, Terminates, Trigger}
==============================================================================
