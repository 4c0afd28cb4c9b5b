------------------------------ MODULE MCSoftware ------------------------------
(***************************************************************************)
(* The C sources around the core, one instance each: the boot loader, its  *)
(* C library, the console, the verilated serial line, the functions the    *)
(* simulator calls and the log formatter.  mode is the one that runs.      *)
(***************************************************************************)
EXTENDS Console, VerilatorUart, Boot, Libc, SimCalls, FmtLog, LitedramPort

VARIABLE mode
swvars == <<mode, cvars, lvars, bvars, libvars, simvars, logvars, portvars>>

----------------------------------------------------------------------------
\* The console: what is typed, and the strings written.
MCTyped == <<97, 200, 10>>
MCStrings == {<<66, 10>>}

\* The serial line: what the SoC sends and what is typed.
MCSends == {<<0, 165>>}
MCKeys == {<<90, 0>>}

\* Boards: a flash of each family check_flash tells apart, of one it does not,
\* and none; images with and without another header before a segment.
Seg(s) == [load |-> TRUE, seg |-> s]
Note == [load |-> FALSE, seg |-> "note"]
Blank == [ident |-> "blank", phdrs |-> <<>>]
Images == {[ident |-> "elf64le", phdrs |-> <<Seg("text"), Seg("data"), Note>>],
           [ident |-> "elf64le", phdrs |-> <<Seg("text"), Seg("data")>>],
           [ident |-> "elf64le", phdrs |-> <<Note, Seg("text")>>],
           Blank}
Flashes == {[id |-> <<1, 2, 24>>, sr |-> 28, cr |-> 8], [id |-> <<1, 32, 25>>, sr |-> 0, cr |-> 2],
            [id |-> <<32, 186, 24>>, sr |-> 0, cr |-> 0], [id |-> <<157, 112, 25>>, sr |-> 12, cr |-> 0],
            [id |-> <<157, 96, 25>>, sr |-> 64, cr |-> 0], [id |-> <<239, 64, 24>>, sr |-> 0, cr |-> 0],
            [id |-> <<255, 255, 255>>, sr |-> 0, cr |-> 0]}
MCBoards == {[has_bram |-> FALSE, has_flash |-> TRUE, def_quad |-> q, image |-> im, id |-> f.id, sr |-> f.sr, cr |-> f.cr] :
              q \in BOOLEAN, im \in Images, f \in Flashes}
            \cup {[has_bram |-> TRUE, has_flash |-> TRUE, def_quad |-> q, image |-> Blank, id |-> f.id, sr |-> f.sr, cr |-> f.cr] :
                    q \in BOOLEAN, f \in Flashes}
            \cup {[has_bram |-> b, has_flash |-> FALSE, def_quad |-> FALSE, image |-> Blank,
                   id |-> <<255, 255, 255>>, sr |-> 0, cr |-> 0] : b \in BOOLEAN}

\* Calls of the C library.
Words(A, n) == UNION {[1 .. k -> A] : k \in 0 .. n}
Parses == {[fn |-> "strto", s |-> s, base |-> b] :
             s \in Words({32, 45, 48, 120, 55, 98}, 4), b \in {-1, 0, 7, 10, 16, 36, 37}}
Conv(c, p, w, m) == [conv |-> c, pad |-> p, width |-> w, mod |-> m]
Lit(ch) == [conv |-> "text", pad |-> 32, width |-> ch, mod |-> 4]
Half(m) == 2 ^ (CHAR_BITS * m - 1)
SignedArgs(m) == {0, 1, 3, Half(m) - 1, 0 - 1, 0 - 3, 0 - Half(m)}
UnsignedArgs(m) == {0, 1, 7, Half(m), 2 * Half(m) - 1}
Prints1 == UNION {{[fn |-> "printf", size |-> 32, format |-> <<Conv(c, p, w, m)>>, args |-> <<val % LONG>>, value |-> val] :
               c \in {"d"}, p \in {32, 48}, w \in {0, 2, 6}, val \in SignedArgs(m)} : m \in {1, 2, 4, 8}}
       \cup UNION {{[fn |-> "printf", size |-> 32, format |-> <<Conv(c, p, w, m)>>, args |-> <<val>>, value |-> val] :
               c \in {"u", "x", "X", "o"}, p \in {32, 48}, w \in {0, 2, 6}, val \in UnsignedArgs(m)} : m \in {1, 2, 4, 8}}
       \cup {[fn |-> "printf", size |-> 32, format |-> <<Conv("p", 32, w, 8)>>, args |-> <<val>>, value |-> val] :
               w \in {0, 4, 12}, val \in UnsignedArgs(8)}
Prints2 == {[fn |-> "printf", size |-> z, format |-> <<Lit(65), Conv(c, 32, w, 4), Lit(66), Lit(67)>>, args |-> <<val>>, value |-> 0] :
               z \in 0 .. 9, c \in {"d", "x", "p"}, w \in {0, 3, 9}, val \in {5, 300, LONG - 4}}
       \cup {[fn |-> "printf", size |-> z, format |-> <<Lit(65), Conv("s", 32, w, 4), Conv("c", 32, 0, 4)>>, args |-> <<s, 90>>, value |-> 0] :
               z \in 0 .. 9, w \in {0, 3, 9}, s \in {<<>>, <<97, 98, 99, 100>>}}
Strs == Words({65, 97, 98}, 3)
Compares == {[fn |-> "compare", s |-> s, t |-> t, n |-> n] : s \in Strs, t \in Strs, n \in 0 .. 4}
Searches == {[fn |-> "search", s |-> s, t |-> t, c |-> c] : s \in Words({97, 98}, 4), t \in Words({97, 98}, 2), c \in {97, 98}}
Moves == {[fn |-> "memmove", m |-> [a \in 1 .. 24 |-> a], d |-> d, s |-> s, n |-> n] :
            d \in 1 .. 12, s \in 1 .. 12, n \in {0, 1, 7, 8, 9, 12}}
Toks == {[fn |-> "strtok", s |-> s, pattern |-> p] : s \in Words({97, 44, 59}, 5), p \in {{44}, {44, 59}}}
MCCalls == Parses \cup Prints1 \cup Prints2 \cup Compares \cup Searches \cup Moves \cup Toks

\* Messages of the socket, the words of a memory and the file it starts from.
Pattern(n, len) == [k \in 1 .. len |-> n[((k - 1) % Len(n)) + 1]]
MCMessages == {[op |-> o, data |-> Pattern(d, 64), addr |-> Pattern(a, 8)] : o \in {<<1, 0>>, <<1, 1>>},
                 d \in {<<0>>, <<1>>, <<0, 0, 1>>}, a \in {<<0>>, <<0, 1, 1>>}}
MCVectors == {<<"1", "X", "0", "0", "1", "1">>, <<"0", "1", "0", "0", "0", "1">>}
MCFiles == {<<6, 2, 3>>, <<1, 3, 5, 7, 2, 4>>}

----------------------------------------------------------------------------
\* The state of a part that does not run.
ConsoleIdle == ConsoleStart /\ sys = [proc_freq |-> 50000000, large |-> TRUE, is_16550 |-> TRUE]
LineIdle == LineStart(<<>>, <<>>, 1, FALSE)
BootIdle == BootStart(CHOOSE b \in MCBoards : b.has_bram, "program")
LibcIdle == LibcStart([fn |-> "none"])
LogIdle == LogStart("nia_hi", 0)

Init ==
  /\ SimInit /\ PortInit
  /\ \/ mode = "console" /\ ConsoleInit /\ LineIdle /\ BootIdle /\ LibcIdle /\ LogIdle
     \/ mode = "line" /\ ConsoleIdle /\ LineInit /\ BootIdle /\ LibcIdle /\ LogIdle
     \/ mode = "boot" /\ ConsoleIdle /\ LineIdle /\ BootInit /\ LibcIdle /\ LogIdle
     \/ mode = "libc" /\ ConsoleIdle /\ LineIdle /\ BootIdle /\ LibcInit /\ LogIdle
     \/ mode = "log" /\ ConsoleIdle /\ LineIdle /\ BootIdle /\ LibcIdle /\ LogInit
     \/ mode \in {"ram", "jtag", "dram"} /\ ConsoleIdle /\ LineIdle /\ BootIdle /\ LibcIdle /\ LogIdle

Next ==
  \/ mode = "console" /\ ConsoleNext /\ UNCHANGED <<mode, lvars, bvars, libvars, simvars, logvars, portvars>>
  \/ mode = "line" /\ Tick /\ UNCHANGED <<mode, cvars, bvars, libvars, simvars, logvars, portvars>>
  \/ mode = "boot" /\ BootNext /\ UNCHANGED <<mode, cvars, lvars, libvars, simvars, logvars, portvars>>
  \/ mode = "libc" /\ LibcNext /\ UNCHANGED <<mode, cvars, lvars, bvars, simvars, logvars, portvars>>
  \/ mode = "log" /\ LogNext /\ UNCHANGED <<mode, cvars, lvars, bvars, libvars, simvars, portvars>>
  \/ mode = "ram" /\ RamNext /\ UNCHANGED <<mode, cvars, lvars, bvars, libvars, logvars, portvars>>
  \/ mode = "jtag" /\ JtagNext /\ UNCHANGED <<mode, cvars, lvars, bvars, libvars, logvars, portvars>>
  \/ mode = "dram" /\ PortNext /\ UNCHANGED <<mode, cvars, lvars, bvars, libvars, simvars, logvars>>

\* The processor and the UART are clocked, the loader runs and the flash
\* finishes its writes.
Fairness == /\ WF_swvars(mode = "console" /\ ConsoleStep /\ UNCHANGED <<mode, lvars, bvars, libvars, simvars, logvars, portvars>>)
            /\ WF_swvars(mode = "boot" /\ Loader /\ UNCHANGED <<mode, cvars, lvars, libvars, simvars, logvars, portvars>>)
            /\ WF_swvars(mode = "boot" /\ FlashDone /\ UNCHANGED <<mode, cvars, lvars, libvars, simvars, logvars, portvars>>)

SoftwareSpec == Init /\ [][Next]_swvars /\ Fairness

\* What the simulated hardware hands to C functions and takes from them is
\* carried bit for bit: memory words (sim_bram_helpers_c.c), debug messages
\* (sim_jtag_socket_c.c), DRAM ports (sim_litedram_c.cpp).
CallsTrue == RamHolds /\ MessageCarried /\ PortsTrue
================================================================================
