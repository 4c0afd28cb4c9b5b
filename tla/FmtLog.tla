-------------------------------- MODULE FmtLog --------------------------------
(***************************************************************************)
(* The execution log: the 256 bits the core records in every cycle and     *)
(* scripts/fmt_log, which takes them apart with a struct of bit-fields and *)
(* prints a line for each.  A layout is the sequence of the fields with    *)
(* their widths, from the least significant bit up; the recorded signals   *)
(* go by the name of the struct's field that is meant to hold them.        *)
(***************************************************************************)
EXTENDS Integers, Sequences

LOCAL INSTANCE FiniteSetsExt

CONSTANTS Fetches,    \* addresses of fetched instructions, in words
          MaxLines,   \* entries of the log
          Leftovers   \* what the uninitialised element of full_nia may hold

ASSUME LogAssumption == Fetches \subseteq 0 .. 255 /\ MaxLines \in Nat

VARIABLES sig,        \* the signal whose bits are ones in this log
          out,        \* the last entry recorded and the line printed for it
          full_nia,   \* the low byte of the last address fetched, by its low bits
          fetched,    \* ghost: the addresses fetched, in order
          lineno,
          ncompl
logvars == <<sig, out, full_nia, fetched, lineno, ncompl>>

----------------------------------------------------------------------------
\* What each part of the core records.

fetch1_log == <<<<"nia_lo", 42>>, <<"nia_hi", 1>>>>
icache_log == <<<<"ic_ra_valid", 1>>, <<"ic_access_ok", 1>>, <<"ic_is_miss", 1>>, <<"ic_is_hit", 1>>, <<"ic_way", 3>>,
                <<"ic_state", 1>>, <<"ic_part_nia", 4>>, <<"ic_fetch_failed", 1>>, <<"ic_stall_out", 1>>,
                <<"ic_wb_stall", 1>>, <<"ic_wb_cyc", 1>>, <<"ic_wb_stb", 1>>, <<"ic_wb_adr", 3>>, <<"ic_wb_ack", 1>>,
                <<"ic_insn", 36>>, <<"ic_valid", 1>>>>
decode1_log == <<<<"d1_valid", 1>>, <<"d1_unit", 2>>, <<"d1_part_nia", 4>>, <<"d1_insn_type", 6>>>>
decode2_log == <<<<"d2_bypass_c", 1>>, <<"d2_bypass_b", 1>>, <<"d2_bypass_a", 1>>, <<"d2_stall_out", 1>>,
                 <<"d2_stopped_out", 1>>, <<"d2_valid", 1>>, <<"d2_part_nia", 4>>>>
execute1_log == <<<<"e1_flush_out", 1>>, <<"e1_stall_out", 1>>, <<"e1_redirect", 1>>, <<"e1_valid", 1>>,
                  <<"e1_write_enable", 1>>, <<"e1_irq_state", 1>>, <<"e1_irq", 1>>, <<"e1_exception", 1>>,
                  <<"e1_msr_dr", 1>>, <<"e1_msr_ir", 1>>, <<"e1_msr_pr", 1>>, <<"e1_msr_ee", 1>>>>
loadstore1_log == <<<<"ls_state", 3>>, <<"ls_dw_done", 1>>, <<"ls_min_done", 1>>, <<"ls_do_valid", 1>>,
                    <<"ls_mo_valid", 1>>, <<"ls_lo_valid", 1>>, <<"ls_eo_except", 1>>, <<"ls_stall_out", 1>>>>
dcache_log == <<<<"dc_state", 3>>, <<"dc_ra_valid", 1>>, <<"dc_tlb_way", 3>>, <<"dc_stall_out", 1>>, <<"dc_op", 3>>,
                <<"dc_do_valid", 1>>, <<"dc_do_error", 1>>, <<"dc_wb_cyc", 1>>, <<"dc_wb_stb", 1>>, <<"dc_wb_ack", 1>>,
                <<"dc_wb_stall", 1>>, <<"dc_wb_adr", 3>>>>
cr_log == <<<<"cr_wr_mask", 8>>, <<"cr_wr_data", 4>>, <<"cr_wr_enable", 1>>>>
reg_log == <<<<"reg_wr_reg", 7>>, <<"reg_wr_enable", 1>>, <<"reg_wr_data", 64>>>>

\* How the core puts them together.
log_data == fetch1_log \o icache_log \o decode1_log \o decode2_log \o execute1_log \o <<<<"pad1", 4>>>>
            \o loadstore1_log \o <<<<"pad2", 1>>>> \o dcache_log \o cr_log \o reg_log

----------------------------------------------------------------------------
\* struct log_entry of fmt_log.c.
log_entry_ic == <<<<"nia_lo", 42>>, <<"nia_hi", 1>>, <<"ic_ra_valid", 1>>, <<"ic_access_ok", 1>>, <<"ic_is_miss", 1>>,
                  <<"ic_is_hit", 1>>, <<"ic_way", 3>>, <<"ic_state", 1>>, <<"ic_part_nia", 4>>,
                  <<"ic_fetch_failed", 1>>, <<"ic_stall_out", 1>>, <<"ic_wb_stall", 1>>, <<"ic_wb_cyc", 1>>,
                  <<"ic_wb_stb", 1>>, <<"ic_wb_adr", 3>>, <<"ic_wb_ack", 1>>, <<"ic_insn", 36>>, <<"ic_valid", 1>>>>
log_entry_ex == <<<<"d1_valid", 1>>, <<"d1_unit", 2>>, <<"d1_part_nia", 4>>, <<"d1_insn_type", 6>>,
                  <<"d2_bypass_a", 1>>, <<"d2_bypass_b", 1>>, <<"d2_bypass_c", 1>>, <<"d2_stall_out", 1>>,
                  <<"d2_stopped_out", 1>>, <<"d2_valid", 1>>, <<"d2_part_nia", 4>>, <<"e1_flush_out", 1>>,
                  <<"e1_stall_out", 1>>, <<"e1_redirect", 1>>, <<"e1_valid", 1>>, <<"e1_write_enable", 1>>,
                  <<"e1_irq_state", 1>>, <<"e1_irq", 1>>, <<"e1_exception", 1>>, <<"e1_msr_dr", 1>>,
                  <<"e1_msr_ir", 1>>, <<"e1_msr_pr", 1>>, <<"e1_msr_ee", 1>>, <<"pad1", 4>>>>

log_entry_ls == <<<<"ls_state", 3>>, <<"ls_dw_done", 1>>, <<"ls_min_done", 1>>, <<"ls_do_valid", 1>>,
                  <<"ls_mo_valid", 1>>, <<"ls_lo_valid", 1>>, <<"ls_eo_except", 1>>, <<"ls_stall_out", 1>>,
                  <<"pad2", 1>>>>
log_entry_wr == <<<<"dc_state", 3>>, <<"dc_ra_valid", 1>>, <<"dc_tlb_way", 3>>, <<"dc_stall_out", 1>>, <<"dc_op", 3>>,
                  <<"dc_do_valid", 1>>, <<"dc_do_error", 1>>, <<"dc_wb_cyc", 1>>, <<"dc_wb_stb", 1>>,
                  <<"dc_wb_ack", 1>>, <<"dc_wb_stall", 1>>, <<"dc_wb_adr", 3>>, <<"cr_wr_mask", 8>>,
                  <<"cr_wr_data", 4>>, <<"cr_wr_enable", 1>>, <<"reg_wr_reg", 7>>, <<"reg_wr_enable", 1>>,
                  <<"reg_wr_data", 64>>>>
log_entry == log_entry_ic \o log_entry_ex \o log_entry_ls \o log_entry_wr

----------------------------------------------------------------------------
Names(layout) == {layout[k][1] : k \in DOMAIN layout}

\* The name and the bit that position b of a layout belongs to.
Place(layout) ==
  LET first[k \in 1 .. Len(layout) + 1] == IF k = 1 THEN 0 ELSE first[k - 1] + layout[k - 1][2]
      at(b) == CHOOSE k \in DOMAIN layout : first[k] <= b /\ b < first[k + 1]
  IN [b \in 0 .. first[Len(layout) + 1] - 1 |-> <<layout[at(b)][1], b - first[at(b)]>>]
wires == Place(log_data)
slots == Place(log_entry)
span == [f \in Names(log_entry) |-> {b \in DOMAIN slots : slots[b][1] = f}]

Parts == {"ic_part_nia", "d1_part_nia", "d2_part_nia"}

\* Bit i of a signal in entry e; addresses are below 256 words.
Wire(e, name, i) == CASE name = "nia_lo" -> i < 8 /\ (e.nia \div (2 ^ i)) % 2 = 1
                      [] name \in Parts -> (e.part \div (2 ^ i)) % 2 = 1
                      [] OTHER -> name = sig

\* The ones of the struct's field f after entry e is read into it.
Field(e, f) == {slots[b][2] : b \in {c \in span[f] : c \in DOMAIN wires /\ Wire(e, wires[c][1], wires[c][2])}}
Value(bits) == MapThenSumSet(LAMBDA i : 2 ^ i, bits)

\* variant: one address bit less selects the element.
NiaIndex3(nia_lo) == nia_lo % 8

NiaIndex(nia_lo) == nia_lo % 16

\* One turn of main's loop.
Line(e) ==
  LET nia_lo == Value(Field(e, "nia_lo") \cap 0 .. 7)
      nia == [full_nia EXCEPT ![NiaIndex(nia_lo)] = (4 * nia_lo) % 256]
  IN /\ lineno <= MaxLines
     /\ full_nia' = nia
     /\ out' = [entry |-> e, row |-> [f \in Names(log_entry) |-> Field(e, f)],
                pnia |-> [f \in Parts |-> nia[Value(Field(e, f))]]]
     /\ ncompl' = ncompl + (IF Field(e, "ls_lo_valid") \cup Field(e, "e1_valid") # {} THEN 1 ELSE 0)
     /\ lineno' = lineno + 1
     /\ fetched' = Append(fetched, e.nia)
     /\ UNCHANGED sig

\* The loop that fills full_nia stops one element short.
LogStart(s, left) ==
  /\ sig = s /\ out = [entry |-> <<>>] /\ fetched = <<>> /\ lineno = 1 /\ ncompl = 0
  /\ full_nia = [i \in 0 .. 15 |-> IF i < 15 THEN 4 * i ELSE left]

LogInit == \E s \in Names(log_data) \ (Parts \cup {"nia_lo", "pad1", "pad2"}), left \in Leftovers : LogStart(s, left)

LogNext == \E n \in Fetches, p \in {k % 16 : k \in Fetches} : Line([nia |-> n, part |-> p])

Spec == LogInit /\ [][LogNext]_logvars

----------------------------------------------------------------------------
Bypasses == {"d2_bypass_a", "d2_bypass_b", "d2_bypass_c"}

Recorded(f) == {slots[b][2] : b \in {c \in span[f] : Wire(out.entry, f, slots[c][2])}}

\* Every column of a line but the bypass flags shows the signal of its name,
\* all of its bits and no other's, though the layout is written down twice,
\* in the struct and over nine entities.
ColumnsTrue == lineno > 1 => \A f \in Names(log_entry) \ Bypasses : out.row[f] = Recorded(f)

\* The address byte of a stage is that of the last instruction fetched from
\* an address that ends the way the stage's does, if the log has one.
AddressTrue ==
  lineno > 1 =>
    \A f \in Parts :
      LET same == {k \in DOMAIN fetched : fetched[k] % 16 = out.entry.part}
      IN same # {} => out.pnia[f] = (4 * fetched[Max(same)]) % 256

\* A line of the log shows what the core recorded, bypass flags apart.
LogTrue == ColumnsTrue /\ AddressTrue

\* The letters under "byp abc" are the operands whose value was bypassed.
BypassTrue == lineno > 1 => \A f \in Bypasses : out.row[f] = Recorded(f)
================================================================================
