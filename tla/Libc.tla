--------------------------------- MODULE Libc ---------------------------------
(***************************************************************************)
(* The C library of the boot loader, litedram/gen-src/sdram_init/libc:     *)
(* number parsing, printing into a buffer, strings and memory.  A function *)
(* is an operator; a step calls one on an input of the chosen sets.        *)
(*                                                                         *)
(* A string is the sequence of its characters without the final 0; Ch      *)
(* reads the 0.  A long has 8 * CHAR_BITS bits, an int half of them.       *)
(***************************************************************************)
EXTENDS Integers, Sequences, FiniteSets

LOCAL INSTANCE SequencesExt
LOCAL INSTANCE FiniteSetsExt

CONSTANTS CHAR_BITS,    \* bits of a char, small enough for a long to fit TLC's integers
          Calls         \* the calls made: records with a field fn and the arguments

ASSUME LibcAssumption == CHAR_BITS \in 1 .. 3

VARIABLES call,   \* the call in progress
          ret,    \* what it returned
          heap    \* strtok: the string being cut, where it goes on, the tokens returned
libvars == <<call, ret, heap>>

LONG == 2 ^ (8 * CHAR_BITS)

Ch(s, p) == IF p \in DOMAIN s THEN s[p] ELSE 0

\* The first position from p on whose character is not in set (the loops that
\* move a pointer over characters).
SkipOver(s, p, set) == Min({q \in p .. Len(s) + 1 : Ch(s, q) \notin set})

----------------------------------------------------------------------------
\* ctype

toupper(c) == IF c \in 97 .. 122 THEN c - 32 ELSE c

----------------------------------------------------------------------------
\* strtol, strtoul: the value and the position where reading stopped.

Blanks == {32, 9, 10, 13}
Hex(s, p) == Ch(s, p) = 48 /\ Ch(s, p + 1) = 120

Digit(c) == CASE c \in 48 .. 57 -> c - 48
              [] c \in 97 .. 122 -> c - 87
              [] c \in 65 .. 90 -> c - 55
              [] OTHER -> 99

\* variant: a digit equal to the base is taken.
DigitsUpTo(base) == {c \in 48 .. 122 : Digit(c) <= base}

DigitsOf(base) == {c \in 48 .. 122 : Digit(c) < base}

\* From position p: the base, the 0x, the digits.
Digits(s, p, base) ==
  LET b == IF base # 0 THEN base ELSE IF Hex(s, p) THEN 16 ELSE 10
      q == IF b = 16 /\ Hex(s, p) THEN p + 2 ELSE p
      e == SkipOver(s, q, DigitsOf(b))
      Rval[n \in (q - 1) .. (e - 1)] == IF n = q - 1 THEN 0 ELSE (Rval[n - 1] * b + Digit(s[n])) % LONG
  IN [val |-> Rval[e - 1], end |-> e]

strtoul(s, base) == IF base \notin 0 .. 36 THEN [val |-> 0, end |-> 1]
                    ELSE Digits(s, SkipOver(s, 1, Blanks), base)

strtol(s, base) ==
  LET p == SkipOver(s, 1, Blanks)
      minus == Ch(s, p) = 45
      d == Digits(s, IF minus THEN p + 1 ELSE p, base)
  IN IF base \notin 0 .. 36 THEN [val |-> 0, end |-> 1]
     ELSE [d EXCEPT !.val = IF minus THEN 0 - @ ELSE @]

----------------------------------------------------------------------------
\* vsnprintf.  A format is a sequence of characters and of conversions
\* [conv, pad, width, mod]; mod is the length modifier in bytes.

convert(n) == 2 ^ (CHAR_BITS * n)

\* c, n times, as far as there is room.
Fill(room, n, c) == [k \in 1 .. Min({room, Max({n, 0})}) |-> c]

print_str(room, str) == SubSeq(str, 1, Min({room, Len(str)}))
print_str_fill(room, width, str) == Fill(room, width - Len(str), 32)

RECURSIVE print_intlen(_, _)
print_intlen(value, base) == IF value < base THEN 1 ELSE 1 + print_intlen(value \div base, base)

zeichen(d) == IF d < 10 THEN 48 + d ELSE 87 + d

print_itoa(room, value, base, upper) ==
  LET len == print_intlen(value, base)
      c(k) == zeichen((value \div (base ^ (len - k))) % base)
  IN IF len > room THEN <<>> ELSE [k \in 1 .. len |-> IF upper THEN toupper(c(k)) ELSE c(k)]

print_fill(room, width, value, base, c, optlen) ==
  Fill(room, width - (print_intlen(value, base) + optlen), c)

\* A padding and a number, each in the room the text before it leaves.
Number(room, f, value, base, upper) ==
  LET fill == print_fill(room, f.width, value, base, f.pad, 0)
  IN fill \o print_itoa(room - Len(fill), value, base, upper)

Negative(f, v) == f.conv # "u" /\ (v \div (convert(f.mod) \div 2)) % 2 = 1

print_format(room, f, v) ==
  CASE f.conv \in {"d", "i", "u"} ->
         IF Negative(f, v) THEN <<45>> \o Number(room - 1, f, (LONG - v) % convert(f.mod), 10, FALSE)
         ELSE Number(room, f, v, 10, FALSE)
    [] f.conv \in {"x", "X"} -> Number(room, f, v % convert(f.mod), 16, f.conv = "X")
    [] f.conv = "o" -> Number(room, f, v % convert(f.mod), 8, FALSE)
    [] f.conv = "p" -> LET fill == print_fill(room, f.width, v, 16, 32, 2)
                           zx == print_str(room - Len(fill), <<48, 120>>)
                       IN fill \o zx \o print_itoa(room - Len(fill) - Len(zx), v, 16, FALSE)
    [] f.conv = "c" -> Append(print_fill(room, f.width, 1, 10, 32, 0), v)
    [] f.conv = "s" -> LET fill == print_str_fill(room, f.width, v)
                       IN fill \o print_str(room - Len(fill), v)

\* The text written, without its final 0.
vsnprintf(bufsize, format, args) ==
  LET Text[n \in 0 .. Len(format)] ==
        IF n = 0 THEN [out |-> <<>>, a |-> 1]
        ELSE LET t == Text[n - 1]
                 room == bufsize - 1 - Len(t.out)
                 f == format[n]
             IN CASE room <= 0 -> t
                  [] f.conv = "text" -> [t EXCEPT !.out = Append(@, f.width)]
                  [] OTHER -> [out |-> t.out \o print_format(room, f, args[t.a]), a |-> t.a + 1]
  IN IF bufsize = 0 THEN <<>> ELSE Text[Len(format)].out

----------------------------------------------------------------------------
\* Comparing.

\* The loops: the first position where the strings differ or one of them ends,
\* or the last of n.
strcmp(s, t) == LET p == Min({q \in 1 .. Len(s) + 1 : Ch(s, q) = 0 \/ Ch(t, q) = 0 \/ Ch(s, q) # Ch(t, q)})
                IN Ch(s, p) - Ch(t, p)

strncmp(s, t, n) == IF n < 1 THEN 0
                    ELSE LET p == Min({n} \cup {q \in 1 .. n : Ch(s, q) = 0 \/ Ch(t, q) = 0 \/ Ch(s, q) # Ch(t, q)})
                         IN Ch(s, p) - Ch(t, p)

strcasecmp(s, t) ==
  LET p == Min({q \in 1 .. Len(s) + 1 : Ch(s, q) = 0 \/ Ch(t, q) = 0 \/ toupper(Ch(s, q)) # toupper(Ch(t, q))})
  IN Ch(s, p) - Ch(t, p)

strncasecmp(s, t, n) ==
  IF n < 1 THEN 0
  ELSE LET p == Min({n} \cup {q \in 1 .. n : Ch(s, q) = 0 \/ Ch(t, q) = 0 \/ toupper(Ch(s, q)) # toupper(Ch(t, q))})
       IN toupper(Ch(s, p)) - toupper(Ch(t, p))

memcmp(s, t, n) == LET d == {q \in 1 .. n : s[q] # t[q]}
                   IN IF d = {} THEN 0 ELSE s[Min(d)] - t[Min(d)]

\* Searching: a position, 0 for NULL.
strchr(s, c) == IF c = 0 \/ c \notin Range(s) THEN 0 ELSE Min({p \in DOMAIN s : s[p] = c})
strrchr(s, c) == IF c = 0 \/ c \notin Range(s) THEN 0 ELSE Max({p \in DOMAIN s : s[p] = c})
memchr(s, c, n) == LET d == {p \in 1 .. n : s[p] = c} IN IF d = {} THEN 0 ELSE Min(d)

strstr(s, t) ==
  LET d == {p \in DOMAIN s : strncmp(SubSeq(s, p, Len(s)), t, Len(t)) = 0}
  IN IF Len(t) < 1 THEN 1 ELSE IF d = {} THEN 0 ELSE Min(d)

----------------------------------------------------------------------------
\* Memory m is a function from addresses to bytes.

Store(m, d, s, w) == [a \in DOMAIN m |-> IF a \in d .. d + w - 1 THEN m[a - d + s] ELSE m[a]]

\* Eight bytes at a time, then one at a time, upwards.
RECURSIVE memcpy(_, _, _, _)
memcpy(m, d, s, n) == IF n = 0 THEN m
                      ELSE LET w == IF n >= 8 THEN 8 ELSE 1
                           IN memcpy(Store(m, d, s, w), d + w, s + w, n - w)

\* One at a time, downwards.
RECURSIVE CopyDown(_, _, _, _)
CopyDown(m, d, s, n) == IF n = 0 THEN m ELSE CopyDown(Store(m, d + n - 1, s + n - 1, 1), d, s, n - 1)

memmove(m, d, s, n) == IF s < d /\ s + n >= d THEN CopyDown(m, d, s, n) ELSE memcpy(m, d, s, n)

----------------------------------------------------------------------------
\* strtok: from position p of b, with the token found so far at r (0: none).

RECURSIVE Cut(_, _, _, _)
Cut(b, p, r, pattern) ==
  CASE Ch(b, p) = 0 -> [buf |-> b, next |-> p, tok |-> r]
    [] Ch(b, p) \in pattern -> Cut([b EXCEPT ![p] = 0], p + 1, r, pattern)
    [] Ch(b, p) \notin pattern /\ r = 0 -> Cut(b, p + 1, p, pattern)
    [] OTHER -> IF b[p - 1] = 0 THEN [buf |-> b, next |-> p, tok |-> r] ELSE Cut(b, p + 1, r, pattern)

CutFrom(b, p, pattern) == Cut(b, p, 0, pattern)

\* The string that starts at position p of b.
StringAt(b, p) == SubSeq(b, p, SkipOver(b, p, 1 .. 255) - 1)

strtok ==
  /\ call.fn = "strtok" /\ heap.calls < Len(call.s) + 2
  /\ LET c == IF heap.calls = 0 THEN CutFrom(call.s, 1, call.pattern)
              ELSE CutFrom(heap.buf, heap.next, call.pattern)
     IN heap' = [buf |-> c.buf, next |-> c.next, calls |-> heap.calls + 1, null |-> c.tok = 0,
                 toks |-> IF c.tok = 0 THEN heap.toks ELSE Append(heap.toks, StringAt(c.buf, c.tok))]
  /\ UNCHANGED <<call, ret>>

\* The other functions: one call.
Result(c) ==
  CASE c.fn = "strto" -> <<strtol(c.s, c.base), strtoul(c.s, c.base)>>
    [] c.fn = "printf" -> vsnprintf(c.size, c.format, c.args)
    [] c.fn = "compare" -> [cmp |-> strcmp(c.s, c.t), ncmp |-> strncmp(c.s, c.t, c.n),
                            casecmp |-> strcasecmp(c.s, c.t), ncasecmp |-> strncasecmp(c.s, c.t, c.n),
                            memcmp |-> memcmp(c.s \o <<0>>, c.t \o <<0>>,
                                              Min({c.n, Len(c.s) + 1, Len(c.t) + 1}))]
    [] c.fn = "search" -> [chr |-> strchr(c.s, c.c), rchr |-> strrchr(c.s, c.c),
                           memchr |-> memchr(c.s, c.c, Len(c.s)), str |-> strstr(c.s, c.t)]
    [] c.fn = "memmove" -> memmove(c.m, c.d, c.s, c.n)

Call ==
  /\ call.fn # "strtok" /\ ~ret.done
  /\ ret' = [done |-> TRUE, val |-> Result(call)]
  /\ UNCHANGED <<call, heap>>

LibcStart(c) ==
  /\ call = c /\ ret = [done |-> FALSE]
  /\ heap = [buf |-> <<>>, next |-> 0, calls |-> 0, null |-> FALSE, toks |-> <<>>]

LibcInit == \E c \in Calls : LibcStart(c)
LibcNext == Call \/ strtok

----------------------------------------------------------------------------
Done(fn) == call.fn = fn /\ ret.done

\* The number a run of digits stands for.
Horner(ds, base) == MapThenSumSet(LAMBDA k : Digit(ds[k]) * (base ^ (Len(ds) - k)), DOMAIN ds)

\* strtol and strtoul split their string into blanks, a sign, a base prefix and
\* a run of digits that cannot be made longer; the value is that of the run,
\* and the end pointer is behind it.  A bad base reads nothing.
NumberRead ==
  Done("strto") =>
    \A signed \in BOOLEAN :
      LET r == ret.val[IF signed THEN 1 ELSE 2]
          s == call.s
      IN IF call.base \notin 0 .. 36 THEN r = [val |-> 0, end |-> 1]
         ELSE \E i \in 1 .. Len(s) + 1, sign \in {0, 1}, zx \in {0, 2} :
                LET j == i + sign + zx
                    b == IF call.base # 0 THEN call.base ELSE IF zx = 2 THEN 16 ELSE 10
                    run == SubSeq(s, j, r.end - 1)
                IN /\ \A k \in 1 .. i - 1 : s[k] \in {32, 9, 10, 13}
                   /\ Ch(s, i) \notin {32, 9, 10, 13}
                   /\ (sign = 1) = (signed /\ Ch(s, i) = 45)
                   /\ (zx = 2) = (b = 16 /\ Ch(s, i + sign) = 48 /\ Ch(s, i + sign + 1) = 120)
                   /\ r.end >= j /\ \A k \in DOMAIN run : Digit(run[k]) < b
                   /\ Digit(Ch(s, r.end)) >= b
                   /\ r.val = (IF sign = 1 THEN 0 - Horner(run, b) ELSE Horner(run, b))

\* vsnprintf leaves room for the final 0 in the buffer it is given, whatever
\* the widths and values (a padded %c, which the code does not bound and the
\* loader does not use, excepted).
PrintFits ==
  Done("printf") /\ call.size > 0
    /\ (\A k \in DOMAIN call.format : call.format[k].conv = "c" => call.format[k].width = 0)
  => Len(ret.val) + 1 <= call.size

\* What vsnprintf prints of a number, strtol and strtoul read back as that
\* number, for every conversion and length, when the buffer has room and a
\* negative number is not padded with blanks (which come after the sign).
PrintReadsBack ==
  Done("printf") /\ Len(call.format) = 1 /\ call.size > 20 =>
    LET f == call.format[1]
        base == CASE f.conv \in {"x", "X", "p"} -> 16 [] f.conv = "o" -> 8 [] OTHER -> 10
        back == strtol(ret.val, base)
    IN f.conv \notin {"c", "s"} /\ (call.value < 0 => f.pad = 48 \/ f.width = 0)
         => /\ back.val = call.value /\ back.end = Len(ret.val) + 1
            /\ Len(ret.val) >= f.width

\* A comparison returns 0 exactly for strings that are equal (in their first n
\* characters, without case) and otherwise the sign of the first difference.
CompareRight ==
  Done("compare") =>
    LET s == call.s
        t == call.t
        n == call.n
        Pre(x) == SubSeq(x, 1, Min({n, Len(x)}))
        Fold(x) == [k \in DOMAIN x |-> toupper(x[k])]
    IN /\ (ret.val.cmp = 0) = (s = t)
       /\ (ret.val.ncmp = 0) = (Pre(s) = Pre(t))
       /\ (ret.val.casecmp = 0) = (Fold(s) = Fold(t))
       /\ (ret.val.ncasecmp = 0) = (Fold(Pre(s)) = Fold(Pre(t)))
       /\ (ret.val.memcmp = 0) = (Pre(s) = Pre(t))
       /\ ret.val.ncmp # 0 => (ret.val.ncmp > 0) = (ret.val.cmp > 0)
       /\ ret.val.memcmp # 0 => (ret.val.memcmp > 0) = (ret.val.cmp > 0)

\* A search finds the first (strrchr: the last) place, and NULL only if there
\* is none.
SearchRight ==
  Done("search") =>
    LET s == call.s
        t == call.t
        Places == {p \in 1 .. Len(s) : p + Len(t) - 1 <= Len(s) /\ SubSeq(s, p, p + Len(t) - 1) = t}
        First(S) == IF S = {} THEN 0 ELSE Min(S)
    IN /\ ret.val.str = IF t = <<>> THEN 1 ELSE First(Places)
       /\ ret.val.chr = ret.val.memchr
       /\ (ret.val.chr = 0) = (ret.val.rchr = 0)
       /\ ret.val.chr # 0 => /\ s[ret.val.chr] = call.c /\ s[ret.val.rchr] = call.c
                             /\ \A p \in DOMAIN s : s[p] = call.c => p \in ret.val.chr .. ret.val.rchr

\* memmove moves its n bytes for every overlap, and changes nothing else.
MemmoveMoves ==
  Done("memmove") =>
    \A a \in DOMAIN call.m :
      ret.val[a] = IF a \in call.d .. call.d + call.n - 1 THEN call.m[a - call.d + call.s] ELSE call.m[a]

\* Successive calls of strtok return the maximal runs of characters outside
\* the pattern, in order and each once, and NULL when there are no more.
TokensRight ==
  call.fn = "strtok" =>
    LET s == call.s
        In(p) == Ch(s, p) # 0 /\ Ch(s, p) \notin call.pattern
        Starts == SetToSortSeq({p \in DOMAIN s : In(p) /\ ~In(p - 1)}, <)
        End(p) == Min({q \in p .. Len(s) + 1 : ~In(q)}) - 1
        all == [k \in DOMAIN Starts |-> SubSeq(s, Starts[k], End(Starts[k]))]
    IN /\ IsPrefix(heap.toks, all)
       /\ heap.calls > 0 => heap.null = (heap.calls > Len(all))

\* Every function of the library returns, and leaves in memory, what its
\* definition by quantifiers says, on every call of the instance.
LibraryRight == /\ NumberRead /\ PrintFits /\ PrintReadsBack
                /\ CompareRight /\ SearchRight /\ MemmoveMoves /\ TokensRight
================================================================================
