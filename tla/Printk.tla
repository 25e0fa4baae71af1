-------------------------------- MODULE Printk --------------------------------
(***************************************************************************)
(* libpi/libc/va-printk.c: va_printk, which printk and snprintk of the Pi  *)
(* programs are built on, over a buffer of n characters.  A format is a    *)
(* sequence of items, an argument is the machine word its conversion takes *)
(* from the va_list; words have Width bits, 32 in the code.                *)
(***************************************************************************)
EXTENDS Integers, Sequences, SequencesExt

CONSTANTS
  Word,     \* 2^32: int, unsigned and the halves of a uint64_t wrap at this
  Formats,  \* sequences of items
  Sizes     \* buffer sizes

VARIABLES
  fmt,      \* the items that are left
  n,        \* the size of the buffer
  out,      \* the characters stored so far, p - buf of them
  all,      \* history: the format
  ret       \* what va_printk returned, 0 before

printkvars == <<fmt, n, out, all, ret>>

\* An item is a plain character, "%%", or a conversion with its width and its
\* argument: [ch, width, hi, lo, text], where lo is the word, for lld and llx hi the
\* high and lo the low word, and text that of s, c and plain.

Digits == <<"0", "1", "2", "3", "4", "5", "6", "7", "8", "9", "a", "b", "c", "d", "e", "f">>

\* u's digits as emit finds them, the last first; never none.
InBase(base, u) ==
  LET from[v \in 0 .. Word - 1] ==
        <<Digits[(v % base) + 1]>> \o (IF v \div base = 0 THEN <<>> ELSE from[v \div base])
  IN from[u]

\* pad, on the reversed number.
pad(s, width) == IF Len(s) >= width THEN s ELSE s \o [i \in 1 .. width - Len(s) |-> " "]

\* Fault: the sign is looked at after the division has eaten the number.
emitSignLost(base, val, width, signed) ==
  LET neg == signed /\ base = 10 /\ val >= Word \div 2
      u == IF neg THEN Word - val ELSE val
      number == InBase(base, u) \o (IF base = 16 THEN <<"x", "0">> ELSE <<>>)
  IN Reverse(pad(number, width))

\* emit reverses at the end; -val wraps like the unsigned it is assigned to.
emit(base, val, width, signed) ==
  LET neg == signed /\ base = 10 /\ val >= Word \div 2
      u == IF neg THEN Word - val ELSE val
      number == InBase(base, u) \o (IF neg THEN <<"-">> ELSE <<>>)
                                \o (IF base = 16 THEN <<"x", "0">> ELSE <<>>)
  IN Reverse(pad(number, width))

\* The two halves of a long long are converted one by one and put together.
emit_ll(it) ==
  LET base == IF it.ch = "llx" THEN 16 ELSE 10
      num == emit(base, it.hi, it.width, FALSE)
      num1 == emit(base, it.lo, it.width, FALSE)
  IN IF base = 16 THEN num \o SubSeq(num1, 3, Len(num1))
     ELSE IF num = <<"0">> THEN num1 ELSE num \o num1

\* What one conversion gives s.
Converted(it) ==
  CASE it.ch = "d" -> emit(10, it.lo, it.width, TRUE)
    [] it.ch = "u" -> emit(10, it.lo, it.width, FALSE)
    [] it.ch \in {"p", "x"} -> emit(16, it.lo, it.width, FALSE)
    [] it.ch = "b" -> emit(2, it.lo, it.width, FALSE)
    [] it.ch \in {"lld", "llx"} -> emit_ll(it)
    [] it.ch = "c" -> Reverse(pad(it.text, it.width))
    [] it.ch = "s" -> it.text  \* without the width
    [] it.ch = "%%" -> <<"%">>
    [] it.ch = "plain" -> it.text

Init ==
  /\ all \in Formats /\ n \in Sizes
  /\ fmt = all /\ out = <<>> /\ ret = 0

\* The loop's body, and the copy that stops at e = buf + n - 1.
PrintItem ==
  /\ ret = 0 /\ fmt # <<>> /\ Len(out) < n - 1
  /\ LET s == out \o Converted(Head(fmt))
     IN out' = SubSeq(s, 1, IF Len(s) < n - 1 THEN Len(s) ELSE n - 1)
  /\ fmt' = Tail(fmt)
  /\ UNCHANGED <<n, all, ret>>

\* The format or the buffer has come to its end: the final nul.
Return ==
  /\ ret = 0 /\ (fmt = <<>> \/ Len(out) >= n - 1)
  /\ ret' = Len(out) + 1
  /\ UNCHANGED <<fmt, n, out, all>>

Next == PrintItem \/ Return
-----------------------------------------------------------------------------
\* The number a text of digits stands for; 64-bit values as <<high, low>>.
DigitOf(c) == (CHOOSE d \in 1 .. 16 : Digits[d] = c) - 1
Value(base, s) == FoldLeft(LAMBDA v, c : v * base + DigitOf(c), 0, s)
Trim(s) == SelectSeq(s, LAMBDA c : c # " ")

Reads(it) ==
  LET t == Trim(Converted(it))
      signed == it.ch = "d" /\ it.lo >= Word \div 2
      body == SubSeq(t, (IF it.ch \in {"x", "p", "llx"} THEN 2 ELSE IF signed THEN 1 ELSE 0) + 1, Len(t))
      base == IF it.ch \in {"x", "p", "llx"} THEN 16 ELSE IF it.ch = "b" THEN 2 ELSE 10
      want == IF it.ch \in {"lld", "llx"} THEN it.hi * Word + it.lo
              ELSE IF signed THEN Word - it.lo ELSE it.lo
  IN /\ Value(base, body) = want
     /\ Len(body) > 1 /\ it.ch # "llx" => body[1] # "0"
     /\ signed => t[1] = "-"
     /\ Len(Converted(it)) >= it.width

\* The long longs whose two halves do not just stand side by side: lld with a
\* high word or a width, llx with zeros in front of the low word or a width.
Halves(it) ==
  \/ it.ch = "lld" /\ (it.hi # 0 \/ it.width > 1)
  \/ it.ch = "llx" /\ (it.width > 3 \/ (it.hi # 0 /\ it.lo < Word \div 16))

(* Every number is printed as itself, in its base, with its sign and at    *)
(* least its width, the smallest int included; the text is cut at the size *)
(* of the buffer and never before, with room for the nul, and the returned *)
(* length counts that nul.  Excepted are the long longs of Halves.         *)
PrintsExactly ==
  /\ \A i \in DOMAIN all : all[i].ch \in {"d", "u", "p", "x", "b", "lld", "llx"} /\ ~Halves(all[i]) => Reads(all[i])
  /\ LET text == FlattenSeq([i \in DOMAIN all |-> Converted(all[i])])
     IN /\ Len(out) <= n - 1 /\ IsPrefix(out, text)
        /\ ret # 0 => ret = Len(out) + 1 /\ (Len(text) <= n - 1 => out = text)
        /\ ret # 0 => (Len(text) > n - 1 => Len(out) = n - 1)
=============================================================================
