------------------------------ MODULE NumText -------------------------------
(***************************************************************************)
(* Numbers as text, the way jm_stdcimpl.c writes and reads them.  A text   *)
(* is a sequence of character codes; int and long have Word values, and    *)
(* what passes their ends wraps.                                           *)
(***************************************************************************)
EXTENDS Integers, Sequences, FiniteSets, SequencesExt

CONSTANTS
  Word,     \* 2^32 on the device: the values of int, long and unsigned
  Format,   \* the conversions in use
  Size      \* characters in the array jm_print is given

\* A conversion of a format, "%5d" or "%03x": its letter, whether the width
\* begins with 0, and the width.
Conversion == [letter : {"d", "u", "x", "X"}, zero : BOOLEAN, width : Nat]

ASSUME WordAssumption ==
  /\ Word \in Nat /\ Word % 2 = 0 /\ Word > 0
  /\ Format \subseteq Conversion
  /\ Size \in Nat \ {0}

Half == Word \div 2
Signed(n) == IF n % Word >= Half THEN (n % Word) - Word ELSE n % Word
Unsigned(v) == v % Word

Digits(n, base) ==
  LET d[k \in 0 .. n] ==
        IF k < base THEN <<k>> ELSE Append(d[k \div base], k % base)
  IN d[n]

Glyph(d, upper) == IF d < 10 THEN 48 + d ELSE (IF upper THEN 55 ELSE 87) + d
Written(ds, upper) == [i \in DOMAIN ds |-> Glyph(ds[i], upper)]

\* jm_itoa and jm_xtoa, which take an unsigned.
Itoa(n) == Written(Digits(n, 10), FALSE)
Xtoa(n) == Written(Digits(n, 16), FALSE)

-----------------------------------------------------------------------------
(* Writing: the macros MFMT_SIGNED_TO_DEC and so on, and jm_print.         *)

\* The digits of a value: the one value whose negation is itself has negative
\* remainders, which give the characters below '0'.
Body(v, base, upper) ==
  IF v = -Half THEN [i \in DOMAIN Digits(Half, base) |-> 48 - Digits(Half, base)[i]]
  ELSE Written(Digits(IF v < 0 THEN -v ELSE v, base), upper)
Sign(v) == IF v < 0 THEN <<45>> ELSE << >>

\* Padding stands in front of the sign.
Padded(v, base, upper, pad, padlen) ==
  LET text == Sign(v) \o Body(v, base, upper)
  IN [i \in 1 .. (IF padlen > Len(text) THEN padlen - Len(text) ELSE 0) |-> pad] \o text

\* What is written when len characters fit: what is behind them is left out.
Cut(text, len) == SubSeq(text, 1, IF Len(text) < len THEN Len(text) ELSE len)

ArgText(c, v) ==
  LET pad == IF c.zero THEN 48 ELSE 32
  IN CASE c.letter = "d" -> Padded(Signed(v), 10, FALSE, pad, c.width)
       [] c.letter = "u" -> Padded(Unsigned(v), 10, FALSE, pad, c.width)
       [] OTHER -> Padded(Unsigned(v), 16, c.letter = "X", pad, c.width)

\* jm_print(str, size, " %..", v): one of the size characters is for the NUL.
PrintedForgetsNul(c, v, size) ==       \* deviation: --len is missing
  Append(Cut(<<32>> \o ArgText(c, v), size), 0)
Printed(c, v, size) == Append(Cut(<<32>> \o ArgText(c, v), size - 1), 0)

\* jm_sprintf(str, " %..", v) knows d and x, and a width only behind a 0; it
\* writes the sign first, and zeros before the digits as if there were no sign.
\* It writes no NUL.
Sprints(c) == c.letter \in {"d", "x"} /\ (c.zero <=> c.width > 0)
SprintfPadsFirst(c, v) ==              \* deviation: the zeros before the sign
  <<32>> \o Padded(IF c.letter = "d" THEN Signed(v) ELSE Unsigned(v),
                   IF c.letter = "d" THEN 10 ELSE 16, FALSE, 48, c.width)
Sprintf(c, v) ==
  LET digits == IF c.letter = "d" THEN Itoa(IF v < 0 THEN -v ELSE v) ELSE Xtoa(v)
      zeros == [i \in 1 .. (IF c.width > Len(digits) THEN c.width - Len(digits)
                            ELSE 0) |-> 48]
  IN <<32>> \o (IF c.letter = "d" THEN Sign(v) ELSE << >>) \o zeros \o digits

-----------------------------------------------------------------------------
(* Reading: jm_atoi, dec_to_signed and its kin, and jm_scan.               *)

Space == {32, 9, 10, 11, 12, 13}
Decimal == 48 .. 57
Hexadecimal == Decimal \cup (97 .. 102) \cup (65 .. 70)

After(t, k) == SubSeq(t, k + 1, Len(t))
\* How many characters at the front of t are in S.
Run(t, S) == Cardinality({i \in DOMAIN t : \A j \in 1 .. i : t[j] \in S})
StartsWith(t, S) == t # << >> /\ t[1] \in S

DigitOf(g) == IF g \in Decimal THEN g - 48 ELSE IF g >= 97 THEN g - 87 ELSE g - 55
ValueOf(glyphs, base) ==
  LET n[k \in 0 .. Len(glyphs)] ==
        IF k = 0 THEN 0 ELSE (n[k - 1] * base + DigitOf(glyphs[k])) % Word
  IN n[Len(glyphs)]

\* What is read at the front of t, which begins behind its spaces: the value,
\* and how many characters that takes, 0 when there are no digits.
Number(t, base, signed, glyphs) ==
  LET sign == IF signed /\ StartsWith(t, {43, 45}) THEN 1 ELSE 0
      prefix == IF base = 16 /\ Len(t) > sign + 1 /\ t[sign + 1] = 48
                   /\ t[sign + 2] = 120 THEN 2 ELSE 0
      body == After(t, sign + prefix)
      value == ValueOf(SubSeq(body, 1, Run(body, glyphs)), base)
  IN [used |-> IF Run(body, glyphs) = 0 THEN 0 ELSE sign + prefix + Run(body, glyphs),
      value |-> IF sign = 1 /\ t[1] = 45 THEN -value ELSE value]

\* dec_to_signed, dec_to_unsigned, hex_to_unsigned on a text with spaces before
\* the number; out keeps its value, here 0, when nothing is read.
Read(letter, t) ==
  LET spaces == Run(t, Space)
      n == Number(After(t, spaces), IF letter \in {"d", "u"} THEN 10 ELSE 16,
                  letter = "d", IF letter \in {"d", "u"} THEN Decimal ELSE Hexadecimal)
  IN [used |-> IF n.used = 0 THEN 0 ELSE spaces + n.used,
      value |-> IF n.used = 0 THEN 0
                ELSE IF letter = "d" THEN Signed(n.value) ELSE Unsigned(n.value)]

\* The values an argument of a conversion has.
Value(c) == IF c.letter = "d" THEN (-Half) .. (Half - 1) ELSE 0 .. (Word - 1)

\* jm_atoi: the same with blanks of its own, and 0 for no digits.
Atoi(t) == Signed(Number(After(t, Run(t, {32, 10, 9, 8})), 10, TRUE, Decimal).value)

=============================================================================
