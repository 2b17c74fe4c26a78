------------------------------ MODULE ValueText -----------------------------
(***************************************************************************)
(* Values written as text into an array of characters and read out of it   *)
(* again: by jm_print, jm_sprintf and jm_scan of jm_stdcimpl.c, which the  *)
(* rest of the repository does not call, and by _kv_getStrVal and          *)
(* _kv_getResult of jm_client.c.  The array is where it is in memory: it   *)
(* holds what was there before, and texts end at a NUL only if one is      *)
(* written.                                                                *)
(*                                                                         *)
(* The text that _kv_getStrVal makes for kv_add and kv_update does not get *)
(* to the server: client_invokeRpc encodes the first of its parameters,    *)
(* the name.  Here it is taken from where it was made.                     *)
(***************************************************************************)
EXTENDS NumText

CONSTANTS
  Held,      \* what the memory from the array on may hold before
  StrSize,   \* characters of the array str of kv_add and kv_update
  Modulus,   \* 2^8, 2^16, 2^32 and 2^64: how many values a number type has
  Given,     \* values kv_add and kv_update are called with: type and value
  Nothing,   \* nothing was read yet
  MaxTexts   \* bound of the model: texts written one over the other

Numeric == {"byte", "short", "int", "long"}
Types == Numeric \cup {"string", "boolean", "char"}

ASSUME ValueTextAssumption ==
  /\ Held \subseteq Seq(Int)
  /\ StrSize \in Nat /\ MaxTexts \in Nat
  /\ Numeric \subseteq DOMAIN Modulus
  /\ \A t \in Numeric : Modulus[t] \in Nat /\ Modulus[t] % 2 = 0
  /\ \A w \in Given : /\ w.type \in Numeric \cup {"char"} => w.v \in Int
                      /\ w.type \in {"boolean", "string"} => w.v \in Seq(1 .. 255)

VARIABLES
  array,     \* the characters in memory from the array on
  written,   \* who wrote the last text, and what of
  got,       \* what was read out of it
  texts      \* how many were written

vars == <<array, written, got, texts>>

-----------------------------------------------------------------------------
(* Values and texts.  A boolean is passed to kv_add as the text 0 or 1.    *)

False == <<48>>
True == <<49>>

\* _kv_getStrVal, and the string that stands for itself.
StrValTextAsIs(w) ==                   \* deviation: a boolean is not turned round
  Append(IF w.type \in Numeric THEN Itoa(Unsigned(w.v))
         ELSE IF w.type = "char" THEN <<w.v>> ELSE w.v, 0)
StrVal(w) ==
  Append(CASE w.type \in Numeric -> Itoa(Unsigned(w.v))
           [] w.type = "boolean" -> IF w.v # False THEN <<48>> ELSE <<49>>
           [] w.type = "char" -> <<w.v>>
           [] w.type = "string" -> w.v, 0)

\* A C string: the characters in front of the first NUL.
CString(t) == SubSeq(t, 1, Run(t, 1 .. 255))

Wrapped(n, m) == IF n % m >= m \div 2 THEN (n % m) - m ELSE n % m

\* _kv_getResult: the value a text of a type stands for, none if it is empty.
OfText(type, text) ==
  CASE text = << >> -> Nothing
    [] type \in Numeric -> Wrapped(Atoi(text), Modulus[type])
    [] type = "boolean" -> IF text = <<49>> THEN False ELSE True
    [] type = "char" -> text[1]
    [] type = "string" -> text

-----------------------------------------------------------------------------
Init ==
  /\ array \in Held
  /\ written = [by |-> "nobody", of |-> Nothing, value |-> Nothing]
  /\ got = Nothing
  /\ texts = 0

\* A text comes to stand at the front of the array, and behind it stays what
\* was there.  The memory the model looks at is longer than any text.
Write(text, by, of, value) ==
  /\ texts < MaxTexts /\ texts' = texts + 1
  /\ Len(text) < Len(array)
  /\ array' = text \o After(array, Len(text))
  /\ written' = [by |-> by, of |-> of, value |-> value]
  /\ got' = Nothing

PrintValue(c, v) == Write(Printed(c, v, Size), "jm_print", c, v)
SprintValue(c, v) == Sprints(c) /\ Write(Sprintf(c, v), "jm_sprintf", c, v)
WriteStrVal(w) == w.type \in Types /\ Write(StrVal(w), "_kv_getStrVal", w.type, w.v)

Scan ==
  /\ written.by \in {"jm_print", "jm_sprintf"}
  /\ got' = Read(written.of.letter, array)
  /\ UNCHANGED <<array, written, texts>>

ReadResult ==
  /\ written.by = "_kv_getStrVal"
  /\ got' = OfText(written.of, CString(array))
  /\ UNCHANGED <<array, written, texts>>

Next ==
  \/ \E c \in Format : \E v \in Value(c) : PrintValue(c, v) \/ SprintValue(c, v)
  \/ \E w \in Given : WriteStrVal(w)
  \/ Scan
  \/ ReadResult

Spec == Init /\ [][Next]_vars

-----------------------------------------------------------------------------

\* What jm_print does not write so that it can be read: a text that was cut
\* short, the smallest int, and a negative number padded with zeros, whose sign
\* stands behind the zeros.
Unreadable(c, v) ==
  \/ Len(ArgText(c, v)) + 2 > Size
  \/ c.letter = "d" /\ v < 0 /\ (c.zero \/ v = -Half)

\* The text of jm_sprintf ends where what was there before goes on as a number.
RunsOn(c, v) ==
  StartsWith(After(array, Len(Sprintf(c, v))),
             IF c.letter = "d" THEN Decimal ELSE Hexadecimal \cup {120})

\* What jm_print and jm_sprintf write jm_scan reads back, to the end of the text
\* and no further, in decimal and hexadecimal and whatever the array held before
\* (jm_stdcimpl.c:56, :520, :825); jm_sprintf, which writes no NUL, as long as
\* no digit, and no x, follows from before.
ReadsBack ==
  LET c == written.of
      v == written.value
  IN got # Nothing =>
       /\ written.by = "jm_print" /\ ~Unreadable(c, v)
            => got = [used |-> Len(ArgText(c, v)) + 1, value |-> v]
       /\ written.by = "jm_sprintf" /\ ~RunsOn(c, v)
            => got = [used |-> Len(Sprintf(c, v)), value |-> v]

\* A value of its type, and no long that an int could not hold.
OfItsType(type, v) ==
  CASE type \in Numeric -> /\ 2 * v \in (-Modulus[type]) .. (Modulus[type] - 1)
                           /\ v \in (-Half) .. (Half - 1)
    [] type = "boolean" -> v \in {False, True}
    [] type = "char" -> v \in 1 .. 255
    [] type = "string" -> v \in Seq(1 .. 255) /\ v # << >>

\* _kv_getResult makes the value and no other of the text that _kv_getStrVal
\* made of it, although that takes every number for unsigned and turns a boolean
\* round (jm_client.c:1676, :1784).
ValuesComeBack ==
  written.by = "_kv_getStrVal" /\ OfItsType(written.of, written.value) /\ got # Nothing
    => got = written.value

\* The text that kv_add and kv_update make of a number fits in str: the number is
\* not negative and has fewer than StrSize digits.  A string is not put there.
Fits(type, v) == type # "string" /\ Len(StrVal([type |-> type, v |-> v])) <= StrSize

\* Nothing is written behind the array: by jm_print never, however long the text
\* is, by _kv_getStrVal if it fits (jm_client.c:1733, jm_stdcimpl.c:844).
StaysInArray ==
  [][/\ written'.by = "jm_print" => After(array', Size) = After(array, Size)
     /\ written'.by = "_kv_getStrVal" /\ Fits(written'.of, written'.value)
          => After(array', StrSize) = After(array, StrSize)]_vars

=============================================================================
