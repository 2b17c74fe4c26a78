----------------------------- MODULE MCValueText ----------------------------
(* ValueText for TLC: numbers of five bits and less, and a str of 3.        *)
EXTENDS ValueText

ModulusSmall == [byte |-> 8, short |-> 16, int |-> 32, long |-> 64]

Of(type, S) == {[type |-> type, v |-> v] : v \in S}

\* A float is refused, the texts of negative ints and of a long of 16 and more
\* do not fit or do not come back, and an empty string comes back as no value.
GivenSome ==
  Of("byte", {-4, 3}) \cup Of("short", {-8, 7}) \cup Of("int", {-16, -1, 0, 9, 15})
    \cup Of("long", {15, 31}) \cup Of("float", {1}) \cup Of("char", {65})
    \cup Of("boolean", {True, False}) \cup Of("string", {<< >>, <<45, 49>>})

\* Both letters of decimal and hexadecimal, with and without padding.
FormatSix ==
  {[letter |-> "d", zero |-> FALSE, width |-> 0],
   [letter |-> "d", zero |-> TRUE, width |-> 4],
   [letter |-> "u", zero |-> FALSE, width |-> 5],
   [letter |-> "x", zero |-> TRUE, width |-> 3],
   [letter |-> "x", zero |-> FALSE, width |-> 0],
   [letter |-> "X", zero |-> FALSE, width |-> 0]}

\* What the array held before: zeros, digits, and an x behind a text of one.
HeldThree ==
  {[i \in 1 .. 9 |-> 0], [i \in 1 .. 9 |-> 55],
   [i \in 1 .. 9 |-> IF i = 3 THEN 120 ELSE 97]}

=============================================================================
