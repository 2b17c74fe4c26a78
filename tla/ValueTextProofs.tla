-------------------------- MODULE ValueTextProofs ---------------------------
(***************************************************************************)
(* That what jm_print and jm_sprintf write jm_scan reads back, and         *)
(* _kv_getResult what _kv_getStrVal made, for any width of int and of the  *)
(* number types, any formats, values and arrays, and whatever these held.  *)
(***************************************************************************)
EXTENDS ValueText, FiniteSetTheorems, WellFoundedInduction, TLAPS

-----------------------------------------------------------------------------
(* Numbers as text                                                         *)

\* A set with 0 and every successor of its own numbers holds them all.
LEMMA EveryNumber ==
  ASSUME NEW S \in SUBSET Nat, 0 \in S, \A n \in S : n + 1 \in S
  PROVE  S = Nat
<1> DEFINE R == OpToRel(<, Nat)
           T == Nat \ S
<1>1. R = {r \in Nat \X Nat : r[1] < r[2]}
  BY DEF OpToRel
<1>2. IsWellFoundedOn(R, Nat)
  BY NatLessThanWellFounded
<1> HIDE DEF R
<1>3. SUFFICES ASSUME T # {} PROVE FALSE
  OBVIOUS
<1>4. PICK x \in T : \A y \in T : ~(<<y, x>> \in R)
  <2>1. T \subseteq Nat
    OBVIOUS
  <2> HIDE DEF T
  <2> QED
    BY <1>2, <1>3, <2>1, WFMin
<1>5. x \in Nat /\ x # 0 /\ x - 1 \in Nat /\ (x - 1) + 1 = x
  OBVIOUS
<1>6. x - 1 \notin S
  BY <1>5
<1>7. <<x - 1, x>> \in Nat \X Nat /\ <<x - 1, x>>[1] = x - 1 /\ <<x - 1, x>>[2] = x
  BY <1>5
<1> QED
  BY <1>1, <1>4, <1>5, <1>6, <1>7

\* What two sequences make, and one with an element more.
LEMMA Joined ==
  ASSUME NEW S, NEW s \in Seq(S), NEW t \in Seq(S)
  PROVE  /\ s \o t \in Seq(S) /\ Len(s \o t) = Len(s) + Len(t)
         /\ Len(s) \in Nat /\ Len(t) \in Nat
         /\ \A i \in 1 .. Len(s) : (s \o t)[i] = s[i]
         /\ \A i \in 1 .. Len(t) : (s \o t)[Len(s) + i] = t[i]
OBVIOUS

LEMMA Longer ==
  ASSUME NEW S, NEW s \in Seq(S), NEW x \in S
  PROVE  /\ Append(s, x) \in Seq(S) /\ Len(Append(s, x)) = Len(s) + 1
         /\ Len(s) \in Nat /\ Append(s, x)[Len(s) + 1] = x
         /\ \A i \in 1 .. Len(s) : Append(s, x)[i] = s[i]
OBVIOUS

LEMMA SameSequence ==
  ASSUME NEW S, NEW s \in Seq(S), NEW t \in Seq(S), Len(s) = Len(t),
         \A i \in 1 .. Len(s) : s[i] = t[i]
  PROVE  s = t
OBVIOUS

\* An element behind the second of two sequences is behind both.
LEMMA JoinedLonger ==
  ASSUME NEW S, NEW s \in Seq(S), NEW t \in Seq(S), NEW x \in S
  PROVE  s \o Append(t, x) = Append(s \o t, x)
<1> DEFINE a == Append(t, x)
           j == s \o t
           l == s \o a
           m == Append(j, x)
<1>1. /\ a \in Seq(S) /\ Len(a) = Len(t) + 1 /\ Len(t) \in Nat /\ a[Len(t) + 1] = x
      /\ \A i \in 1 .. Len(t) : a[i] = t[i]
  BY Longer
<1>2. /\ j \in Seq(S) /\ Len(j) = Len(s) + Len(t) /\ Len(s) \in Nat
      /\ \A i \in 1 .. Len(s) : j[i] = s[i]
      /\ \A i \in 1 .. Len(t) : j[Len(s) + i] = t[i]
  BY Joined
<1> HIDE DEF a, j
<1>3. /\ l \in Seq(S) /\ Len(l) = Len(s) + Len(a)
      /\ \A i \in 1 .. Len(s) : l[i] = s[i]
      /\ \A i \in 1 .. Len(a) : l[Len(s) + i] = a[i]
  <2>1. a \in Seq(S)
    BY <1>1
  <2>2. l \in Seq(S) /\ Len(l) = Len(s) + Len(a)
    BY <2>1, Joined
  <2>3. \A i \in 1 .. Len(s) : l[i] = s[i]
    BY <2>1, Joined
  <2>4. \A i \in 1 .. Len(a) : l[Len(s) + i] = a[i]
    BY <2>1, Joined
  <2> QED
    BY <2>2, <2>3, <2>4
<1>4. /\ m \in Seq(S) /\ Len(m) = Len(j) + 1 /\ m[Len(j) + 1] = x
      /\ \A i \in 1 .. Len(j) : m[i] = j[i]
  BY <1>2, Longer
<1> HIDE DEF l, m
<1>5. ASSUME NEW i \in 1 .. Len(l) PROVE l[i] = m[i]
  <2>1. CASE i <= Len(s)
    <3>1. i \in 1 .. Len(s) /\ i \in 1 .. Len(j)
      BY <1>1, <1>2, <1>3, <2>1
    <3>2. l[i] = s[i] /\ j[i] = s[i] /\ m[i] = j[i]
      BY <1>2, <1>3, <1>4, <3>1
    <3> QED
      BY <3>2
  <2>2. CASE i > Len(s) /\ i < Len(l)
    <3>1. PICK k \in 1 .. Len(t) : i = Len(s) + k
      <4>1. i - Len(s) \in 1 .. Len(t) /\ i = Len(s) + (i - Len(s))
        BY <1>1, <1>2, <1>3, <2>2
      <4> QED
        BY <4>1
    <3>2. k \in 1 .. Len(a) /\ i \in 1 .. Len(j)
      BY <1>1, <1>2, <3>1
    <3> QED
      BY <1>1, <1>2, <1>3, <1>4, <3>1, <3>2
  <2>3. CASE i = Len(l)
    <3>1. Len(a) \in 1 .. Len(a) /\ i = Len(s) + Len(a) /\ i = Len(j) + 1
      BY <1>1, <1>2, <1>3, <2>3
    <3> QED
      BY <1>1, <1>3, <1>4, <3>1
  <2>4. i \in Int /\ Len(s) \in Int /\ i <= Len(l)
    BY <1>1, <1>2, <1>3
  <2> QED
    BY <2>1, <2>2, <2>3, <2>4
<1>6. Len(l) = Len(m)
  BY <1>1, <1>2, <1>3, <1>4
<1>7. l = m
  BY <1>3, <1>4, <1>5, <1>6, SameSequence
<1> QED
  BY <1>7 DEF a, j, l, m

Bases == {10, 16}
DigitIn(b) == 0 .. (b - 1)
Glyphs(b) == IF b = 10 THEN Decimal ELSE Hexadecimal

\* The tenth, or sixteenth, of a number is less.
LEMMA Quotient ==
  ASSUME NEW b \in Bases, NEW k \in Nat
  PROVE  /\ b \in Nat /\ b > 1 /\ k \div b \in Nat /\ k % b \in DigitIn(b)
         /\ (k \div b) * b + (k % b) = k
         /\ k >= b => k \div b < k
<1>1. /\ k \div 10 \in Nat /\ k % 10 \in 0 .. 9 /\ (k \div 10) * 10 + (k % 10) = k
      /\ k >= 10 => k \div 10 < k
  OBVIOUS
<1>2. /\ k \div 16 \in Nat /\ k % 16 \in 0 .. 15 /\ (k \div 16) * 16 + (k % 16) = k
      /\ k >= 16 => k \div 16 < k
  OBVIOUS
<1>3. DigitIn(10) = 0 .. 9 /\ DigitIn(16) = 0 .. 15
  BY DEF DigitIn
<1>4. CASE b = 10
  BY <1>1, <1>3, <1>4
<1>5. CASE b = 16
  BY <1>2, <1>3, <1>5
<1> QED
  BY <1>4, <1>5 DEF Bases

\* The digits of a number, from those of its quotient by the base.
LEMMA DigitsIs ==
  ASSUME NEW n \in Nat, NEW b \in Bases
  PROVE  \E d : /\ d = [k \in 0 .. n |-> IF k < b THEN <<k>>
                                         ELSE Append(d[k \div b], k % b)]
                /\ Digits(n, b) = d[n]
<1> DEFINE Turn(f, k) == IF k < b THEN <<k>> ELSE Append(f[k \div b], k % b)
           S == {m \in Nat : \E f : f = [k \in 0 .. m |-> Turn(f, k)]}
<1>0. b \in Nat /\ b > 1
  BY Quotient
<1>1. 0 \in S
  <2> DEFINE f == [k \in 0 .. 0 |-> <<k>>]
  <2>1. f = [k \in 0 .. 0 |-> Turn(f, k)]
    BY <1>0
  <2> QED
    BY <2>1
<1>2. ASSUME NEW m \in S PROVE m + 1 \in S
  <2>1. PICK f : f = [k \in 0 .. m |-> Turn(f, k)]
    OBVIOUS
  <2> DEFINE g == [k \in 0 .. (m + 1) |-> IF k = m + 1 THEN Turn(f, m + 1) ELSE f[k]]
  <2>2. \A k \in 0 .. (m + 1) : k # m + 1 => k \in 0 .. m
    OBVIOUS
  <2>3. \A k \in 0 .. m : f[k] = Turn(f, k)
    BY <2>1
  <2>4. ASSUME NEW k \in 0 .. (m + 1), ~(k < b) PROVE g[k \div b] = f[k \div b]
    <3>1. k \div b \in 0 .. (m + 1) /\ k \div b # m + 1
      <4>1. k \in Nat /\ k >= b
        BY <1>0, <2>4
      <4>2. k \div b \in Nat /\ k \div b < k
        BY <4>1, Quotient
      <4> QED
        BY <4>2
    <3> QED
      BY <3>1
  <2>5. ASSUME NEW k \in 0 .. (m + 1) PROVE g[k] = Turn(g, k)
    <3>1. g[k] = Turn(f, k)
      BY <2>2, <2>3
    <3>2. CASE k < b
      BY <3>1, <3>2
    <3>3. CASE ~(k < b)
      BY <2>4, <3>1, <3>3
    <3> QED
      BY <3>2, <3>3
  <2>6. g = [k \in 0 .. (m + 1) |-> Turn(g, k)]
    BY <2>5
  <2> HIDE DEF g, Turn
  <2>7. \E h : h = [k \in 0 .. (m + 1) |-> Turn(h, k)]
    BY <2>6
  <2> QED
    BY <2>7
<1>3. S = Nat
  <2>1. S \in SUBSET Nat
    OBVIOUS
  <2> HIDE DEF S
  <2> QED
    BY <1>1, <1>2, <2>1, EveryNumber
<1>4. \E h : h = [k \in 0 .. n |-> Turn(h, k)]
  BY <1>3
<1> QED
  BY <1>4 DEF Digits

\* The number that digits make, one digit after the other.
LEMMA ValueIs ==
  ASSUME NEW t \in Seq(Hexadecimal), NEW b \in Bases
  PROVE  \E f : /\ f = [k \in 0 .. Len(t) |->
                          IF k = 0 THEN 0 ELSE (f[k - 1] * b + DigitOf(t[k])) % Word]
                /\ ValueOf(t, b) = f[Len(t)]
<1> DEFINE Turn(f, k) == IF k = 0 THEN 0 ELSE (f[k - 1] * b + DigitOf(t[k])) % Word
           S == {m \in Nat : \E f : f = [k \in 0 .. m |-> Turn(f, k)]}
<1>1. 0 \in S
  <2> DEFINE f == [k \in 0 .. 0 |-> 0]
  <2>1. f = [k \in 0 .. 0 |-> Turn(f, k)]
    OBVIOUS
  <2> QED
    BY <2>1
<1>2. ASSUME NEW m \in S PROVE m + 1 \in S
  <2>1. PICK f : f = [k \in 0 .. m |-> Turn(f, k)]
    OBVIOUS
  <2> DEFINE g == [k \in 0 .. (m + 1) |-> IF k = m + 1 THEN Turn(f, m + 1) ELSE f[k]]
  <2>2. \A k \in 0 .. (m + 1) : k # m + 1 => k \in 0 .. m
    OBVIOUS
  <2>3. \A k \in 0 .. m : f[k] = Turn(f, k)
    BY <2>1
  <2>4. \A k \in 0 .. (m + 1) : k # 0 => g[k - 1] = f[k - 1]
    OBVIOUS
  <2>5. \A k \in 0 .. (m + 1) : g[k] = Turn(g, k)
    BY <2>2, <2>3, <2>4
  <2>6. g = [k \in 0 .. (m + 1) |-> Turn(g, k)]
    BY <2>5
  <2> HIDE DEF g, Turn
  <2>7. \E h : h = [k \in 0 .. (m + 1) |-> Turn(h, k)]
    BY <2>6
  <2> QED
    BY <2>7
<1>3. S = Nat
  <2>1. S \in SUBSET Nat
    OBVIOUS
  <2> HIDE DEF S
  <2> QED
    BY <1>1, <1>2, <2>1, EveryNumber
<1>4. Len(t) \in Nat
  OBVIOUS
<1>5. \E h : h = [k \in 0 .. Len(t) |-> Turn(h, k)]
  BY <1>3, <1>4
<1> QED
  BY <1>5 DEF ValueOf

\* One digit more.
LEMMA ValueAppended ==
  ASSUME NEW t \in Seq(Hexadecimal), NEW g \in Hexadecimal, NEW b \in Bases
  PROVE  ValueOf(Append(t, g), b) = (ValueOf(t, b) * b + DigitOf(g)) % Word
<1> DEFINE u == Append(t, g)
           n == Len(t)
<1>1. /\ u \in Seq(Hexadecimal) /\ Len(u) = n + 1 /\ n \in Nat
      /\ u[n + 1] = g /\ \A k \in 1 .. n : u[k] = t[k]
  OBVIOUS
<1> HIDE DEF u
<1>2. PICK e : /\ e = [k \in 0 .. n |->
                        IF k = 0 THEN 0 ELSE (e[k - 1] * b + DigitOf(t[k])) % Word]
               /\ ValueOf(t, b) = e[n]
  BY ValueIs
<1>3. PICK f : /\ f = [k \in 0 .. Len(u) |->
                        IF k = 0 THEN 0 ELSE (f[k - 1] * b + DigitOf(u[k])) % Word]
               /\ ValueOf(u, b) = f[Len(u)]
  BY <1>1, ValueIs
<1>4. e[0] = 0 /\ \A k \in 1 .. n : e[k] = (e[k - 1] * b + DigitOf(t[k])) % Word
  <2>1. \A k \in 0 .. n : e[k] = IF k = 0 THEN 0
                                 ELSE (e[k - 1] * b + DigitOf(t[k])) % Word
    BY <1>2
  <2>2. 0 \in 0 .. n /\ \A k \in 1 .. n : k \in 0 .. n /\ k # 0
    BY <1>1
  <2> QED
    BY <2>1, <2>2
<1>5. f[0] = 0 /\ \A k \in 1 .. (n + 1) : f[k] = (f[k - 1] * b + DigitOf(u[k])) % Word
  <2>1. \A k \in 0 .. (n + 1) : f[k] = IF k = 0 THEN 0
                                       ELSE (f[k - 1] * b + DigitOf(u[k])) % Word
    BY <1>1, <1>3
  <2>2. 0 \in 0 .. (n + 1) /\ \A k \in 1 .. (n + 1) : k \in 0 .. (n + 1) /\ k # 0
    BY <1>1
  <2> QED
    BY <2>1, <2>2
<1> DEFINE S == {k \in Nat : k <= n => f[k] = e[k]}
<1>6. 0 \in S
  BY <1>4, <1>5
<1>7. ASSUME NEW k \in S PROVE k + 1 \in S
  <2> SUFFICES ASSUME k + 1 <= n PROVE f[k + 1] = e[k + 1]
    OBVIOUS
  <2>1. k + 1 \in 1 .. n /\ k + 1 \in 1 .. (n + 1) /\ (k + 1) - 1 = k /\ k <= n
    BY <1>1
  <2>2. f[k] = e[k] /\ u[k + 1] = t[k + 1]
    BY <1>1, <2>1
  <2> QED
    BY <1>4, <1>5, <2>1, <2>2
<1>8. S = Nat
  <2>1. S \in SUBSET Nat
    OBVIOUS
  <2> HIDE DEF S
  <2> QED
    BY <1>6, <1>7, <2>1, EveryNumber
<1>9. f[n] = e[n]
  BY <1>1, <1>8
<1>10. f[n + 1] = (f[n] * b + DigitOf(u[n + 1])) % Word
  <2>1. n + 1 \in 1 .. (n + 1) /\ (n + 1) - 1 = n
    BY <1>1
  <2> QED
    BY <1>5, <2>1
<1> QED
  BY <1>1, <1>2, <1>3, <1>9, <1>10 DEF u

Zeros(z) == [i \in 1 .. z |-> 48]

\* Zeros are worth nothing.
LEMMA ValueOfZeros ==
  ASSUME NEW z \in Nat, NEW b \in Bases
  PROVE  Zeros(z) \in Seq(Decimal) /\ Len(Zeros(z)) = z /\ ValueOf(Zeros(z), b) = 0
<1>1. 48 \in Decimal /\ 48 \in Hexadecimal /\ DigitOf(48) = 0
  BY DEF Decimal, Hexadecimal, DigitOf
<1>2. \A m \in Nat : /\ Zeros(m) \in Seq(Decimal) /\ Zeros(m) \in Seq(Hexadecimal)
                     /\ Len(Zeros(m)) = m
  BY <1>1 DEF Zeros
<1> DEFINE S == {m \in Nat : ValueOf(Zeros(m), b) = 0}
<1>3. 0 \in S
  <2>1. Zeros(0) \in Seq(Hexadecimal) /\ Len(Zeros(0)) = 0
    BY <1>2
  <2>2. PICK f : /\ f = [k \in 0 .. Len(Zeros(0)) |->
                          IF k = 0 THEN 0
                          ELSE (f[k - 1] * b + DigitOf(Zeros(0)[k])) % Word]
                 /\ ValueOf(Zeros(0), b) = f[Len(Zeros(0))]
    BY <2>1, ValueIs
  <2>3. 0 \in 0 .. Len(Zeros(0))
    BY <2>1
  <2> QED
    BY <2>1, <2>2, <2>3
<1>4. ASSUME NEW m \in S PROVE m + 1 \in S
  <2>1. Zeros(m + 1) = Append(Zeros(m), 48)
    <3>1. /\ Append(Zeros(m), 48) \in Seq(Decimal)
          /\ Len(Append(Zeros(m), 48)) = m + 1
          /\ \A i \in 1 .. (m + 1) : Append(Zeros(m), 48)[i] = 48
      <4> DEFINE a == Append(Zeros(m), 48)
      <4>1. /\ a \in Seq(Decimal) /\ Len(a) = m + 1 /\ a[m + 1] = 48
            /\ \A i \in 1 .. m : a[i] = Zeros(m)[i]
        <5>1. Zeros(m) \in Seq(Decimal) /\ Len(Zeros(m)) = m
          BY <1>2
        <5> QED
          BY <1>1, <5>1, Longer
      <4>2. \A i \in 1 .. m : Zeros(m)[i] = 48
        BY DEF Zeros
      <4>3. \A i \in 1 .. (m + 1) : i = m + 1 \/ i \in 1 .. m
        OBVIOUS
      <4> QED
        BY <4>1, <4>2, <4>3
    <3>2. /\ Zeros(m + 1) \in Seq(Decimal) /\ Len(Zeros(m + 1)) = m + 1
          /\ \A i \in 1 .. (m + 1) : Zeros(m + 1)[i] = 48
      <4>1. m + 1 \in Nat
        OBVIOUS
      <4> QED
        BY <1>2, <4>1 DEF Zeros
    <3> QED
      BY <3>1, <3>2
  <2>2. ValueOf(Zeros(m + 1), b) = (0 * b + 0) % Word
    BY <1>1, <1>2, <2>1, ValueAppended
  <2>3. b \in Nat /\ Word \in Nat /\ Word > 0
    BY Quotient, WordAssumption
  <2>4. (0 * b + 0) % Word = 0
    BY <2>3
  <2> QED
    BY <2>2, <2>4
<1>5. S = Nat
  <2>1. S \in SUBSET Nat
    OBVIOUS
  <2> HIDE DEF S
  <2> QED
    BY <1>3, <1>4, <2>1, EveryNumber
<1> QED
  BY <1>2, <1>5

\* The characters of digits, and of one digit more.
LEMMA GlyphIs ==
  ASSUME NEW b \in Bases, NEW x \in DigitIn(b), NEW upper \in BOOLEAN
  PROVE  /\ Glyph(x, upper) \in Glyphs(b) /\ Glyph(x, upper) \in Hexadecimal
         /\ DigitOf(Glyph(x, upper)) = x
<1>1. x \in Int /\ x >= 0 /\ x < 16 /\ (b = 10 => x < 10)
  BY DEF Bases, DigitIn
<1>2. CASE x < 10
  <2>1. Glyph(x, upper) = 48 + x /\ 48 + x \in Decimal
    BY <1>1, <1>2 DEF Glyph, Decimal
  <2>2. DigitOf(48 + x) = x
    BY <1>1, <2>1 DEF DigitOf
  <2> QED
    BY <2>1, <2>2 DEF Glyphs, Hexadecimal
<1>3. CASE x >= 10
  <2>1. b = 16
    BY <1>1, <1>3 DEF Bases
  <2>2. CASE upper
    <3>1. Glyph(x, upper) = 55 + x /\ 55 + x \in 65 .. 70
      BY <1>1, <1>3, <2>2 DEF Glyph
    <3>2. DigitOf(55 + x) = x
      BY <1>1, <3>1 DEF DigitOf, Decimal
    <3> QED
      BY <2>1, <3>1, <3>2 DEF Glyphs, Hexadecimal
  <2>3. CASE ~upper
    <3>1. Glyph(x, upper) = 87 + x /\ 87 + x \in 97 .. 102
      BY <1>1, <1>3, <2>3 DEF Glyph
    <3>2. DigitOf(87 + x) = x
      BY <1>1, <3>1 DEF DigitOf, Decimal
    <3> QED
      BY <2>1, <3>1, <3>2 DEF Glyphs, Hexadecimal
  <2> QED
    BY <2>2, <2>3
<1> QED
  BY <1>1, <1>2, <1>3

LEMMA WrittenIs ==
  ASSUME NEW b \in Bases, NEW s \in Seq(DigitIn(b)), NEW upper \in BOOLEAN
  PROVE  /\ Written(s, upper) \in Seq(Glyphs(b)) /\ Len(Written(s, upper)) = Len(s)
         /\ Written(s, upper) \in Seq(Hexadecimal)
         /\ \A i \in 1 .. Len(s) : Written(s, upper)[i] = Glyph(s[i], upper)
<1>1. Len(s) \in Nat /\ \A i \in 1 .. Len(s) : s[i] \in DigitIn(b)
  OBVIOUS
<1>2. \A i \in 1 .. Len(s) : /\ Glyph(s[i], upper) \in Glyphs(b)
                             /\ Glyph(s[i], upper) \in Hexadecimal
  BY <1>1, GlyphIs
<1>3. Written(s, upper) = [i \in 1 .. Len(s) |-> Glyph(s[i], upper)]
  BY DEF Written
<1>4. /\ [i \in 1 .. Len(s) |-> Glyph(s[i], upper)] \in Seq(Glyphs(b))
      /\ [i \in 1 .. Len(s) |-> Glyph(s[i], upper)] \in Seq(Hexadecimal)
      /\ Len([i \in 1 .. Len(s) |-> Glyph(s[i], upper)]) = Len(s)
  BY <1>1, <1>2
<1> QED
  BY <1>3, <1>4

\* Behind any zeros z, the digits of a number make it, whatever its base.
LEMMA DigitsRead ==
  ASSUME NEW n \in 0 .. (Word - 1), NEW b \in Bases, NEW upper \in BOOLEAN,
         NEW z \in Nat
  PROVE  /\ Digits(n, b) \in Seq(DigitIn(b)) /\ Len(Digits(n, b)) > 0
         /\ ValueOf(Zeros(z) \o Written(Digits(n, b), upper), b) = n
<1>1. n \in Nat /\ n < Word /\ Word \in Nat /\ b \in Nat /\ b > 1
  BY WordAssumption, Quotient
<1>2. PICK d : /\ d = [k \in 0 .. n |-> IF k < b THEN <<k>>
                                        ELSE Append(d[k \div b], k % b)]
               /\ Digits(n, b) = d[n]
  BY <1>1, DigitsIs
<1>3. \A k \in 0 .. n : d[k] = IF k < b THEN <<k>> ELSE Append(d[k \div b], k % b)
  BY <1>2
<1> DEFINE Z == Zeros(z)
           Good(k) == /\ d[k] \in Seq(DigitIn(b)) /\ Len(d[k]) > 0
                      /\ ValueOf(Z \o Written(d[k], upper), b) = k
           S == {m \in Nat : \A k \in 0 .. m : k <= n => Good(k)}
<1>z. Z \in Seq(Hexadecimal) /\ Len(Z) = z /\ ValueOf(Z, b) = 0
  <2>1. Decimal \subseteq Hexadecimal
    BY DEF Hexadecimal
  <2>2. Z \in Seq(Decimal) /\ Len(Z) = z /\ ValueOf(Z, b) = 0
    BY ValueOfZeros
  <2> HIDE DEF Z
  <2> QED
    BY <2>1, <2>2
<1> HIDE DEF Z
<1>4. ASSUME NEW k \in 0 .. n, k < b PROVE Good(k)
  <2>1. d[k] = <<k>>
    BY <1>3, <1>4
  <2>2. k \in DigitIn(b) /\ k % Word = k
    BY <1>1, <1>4 DEF DigitIn
  <2> DEFINE g == Glyph(k, upper)
             s == <<k>>
             w == Written(s, upper)
  <2>3. s \in Seq(DigitIn(b)) /\ Len(s) = 1 /\ s[1] = k
    BY <2>2
  <2> HIDE DEF s
  <2>4. w \in Seq(Hexadecimal) /\ Len(w) = 1 /\ w[1] = g
    <3>1. /\ w \in Seq(Hexadecimal) /\ Len(w) = Len(s)
          /\ \A i \in 1 .. Len(s) : w[i] = Glyph(s[i], upper)
      BY <2>3, WrittenIs
    <3>2. 1 \in 1 .. Len(s)
      BY <2>3
    <3> QED
      BY <2>3, <3>1, <3>2
  <2>5. g \in Hexadecimal /\ DigitOf(g) = k
    BY <2>2, GlyphIs
  <2> HIDE DEF w, g
  <2>6. Z \o w = Append(Z, g)
    <3> DEFINE l == Z \o w
               m == Append(Z, g)
    <3>1. /\ l \in Seq(Hexadecimal) /\ Len(l) = z + 1
          /\ \A i \in 1 .. z : l[i] = Z[i]
          /\ \A i \in 1 .. 1 : l[z + i] = w[i]
      <4>1. Z \in Seq(Hexadecimal) /\ w \in Seq(Hexadecimal)
        BY <1>z, <2>4
      <4>2. /\ l \in Seq(Hexadecimal) /\ Len(l) = Len(Z) + Len(w)
            /\ \A i \in 1 .. Len(Z) : l[i] = Z[i]
            /\ \A i \in 1 .. Len(w) : l[Len(Z) + i] = w[i]
        <5>1. l \in Seq(Hexadecimal) /\ Len(l) = Len(Z) + Len(w)
          BY <4>1, Joined
        <5>2. \A i \in 1 .. Len(Z) : l[i] = Z[i]
          BY <4>1, Joined
        <5>3. \A i \in 1 .. Len(w) : l[Len(Z) + i] = w[i]
          BY <4>1, Joined
        <5> QED
          BY <5>1, <5>2, <5>3
      <4> QED
        BY <1>z, <2>4, <4>2
    <3>2. /\ m \in Seq(Hexadecimal) /\ Len(m) = z + 1 /\ m[z + 1] = g
          /\ \A i \in 1 .. z : m[i] = Z[i]
      BY <1>z, <2>5, Longer
    <3> HIDE DEF l, m
    <3>3. l[z + 1] = g
      BY <2>4, <3>1
    <3>4. \A i \in 1 .. Len(l) : l[i] = m[i]
      BY <3>1, <3>2, <3>3
    <3> QED
      BY <3>1, <3>2, <3>4, SameSequence DEF l, m
  <2>7. ValueOf(Append(Z, g), b) = (0 * b + k) % Word
    BY <1>z, <2>5, ValueAppended
  <2>8. 0 * b + k = k
    BY <1>1
  <2>9. ValueOf(Z \o w, b) = k
    BY <2>2, <2>6, <2>7, <2>8
  <2>10. d[k] = s /\ Len(s) > 0
    BY <2>1, <2>3 DEF s
  <2> QED
    BY <2>3, <2>9, <2>10 DEF w
<1>5. ASSUME NEW k \in 0 .. n, ~(k < b), Good(k \div b) PROVE Good(k)
  <2> DEFINE q == k \div b
             r == k % b
             s == d[q]
             g == Glyph(r, upper)
             w == Written(s, upper)
             a == Append(s, r)
             x == Written(a, upper)
  <2>1. d[k] = a
    BY <1>3, <1>5
  <2>2. k \in Nat /\ k < Word
    BY <1>1
  <2>3. q \in Nat /\ r \in DigitIn(b) /\ q * b + r = k
    <3>1. k \div b \in Nat /\ k % b \in DigitIn(b) /\ (k \div b) * b + (k % b) = k
      BY <2>2, Quotient
    <3> QED
      BY <3>1
  <2>4. s \in Seq(DigitIn(b)) /\ Len(s) > 0 /\ ValueOf(Z \o w, b) = q
    BY <1>5
  <2> HIDE DEF q, r, s
  <2>5. g \in Hexadecimal /\ DigitOf(g) = r
    BY <2>3, GlyphIs
  <2>6. /\ a \in Seq(DigitIn(b)) /\ Len(a) = Len(s) + 1 /\ Len(s) \in Nat
        /\ a[Len(s) + 1] = r /\ \A i \in 1 .. Len(s) : a[i] = s[i]
    BY <2>3, <2>4
  <2>7. /\ w \in Seq(Hexadecimal) /\ Len(w) = Len(s)
        /\ \A i \in 1 .. Len(s) : w[i] = Glyph(s[i], upper)
    BY <2>4, WrittenIs
  <2> HIDE DEF a
  <2>8. /\ x \in Seq(Hexadecimal) /\ Len(x) = Len(s) + 1
        /\ \A i \in 1 .. (Len(s) + 1) : x[i] = Glyph(a[i], upper)
    BY <2>6, WrittenIs
  <2>9. x[Len(s) + 1] = g /\ \A i \in 1 .. Len(s) : x[i] = w[i]
    <3>1. Len(s) + 1 \in 1 .. (Len(s) + 1)
      BY <2>6
    <3>2. \A i \in 1 .. Len(s) : i \in 1 .. (Len(s) + 1)
      BY <2>6
    <3> QED
      BY <2>6, <2>7, <2>8, <3>1, <3>2
  <2>10. x = Append(w, g) /\ Z \o x = Append(Z \o w, g)
    <3> HIDE DEF w, x, g
    <3>1. /\ Append(w, g) \in Seq(Hexadecimal) /\ Len(Append(w, g)) = Len(s) + 1
          /\ Append(w, g)[Len(s) + 1] = g
          /\ \A i \in 1 .. Len(s) : Append(w, g)[i] = w[i]
      BY <2>5, <2>7, Longer
    <3>2. \A i \in 1 .. (Len(s) + 1) : i = Len(s) + 1 \/ i \in 1 .. Len(s)
      BY <2>6
    <3>3. \A i \in 1 .. Len(x) : x[i] = Append(w, g)[i]
      BY <2>8, <2>9, <3>1, <3>2
    <3>4. x = Append(w, g)
      BY <2>8, <3>1, <3>3, SameSequence
    <3> QED
      BY <1>z, <2>5, <2>7, <3>4, JoinedLonger
  <2> HIDE DEF w, x, g
  <2>11. Z \o w \in Seq(Hexadecimal)
    BY <1>z, <2>7
  <2>12. ValueOf(Z \o x, b) = (q * b + r) % Word
    BY <2>4, <2>5, <2>10, <2>11, ValueAppended DEF w
  <2>13. (q * b + r) % Word = k
    BY <1>1, <2>2, <2>3
  <2>14. Len(a) > 0
    BY <2>6
  <2> QED
    BY <2>1, <2>6, <2>12, <2>13, <2>14 DEF x
<1> HIDE DEF Good
<1>6. 0 \in S
  BY <1>1, <1>4
<1>7. ASSUME NEW m \in S PROVE m + 1 \in S
  <2> SUFFICES ASSUME NEW k \in 0 .. (m + 1), k <= n PROVE Good(k)
    OBVIOUS
  <2>1. CASE k < b
    BY <1>1, <1>4, <2>1
  <2>2. CASE ~(k < b)
    <3>1. k \div b \in Nat /\ k \div b < k
      BY <1>1, <2>2, Quotient
    <3>2. k \div b \in 0 .. m /\ k \div b <= n
      BY <1>1, <3>1
    <3>3. Good(k \div b)
      BY <3>2
    <3> QED
      BY <1>1, <1>5, <2>2, <3>3
  <2> QED
    BY <2>1, <2>2
<1>8. S = Nat
  <2>1. S \in SUBSET Nat
    OBVIOUS
  <2> HIDE DEF S
  <2> QED
    BY <1>6, <1>7, <2>1, EveryNumber
<1>9. Good(n)
  <2>1. \A k \in 0 .. n : k <= n => Good(k)
    BY <1>1, <1>8
  <2>2. n \in 0 .. n /\ n <= n
    BY <1>1
  <2> QED
    BY <2>1, <2>2
<1> QED
  BY <1>2, <1>9 DEF Good, Z

\* jm_itoa writes decimal digits, one at least, and they make the number.
LEMMA ItoaIs ==
  ASSUME NEW n \in 0 .. (Word - 1)
  PROVE  /\ Itoa(n) \in Seq(Decimal) /\ Len(Itoa(n)) > 0
         /\ ValueOf(Itoa(n), 10) = n
<1> DEFINE D == Digits(n, 10)
<1>1. 10 \in Bases /\ Glyphs(10) = Decimal /\ FALSE \in BOOLEAN /\ 0 \in Nat
  BY DEF Bases, Glyphs
<1>2. D \in Seq(DigitIn(10)) /\ Len(D) > 0 /\ ValueOf(Zeros(0) \o Written(D, FALSE), 10) = n
  BY <1>1, DigitsRead
<1> HIDE DEF D
<1>3. Written(D, FALSE) \in Seq(Decimal) /\ Len(Written(D, FALSE)) = Len(D)
  BY <1>1, <1>2, WrittenIs
<1>4. Zeros(0) \o Written(D, FALSE) = Written(D, FALSE)
  <2>1. Zeros(0) \in Seq(Decimal) /\ Len(Zeros(0)) = 0
    BY <1>1, ValueOfZeros
  <2>2. Zeros(0) = << >>
    BY <2>1
  <2>3. \A w \in Seq(Decimal) : << >> \o w = w
    OBVIOUS
  <2> QED
    BY <1>3, <2>2, <2>3
<1> QED
  BY <1>2, <1>3, <1>4 DEF Itoa, D

\* jm_atoi reads the digits to their end.
LEMMA AtoiIs ==
  ASSUME NEW t \in Seq(Decimal), Len(t) > 0
  PROVE  Atoi(t) = Signed(ValueOf(t, 10))
<1> DEFINE blank == {32, 10, 9, 8}
<1>1. /\ Len(t) \in Nat /\ DOMAIN t = 1 .. Len(t) /\ t # << >>
      /\ \A i \in 1 .. Len(t) : t[i] \in Decimal
  OBVIOUS
<1>2. t[1] \in Decimal /\ t[1] \notin blank /\ t[1] \notin {43, 45}
  BY <1>1 DEF Decimal
<1>3. Run(t, blank) = 0
  <2>1. {i \in DOMAIN t : \A j \in 1 .. i : t[j] \in blank} = {}
    BY <1>1, <1>2
  <2> QED
    BY <2>1, FS_EmptySet DEF Run
<1>4. Run(t, Decimal) = Len(t)
  <2>1. {i \in DOMAIN t : \A j \in 1 .. i : t[j] \in Decimal} = 1 .. Len(t)
    BY <1>1
  <2>2. Cardinality(1 .. Len(t)) = Len(t)
    BY <1>1, FS_Interval
  <2> QED
    BY <2>1, <2>2 DEF Run
<1>5. After(t, 0) = t /\ SubSeq(t, 1, Len(t)) = t
  BY <1>1 DEF After
<1>6. ~StartsWith(t, {43, 45})
  BY <1>2 DEF StartsWith
<1>7. Number(t, 10, TRUE, Decimal).value = ValueOf(t, 10)
  <2> DEFINE sign == IF TRUE /\ StartsWith(t, {43, 45}) THEN 1 ELSE 0
             prefix == IF 10 = 16 /\ Len(t) > sign + 1 /\ t[sign + 1] = 48
                            /\ t[sign + 2] = 120 THEN 2 ELSE 0
             body == After(t, sign + prefix)
             value == ValueOf(SubSeq(body, 1, Run(body, Decimal)), 10)
  <2>1. Number(t, 10, TRUE, Decimal).value
          = IF sign = 1 /\ t[1] = 45 THEN -value ELSE value
    BY DEF Number
  <2>2. sign = 0
    BY <1>6
  <2>3. prefix = 0
    OBVIOUS
  <2>4. body = t
    BY <1>5, <2>2, <2>3
  <2>5. value = ValueOf(t, 10)
    BY <1>4, <1>5, <2>4
  <2> HIDE DEF sign, value
  <2>6. sign # 1
    BY <2>2
  <2> QED
    BY <2>1, <2>5, <2>6
<1> QED
  BY <1>3, <1>5, <1>7 DEF Atoi

-----------------------------------------------------------------------------
(* Values                                                                  *)

\* An int survives becoming unsigned and signed again, and the type it was
\* cut to.
LEMMA SignedBack ==
  ASSUME NEW v \in (-Half) .. (Half - 1)
  PROVE  Unsigned(v) \in 0 .. (Word - 1) /\ Signed(Unsigned(v)) = v
<1>1. Word \in Nat /\ Word > 0 /\ Word = 2 * Half /\ Half \in Nat /\ v \in Int
  BY WordAssumption DEF Half
<1> HIDE DEF Half
<1>2. v % Word = IF v < 0 THEN v + Word ELSE v
  BY <1>1
<1>3. Unsigned(v) \in 0 .. (Word - 1) /\ Unsigned(v) % Word = Unsigned(v)
  BY <1>1, <1>2 DEF Unsigned
<1>4. Signed(Unsigned(v)) = IF Unsigned(v) >= Half THEN Unsigned(v) - Word ELSE Unsigned(v)
  BY <1>3 DEF Signed
<1> QED
  BY <1>1, <1>2, <1>3, <1>4 DEF Unsigned

LEMMA WrappedBack ==
  ASSUME NEW m \in Nat, m % 2 = 0, NEW v \in Int, 2 * v \in (-m) .. (m - 1)
  PROVE  Wrapped(v, m) = v
<1>1. PICK h \in Nat : m = 2 * h /\ m \div 2 = h
  <2>1. m = 2 * (m \div 2) /\ m \div 2 \in Nat
    OBVIOUS
  <2> QED
    BY <2>1
<1>2. m > 0 /\ v >= -h /\ v < h
  BY <1>1
<1>3. v % m = IF v < 0 THEN v + m ELSE v
  BY <1>1, <1>2
<1> QED
  BY <1>1, <1>2, <1>3 DEF Wrapped

-----------------------------------------------------------------------------
(* What jm_print and jm_sprintf write, jm_scan reads                       *)

LEMMA PartOf ==
  ASSUME NEW s \in Seq(Int), NEW m \in Nat, NEW k \in Nat, m + k <= Len(s)
  PROVE  /\ SubSeq(s, m + 1, m + k) \in Seq(Int) /\ Len(SubSeq(s, m + 1, m + k)) = k
         /\ \A i \in 1 .. k : SubSeq(s, m + 1, m + k)[i] = s[m + i]
OBVIOUS

LEMMA AfterIs ==
  ASSUME NEW s \in Seq(Int), NEW m \in 0 .. Len(s)
  PROVE  /\ After(s, m) \in Seq(Int) /\ Len(After(s, m)) = Len(s) - m
         /\ \A i \in 1 .. (Len(s) - m) : After(s, m)[i] = s[m + i]
<1>1. Len(s) \in Nat /\ m \in Nat /\ Len(s) - m \in Nat /\ m + (Len(s) - m) = Len(s)
  OBVIOUS
<1> DEFINE k == Len(s) - m
<1>2. After(s, m) = SubSeq(s, m + 1, m + k)
  BY <1>1 DEF After
<1>3. k \in Nat /\ m + k <= Len(s)
  BY <1>1
<1> HIDE DEF k
<1>4. /\ SubSeq(s, m + 1, m + k) \in Seq(Int) /\ Len(SubSeq(s, m + 1, m + k)) = k
      /\ \A i \in 1 .. k : SubSeq(s, m + 1, m + k)[i] = s[m + i]
  BY <1>1, <1>3, PartOf
<1> QED
  BY <1>2, <1>4 DEF k

\* The characters in front of the first that is not in S.
LEMMA RunIs ==
  ASSUME NEW t \in Seq(Int), NEW S, NEW k \in 0 .. Len(t),
         \A i \in 1 .. k : t[i] \in S, k < Len(t) => t[k + 1] \notin S
  PROVE  Run(t, S) = k
<1> DEFINE R == {i \in DOMAIN t : \A j \in 1 .. i : t[j] \in S}
<1>1. Len(t) \in Nat /\ DOMAIN t = 1 .. Len(t) /\ k \in Nat /\ k <= Len(t)
  OBVIOUS
<1>2. ASSUME NEW i \in 1 .. Len(t) PROVE i \in R <=> i <= k
  <2>1. CASE i <= k
    <3>1. \A j \in 1 .. i : j \in 1 .. k
      BY <1>1, <2>1
    <3> QED
      BY <1>1, <2>1, <3>1
  <2>2. CASE ~(i <= k)
    <3>1. k + 1 \in 1 .. i /\ k < Len(t)
      BY <1>1, <2>2
    <3> QED
      BY <2>2, <3>1
  <2> QED
    BY <2>1, <2>2
<1>3. R \subseteq 1 .. Len(t)
  BY <1>1
<1> HIDE DEF R
<1>4. R = 1 .. k
  <2>1. \A i \in 1 .. k : i \in 1 .. Len(t) /\ i <= k
    BY <1>1
  <2>2. \A i \in 1 .. Len(t) : i <= k => i \in 1 .. k
    BY <1>1
  <2> QED
    BY <1>2, <1>3, <2>1, <2>2
<1>5. Cardinality(1 .. k) = k
  BY <1>1, FS_Interval
<1> QED
  BY <1>4, <1>5 DEF Run, R

\* Spaces, perhaps a minus sign, and the characters of body.
Shape(text, spaces, minus, body) ==
  /\ text \in Seq(Int)
  /\ Len(text) = spaces + minus + Len(body)
  /\ \A i \in 1 .. spaces : text[i] = 32
  /\ minus = 1 => text[spaces + 1] = 45
  /\ \A i \in 1 .. Len(body) : text[spaces + minus + i] = body[i]

\* What would go on as a number, were it behind its digits.
Stopped(b) == IF b = 10 THEN Decimal ELSE Hexadecimal \cup {120}

LEMMA NumberOfShape ==
  ASSUME NEW b \in Bases, NEW signed \in BOOLEAN, NEW minus \in 0 .. 1,
         minus = 1 => signed, NEW body \in Seq(Glyphs(b)), Len(body) > 0,
         NEW t \in Seq(Int), minus + Len(body) <= Len(t),
         minus = 1 => t[1] = 45,
         \A i \in 1 .. Len(body) : t[minus + i] = body[i],
         minus + Len(body) < Len(t) => t[minus + Len(body) + 1] \notin Stopped(b)
  PROVE  Number(t, b, signed, Glyphs(b))
           = [used |-> minus + Len(body),
              value |-> IF minus = 1 THEN -ValueOf(body, b) ELSE ValueOf(body, b)]
<1> DEFINE G == Glyphs(b)
           n == Len(body)
           sign == IF signed /\ StartsWith(t, {43, 45}) THEN 1 ELSE 0
           prefix == IF b = 16 /\ Len(t) > sign + 1 /\ t[sign + 1] = 48
                        /\ t[sign + 2] = 120 THEN 2 ELSE 0
           rest == After(t, sign + prefix)
           value == ValueOf(SubSeq(rest, 1, Run(rest, G)), b)
<1>1. Number(t, b, signed, G)
        = [used |-> IF Run(rest, G) = 0 THEN 0 ELSE sign + prefix + Run(rest, G),
           value |-> IF sign = 1 /\ t[1] = 45 THEN -value ELSE value]
  BY DEF Number
<1>2. /\ G \subseteq Int
      /\ \A g \in G : g \notin {43, 45, 120, 32}
  BY DEF Glyphs, Hexadecimal, Decimal
<1>3. /\ n \in Nat /\ n > 0 /\ minus \in Nat /\ Len(t) \in Nat
      /\ Len(body) = n /\ minus + n <= Len(t)
      /\ \A i \in 1 .. n : body[i] \in G
      /\ \A i \in 1 .. n : t[minus + i] = body[i]
      /\ minus + n < Len(t) => t[minus + n + 1] \notin Stopped(b)
  OBVIOUS
<1>s. G \subseteq Stopped(b) /\ (b = 16 => 120 \in Stopped(b))
  BY DEF Glyphs, Stopped
<1> HIDE DEF G, n
<1>4. t[minus + 1] \in G /\ t # << >> /\ (minus = 0 => t[1] \in G)
  <2>1. 1 \in 1 .. n
    BY <1>3
  <2>2. t[minus + 1] = body[1] /\ body[1] \in G
    BY <1>3, <2>1
  <2>3. Len(t) > 0
    BY <1>3
  <2>4. minus = 0 => minus + 1 = 1
    OBVIOUS
  <2> QED
    BY <2>2, <2>3, <2>4
<1>5. sign = minus
  <2>1. CASE minus = 1
    BY <1>4, <2>1 DEF StartsWith
  <2>2. CASE minus = 0
    BY <1>2, <1>4, <2>2 DEF StartsWith
  <2> QED
    BY <2>1, <2>2
<1> HIDE DEF sign
<1>6. prefix = 0
  <2> SUFFICES ASSUME Len(t) > minus + 1, b = 16 PROVE t[minus + 2] # 120
    BY <1>5
  <2>1. CASE n = 1
    <3>1. minus + n + 1 = minus + 2 /\ minus + n < Len(t)
      BY <1>3, <2>1
    <3>2. t[minus + 2] \notin Stopped(b)
      BY <1>3, <3>1
    <3> QED
      BY <1>s, <3>2
  <2>2. CASE n # 1
    <3>1. 2 \in 1 .. n
      BY <1>3, <2>2
    <3>2. t[minus + 2] = body[2] /\ body[2] \in G
      BY <1>3, <3>1
    <3> QED
      BY <1>2, <3>2
  <2> QED
    BY <2>1, <2>2
<1> HIDE DEF prefix
<1>7. sign + prefix = minus
  BY <1>3, <1>5, <1>6
<1>8. /\ rest \in Seq(Int) /\ Len(rest) = Len(t) - minus
      /\ \A i \in 1 .. (Len(t) - minus) : rest[i] = t[minus + i]
  <2>1. minus \in 0 .. Len(t)
    BY <1>3
  <2> QED
    BY <1>7, <2>1, AfterIs
<1> HIDE DEF rest
<1>9. \A i \in 1 .. n : rest[i] = body[i]
  <2>1. \A i \in 1 .. n : i \in 1 .. (Len(t) - minus)
    BY <1>3
  <2> QED
    BY <1>3, <1>8, <2>1
<1>10. Run(rest, G) = n
  <2>1. n \in 0 .. Len(rest)
    BY <1>3, <1>8
  <2>2. \A i \in 1 .. n : rest[i] \in G
    BY <1>3, <1>9
  <2>3. n < Len(rest) => rest[n + 1] \notin G
    <3> SUFFICES ASSUME n < Len(rest) PROVE rest[n + 1] \notin G
      OBVIOUS
    <3>1. n + 1 \in 1 .. (Len(t) - minus) /\ minus + n < Len(t)
      <4>1. n < Len(t) - minus
        BY <1>8
      <4> QED
        BY <1>3, <4>1
    <3>2. minus + (n + 1) = minus + n + 1
      BY <1>3
    <3>3. rest[n + 1] = t[minus + (n + 1)]
      BY <1>8, <3>1
    <3> QED
      BY <1>3, <1>s, <3>1, <3>2, <3>3
  <2> QED
    BY <1>8, <2>1, <2>2, <2>3, RunIs
<1>11. SubSeq(rest, 1, n) = body
  <2> DEFINE p == SubSeq(rest, 0 + 1, 0 + n)
  <2>1. 0 \in Nat /\ 0 + n <= Len(rest) /\ 0 + 1 = 1 /\ 0 + n = n
    BY <1>3, <1>8
  <2>2. p \in Seq(Int) /\ Len(p) = n /\ \A i \in 1 .. n : p[i] = rest[0 + i]
    BY <1>3, <1>8, <2>1, PartOf
  <2>3. p = SubSeq(rest, 1, n)
    BY <2>1
  <2> HIDE DEF p
  <2>4. ASSUME NEW i \in 1 .. n PROVE p[i] = body[i]
    <3>1. 0 + i = i
      BY <1>3
    <3>2. p[i] = rest[i]
      BY <2>2, <3>1
    <3> QED
      BY <1>9, <3>2
  <2>5. body \in Seq(Int)
    BY <1>2 DEF G
  <2>6. p = body
    BY <1>3, <2>2, <2>4, <2>5, SameSequence
  <2> QED
    BY <2>3, <2>6
<1>12. value = ValueOf(body, b)
  BY <1>10, <1>11
<1> HIDE DEF value
<1>13. (IF Run(rest, G) = 0 THEN 0 ELSE sign + prefix + Run(rest, G)) = minus + n
  <2>1. Run(rest, G) # 0
    BY <1>3, <1>10
  <2> QED
    BY <1>7, <1>10, <2>1
<1>14. sign = 1 /\ t[1] = 45 <=> minus = 1
  BY <1>5
<1> QED
  BY <1>1, <1>12, <1>13, <1>14 DEF G, n

Of10(letter) == letter \in {"d", "u"}
BaseOf(letter) == IF Of10(letter) THEN 10 ELSE 16
Meant(letter, v) == IF letter = "d" THEN Signed(v) ELSE Unsigned(v)
WithSign(minus, n) == IF minus = 1 THEN -n ELSE n
Stops(letter, behind) ==
  behind \in Seq(Int) /\ (behind # << >> => behind[1] \notin Stopped(BaseOf(letter)))

Readable(letter, spaces, minus, body, text, behind) ==
  /\ letter \in {"d", "u", "x", "X"} /\ spaces \in Nat /\ minus \in 0 .. 1
  /\ minus = 1 => letter = "d"
  /\ body \in Seq(Glyphs(BaseOf(letter))) /\ Len(body) > 0
  /\ Shape(text, spaces, minus, body) /\ Stops(letter, behind)

\* jm_scan reads such a text to its end, unless what is behind goes on with it.
LEMMA ShapeRead ==
  ASSUME NEW letter, NEW spaces, NEW minus, NEW body, NEW text, NEW behind,
         Readable(letter, spaces, minus, body, text, behind)
  PROVE  Read(letter, text \o behind)
           = [used |-> Len(text),
              value |-> Meant(letter, WithSign(minus, ValueOf(body, BaseOf(letter))))]
<1> SUFFICES ASSUME letter \in {"d", "u", "x", "X"}, spaces \in Nat, minus \in 0 .. 1,
                    minus = 1 => letter = "d",
                    body \in Seq(Glyphs(BaseOf(letter))), Len(body) > 0,
                    Shape(text, spaces, minus, body), Stops(letter, behind)
             PROVE  Read(letter, text \o behind)
                      = [used |-> Len(text),
                         value |-> Meant(letter,
                                         WithSign(minus, ValueOf(body, BaseOf(letter))))]
  BY DEF Readable
<1> DEFINE t == text \o behind
           b == BaseOf(letter)
           G == Glyphs(b)
           n == Len(body)
           l == Len(text)
           rest == After(t, spaces)
<1>1. /\ b \in Bases
      /\ b = IF letter \in {"d", "u"} THEN 10 ELSE 16
      /\ G = IF letter \in {"d", "u"} THEN Decimal ELSE Hexadecimal
  BY DEF BaseOf, Bases, Of10, Glyphs
<1>2. \A g \in G : g \in Int /\ g \notin Space
  BY DEF Glyphs, Hexadecimal, Decimal, Space
<1>3. /\ n \in Nat /\ n > 0 /\ minus \in Nat /\ l = spaces + minus + n /\ l \in Nat
      /\ \A i \in 1 .. n : body[i] \in G
      /\ \A i \in 1 .. n : text[spaces + minus + i] = body[i]
      /\ \A i \in 1 .. spaces : text[i] = 32
      /\ minus = 1 => text[spaces + 1] = 45
      /\ text \in Seq(Int)
  BY DEF Shape
<1> HIDE DEF G, n, b
<1>4. /\ t \in Seq(Int) /\ Len(t) \in Nat /\ l <= Len(t)
      /\ \A i \in 1 .. l : t[i] = text[i]
      /\ l < Len(t) => t[l + 1] \notin Stopped(b)
  <2>1. behind \in Seq(Int) /\ (behind # << >> => behind[1] \notin Stopped(b))
        /\ Len(behind) \in Nat
    BY DEF Stops, b
  <2>0. text \in Seq(Int) /\ behind \in Seq(Int)
    BY <1>3, <2>1
  <2>2. t \in Seq(Int) /\ Len(t) = l + Len(behind)
    BY <2>0, Joined
  <2>3. \A i \in 1 .. l : t[i] = text[i]
    BY <2>0, Joined
  <2>4. \A i \in 1 .. Len(behind) : t[l + i] = behind[i]
    BY <2>0, Joined
  <2>5. l < Len(t) => t[l + 1] \notin Stopped(b)
    <3> HIDE DEF t, l
    <3>1. l < Len(t) => 1 \in 1 .. Len(behind) /\ behind # << >>
      BY <1>3, <2>1, <2>2
    <3> QED
      BY <2>1, <2>4, <3>1
  <2> HIDE DEF t, l
  <2> QED
    BY <1>3, <2>1, <2>2, <2>3, <2>5
<1> HIDE DEF t, l
<1>5. /\ \A i \in 1 .. spaces : t[i] = 32
      /\ minus = 1 => t[spaces + 1] = 45
      /\ \A i \in 1 .. n : t[spaces + minus + i] = body[i]
  <2>1. \A i \in 1 .. spaces : i \in 1 .. l
    BY <1>3
  <2>2. minus = 1 => spaces + 1 \in 1 .. l
    BY <1>3
  <2>3. \A i \in 1 .. n : spaces + minus + i \in 1 .. l
    BY <1>3
  <2>4. ASSUME NEW i \in 1 .. spaces PROVE t[i] = 32
    <3>1. t[i] = text[i]
      BY <1>4, <2>1
    <3>2. text[i] = 32
      BY <1>3
    <3> QED
      BY <3>1, <3>2
  <2>5. minus = 1 => t[spaces + 1] = 45
    BY <1>3, <1>4, <2>2
  <2>6. ASSUME NEW i \in 1 .. n PROVE t[spaces + minus + i] = body[i]
    BY <1>3, <1>4, <2>3
  <2> QED
    BY <2>4, <2>5, <2>6
<1>6. Run(t, Space) = spaces
  <2>1. spaces \in 0 .. Len(t)
    BY <1>3, <1>4
  <2>2. \A i \in 1 .. spaces : t[i] \in Space
    BY <1>5 DEF Space
  <2>3. t[spaces + 1] \notin Space
    <3>1. CASE minus = 1
      BY <1>5, <3>1 DEF Space
    <3>2. CASE minus = 0
      <4>1. 1 \in 1 .. n /\ spaces + minus + 1 = spaces + 1
        BY <1>3, <3>2
      <4>2. t[spaces + 1] = body[1] /\ body[1] \in G
        BY <1>3, <1>5, <4>1
      <4> QED
        BY <1>2, <4>2
    <3> QED
      BY <3>1, <3>2
  <2> QED
    BY <1>4, <2>1, <2>2, <2>3, RunIs
<1>7. /\ rest \in Seq(Int) /\ Len(rest) = Len(t) - spaces
      /\ \A i \in 1 .. (Len(t) - spaces) : rest[i] = t[spaces + i]
  <2>1. spaces \in 0 .. Len(t)
    BY <1>3, <1>4
  <2> QED
    BY <1>4, <2>1, AfterIs
<1> HIDE DEF rest
<1> DEFINE signed == letter = "d"
<1>8. Number(rest, b, signed, G)
        = [used |-> minus + n,
           value |-> IF minus = 1 THEN -ValueOf(body, b) ELSE ValueOf(body, b)]
  <2>1. minus + n <= Len(rest) /\ Len(t) - spaces \in Nat
    BY <1>3, <1>4, <1>7
  <2>2. minus = 1 => rest[1] = 45
    <3>1. minus = 1 => 1 \in 1 .. (Len(t) - spaces)
      BY <1>3, <1>7, <2>1
    <3> QED
      BY <1>5, <1>7, <3>1
  <2>3. ASSUME NEW i \in 1 .. n PROVE rest[minus + i] = body[i]
    <3>1. minus + i \in 1 .. (Len(t) - spaces) /\ spaces + (minus + i) = spaces + minus + i
      BY <1>3, <1>7, <2>1
    <3>2. rest[minus + i] = t[spaces + (minus + i)]
      BY <1>7, <3>1
    <3> QED
      BY <1>5, <3>1, <3>2
  <2>4. minus + n < Len(rest) => rest[minus + n + 1] \notin Stopped(b)
    <3> SUFFICES ASSUME minus + n < Len(rest) PROVE rest[minus + n + 1] \notin Stopped(b)
      OBVIOUS
    <3>1. /\ minus + n + 1 \in 1 .. (Len(t) - spaces) /\ l < Len(t)
          /\ spaces + (minus + n + 1) = l + 1
      <4>1. minus + n < Len(t) - spaces
        BY <1>7
      <4> QED
        BY <1>3, <1>4, <2>1, <4>1
    <3>2. rest[minus + n + 1] = t[spaces + (minus + n + 1)]
      BY <1>7, <3>1
    <3> QED
      BY <1>4, <3>1, <3>2
  <2>5. signed \in BOOLEAN /\ (minus = 1 => signed)
    OBVIOUS
  <2> HIDE DEF signed
  <2>6. body \in Seq(Glyphs(b)) /\ Len(body) = n
    BY DEF b, n
  <2>7. /\ b \in Bases /\ signed \in BOOLEAN /\ minus \in 0 .. 1
        /\ minus = 1 => signed
        /\ body \in Seq(Glyphs(b)) /\ Len(body) > 0
        /\ rest \in Seq(Int) /\ minus + Len(body) <= Len(rest)
        /\ minus = 1 => rest[1] = 45
        /\ \A i \in 1 .. Len(body) : rest[minus + i] = body[i]
        /\ minus + Len(body) < Len(rest) => rest[minus + Len(body) + 1] \notin Stopped(b)
    BY <1>1, <1>3, <1>7, <2>1, <2>2, <2>3, <2>4, <2>5, <2>6
  <2>8. Number(rest, b, signed, Glyphs(b))
          = [used |-> minus + Len(body),
             value |-> IF minus = 1 THEN -ValueOf(body, b) ELSE ValueOf(body, b)]
    BY <2>7, NumberOfShape, ZenonT(90)
  <2> QED
    BY <2>6, <2>8 DEF G
<1> DEFINE value == IF minus = 1 THEN -ValueOf(body, b) ELSE ValueOf(body, b)
<1>9. Read(letter, t)
        = [used |-> IF minus + n = 0 THEN 0 ELSE spaces + (minus + n),
           value |-> IF minus + n = 0 THEN 0
                     ELSE IF letter = "d" THEN Signed(value) ELSE Unsigned(value)]
  <2> DEFINE N == Number(rest, b, signed, G)
  <2>1. Read(letter, t)
          = [used |-> IF N.used = 0 THEN 0 ELSE spaces + N.used,
             value |-> IF N.used = 0 THEN 0
                       ELSE IF letter = "d" THEN Signed(N.value) ELSE Unsigned(N.value)]
    BY <1>1, <1>6 DEF Read, rest
  <2>2. N.used = minus + n /\ N.value = value
    BY <1>8
  <2> HIDE DEF N, value
  <2> QED
    BY <2>1, <2>2
<1>10. minus + n # 0 /\ spaces + (minus + n) = l
  BY <1>3
<1> HIDE DEF value
<1> QED
  BY <1>9, <1>10 DEF t, l, value, b, Meant, WithSign

Spaces(p) == [i \in 1 .. p |-> 32]

LEMMA SpacesAre ==
  ASSUME NEW p \in Nat
  PROVE  /\ Spaces(p) \in Seq(Int) /\ Len(Spaces(p)) = p
         /\ \A i \in 1 .. p : Spaces(p)[i] = 32
BY DEF Spaces

\* The sign of a number, and how many characters it has.
Minus(v) == IF v < 0 THEN 1 ELSE 0

LEMMA SignIs ==
  ASSUME NEW v \in Int
  PROVE  /\ Sign(v) \in Seq(Int) /\ Len(Sign(v)) = Minus(v) /\ Minus(v) \in 0 .. 1
         /\ Minus(v) = 1 => Sign(v)[1] = 45
<1>1. <<45>> \in Seq(Int) /\ Len(<<45>>) = 1 /\ <<45>>[1] = 45
  OBVIOUS
<1>2. << >> \in Seq(Int) /\ Len(<< >>) = 0
  OBVIOUS
<1> QED
  BY <1>1, <1>2 DEF Sign, Minus

\* Spaces, a sign and a body one behind the other, put together either way.
LEMMA ShapeMade ==
  ASSUME NEW sp \in Seq(Int), \A i \in 1 .. Len(sp) : sp[i] = 32,
         NEW v \in Int, NEW body \in Seq(Int)
  PROVE  /\ Shape(sp \o (Sign(v) \o body), Len(sp), Minus(v), body)
         /\ Shape((sp \o Sign(v)) \o body, Len(sp), Minus(v), body)
<1> DEFINE sg == Sign(v)
           m == Minus(v)
           p == Len(sp)
           n == Len(body)
<1>1. sg \in Seq(Int) /\ Len(sg) = m /\ m \in 0 .. 1 /\ (m = 1 => sg[1] = 45)
  BY SignIs
<1>2. p \in Nat /\ n \in Nat /\ m \in Nat
  BY <1>1
<1> HIDE DEF sg, m
<1>3. m = 1 => 1 \in 1 .. Len(sg)
  BY <1>1
<1>4. Shape(sp \o (sg \o body), p, m, body)
  <2> DEFINE r == sg \o body
             t == sp \o r
  <2>1. r \in Seq(Int) /\ Len(r) = Len(sg) + Len(body)
    BY <1>1, Joined
  <2>2. \A i \in 1 .. Len(sg) : r[i] = sg[i]
    BY <1>1, Joined
  <2>3. \A i \in 1 .. Len(body) : r[Len(sg) + i] = body[i]
    <3>1. sg \in Seq(Int)
      BY <1>1
    <3> QED
      BY <3>1, Joined
  <2> HIDE DEF r
  <2>4. t \in Seq(Int) /\ Len(t) = Len(sp) + Len(r)
    BY <2>1, Joined
  <2>5. \A i \in 1 .. Len(sp) : t[i] = sp[i]
    BY <2>1, Joined
  <2>6. \A i \in 1 .. Len(r) : t[Len(sp) + i] = r[i]
    BY <2>1, Joined
  <2> HIDE DEF t, p, n
  <2>7. Len(sp) = p /\ Len(body) = n
    BY DEF p, n
  <2>8. Len(r) = m + n /\ Len(t) = p + m + n
    BY <1>1, <1>2, <2>1, <2>4, <2>7
  <2>9. \A i \in 1 .. p : t[i] = 32
    BY <2>5, <2>7
  <2>10. m = 1 => t[p + 1] = 45
    <3>1. m = 1 => 1 \in 1 .. Len(r)
      BY <1>2, <2>8
    <3> QED
      BY <1>1, <1>3, <2>2, <2>6, <2>7, <3>1
  <2>11. ASSUME NEW i \in 1 .. n PROVE t[p + m + i] = body[i]
    <3>1. m + i \in 1 .. Len(r) /\ p + (m + i) = p + m + i
      BY <1>2, <2>8
    <3>2. t[p + (m + i)] = r[m + i]
      BY <2>6, <2>7, <3>1
    <3>3. r[m + i] = body[i]
      BY <1>1, <2>3, <2>7
    <3> QED
      BY <3>1, <3>2, <3>3
  <2> QED
    BY <2>4, <2>7, <2>8, <2>9, <2>10, <2>11 DEF Shape, t, r
<1>5. Shape((sp \o sg) \o body, p, m, body)
  <2> DEFINE r == sp \o sg
             t == r \o body
  <2>1. r \in Seq(Int) /\ Len(r) = Len(sp) + Len(sg)
    BY <1>1, Joined
  <2>2. \A i \in 1 .. Len(sp) : r[i] = sp[i]
    BY <1>1, Joined
  <2>3. \A i \in 1 .. Len(sg) : r[Len(sp) + i] = sg[i]
    BY <1>1, Joined
  <2> HIDE DEF r
  <2>4. t \in Seq(Int) /\ Len(t) = Len(r) + Len(body)
    BY <2>1, Joined
  <2>5. \A i \in 1 .. Len(r) : t[i] = r[i]
    BY <2>1, Joined
  <2>6. \A i \in 1 .. Len(body) : t[Len(r) + i] = body[i]
    BY <2>1, Joined
  <2> HIDE DEF t, p, n
  <2>7. Len(sp) = p /\ Len(body) = n
    BY DEF p, n
  <2>8. Len(r) = p + m /\ Len(t) = p + m + n
    BY <1>1, <1>2, <2>1, <2>4, <2>7
  <2>9. ASSUME NEW i \in 1 .. p PROVE t[i] = 32
    <3>1. i \in 1 .. Len(r)
      BY <1>2, <2>8
    <3>2. t[i] = r[i] /\ r[i] = sp[i] /\ sp[i] = 32
      BY <2>2, <2>5, <2>7, <3>1
    <3> QED
      BY <3>2
  <2>10. m = 1 => t[p + 1] = 45
    <3>1. m = 1 => p + 1 \in 1 .. Len(r)
      BY <1>2, <2>8
    <3> QED
      BY <1>1, <1>3, <2>3, <2>5, <2>7, <3>1
  <2>11. \A i \in 1 .. n : t[p + m + i] = body[i]
    BY <2>6, <2>7, <2>8
  <2> QED
    BY <2>4, <2>7, <2>8, <2>9, <2>10, <2>11 DEF Shape, t, r
<1> QED
  BY <1>4, <1>5 DEF p, m, sg

LEMMA Associated ==
  ASSUME NEW s \in Seq(Int), NEW t \in Seq(Int), NEW u \in Seq(Int)
  PROVE  (s \o t) \o u = s \o (t \o u)
<1> DEFINE a == s \o t
           b == t \o u
           l == a \o u
           r == s \o b
<1>1. /\ a \in Seq(Int) /\ Len(a) = Len(s) + Len(t)
      /\ Len(s) \in Nat /\ Len(t) \in Nat /\ Len(u) \in Nat
  BY Joined
<1>2. \A i \in 1 .. Len(s) : a[i] = s[i]
  BY Joined
<1>3. \A i \in 1 .. Len(t) : a[Len(s) + i] = t[i]
  BY Joined
<1>4. b \in Seq(Int) /\ Len(b) = Len(t) + Len(u)
  BY Joined
<1>5. \A i \in 1 .. Len(t) : b[i] = t[i]
  BY Joined
<1>6. \A i \in 1 .. Len(u) : b[Len(t) + i] = u[i]
  BY Joined
<1> HIDE DEF a, b
<1>0. a \in Seq(Int) /\ b \in Seq(Int)
  BY <1>1, <1>4
<1>7. l \in Seq(Int) /\ Len(l) = Len(a) + Len(u)
  BY <1>0, Joined
<1>8. \A i \in 1 .. Len(a) : l[i] = a[i]
  BY <1>0, Joined
<1>9. \A i \in 1 .. Len(u) : l[Len(a) + i] = u[i]
  BY <1>0, Joined
<1>10. r \in Seq(Int) /\ Len(r) = Len(s) + Len(b)
  BY <1>0, Joined
<1>11. \A i \in 1 .. Len(s) : r[i] = s[i]
  BY <1>0, Joined
<1>12. \A i \in 1 .. Len(b) : r[Len(s) + i] = b[i]
  BY <1>0, Joined
<1> HIDE DEF l, r
<1>13. Len(l) = Len(r) /\ Len(l) = Len(s) + Len(t) + Len(u)
  BY <1>1, <1>4, <1>7, <1>10
<1>14. ASSUME NEW i \in 1 .. Len(l) PROVE l[i] = r[i]
  <2>1. CASE i <= Len(s)
    <3>1. i \in 1 .. Len(s) /\ i \in 1 .. Len(a)
      BY <1>1, <1>13, <2>1
    <3>2. l[i] = a[i] /\ a[i] = s[i] /\ r[i] = s[i]
      BY <1>2, <1>8, <1>11, <3>1
    <3> QED
      BY <3>2
  <2>2. CASE i > Len(s) /\ i <= Len(a)
    <3> DEFINE k == i - Len(s)
    <3>1. /\ i = Len(s) + k /\ k \in 1 .. Len(t) /\ k \in 1 .. Len(b)
          /\ i \in 1 .. Len(a)
      BY <1>1, <1>4, <1>13, <2>2
    <3> HIDE DEF k
    <3>2. l[i] = a[i] /\ a[i] = t[k] /\ r[i] = b[k] /\ b[k] = t[k]
      BY <1>3, <1>5, <1>8, <1>12, <3>1
    <3> QED
      BY <3>2
  <2>3. CASE i > Len(a)
    <3> DEFINE k == i - Len(a)
    <3>1. /\ i = Len(a) + k /\ k \in 1 .. Len(u)
          /\ i = Len(s) + (Len(t) + k) /\ Len(t) + k \in 1 .. Len(b)
      BY <1>1, <1>4, <1>13, <2>3
    <3> HIDE DEF k
    <3>2. l[i] = u[k] /\ r[i] = b[Len(t) + k] /\ b[Len(t) + k] = u[k]
      BY <1>6, <1>9, <1>12, <3>1
    <3> QED
      BY <3>2
  <2>4. i \in Int /\ Len(s) \in Int /\ Len(a) \in Int
    BY <1>1, <1>13
  <2> QED
    BY <2>1, <2>2, <2>3, <2>4
<1>15. l = r
  BY <1>7, <1>10, <1>13, <1>14, SameSequence
<1> QED
  BY <1>15 DEF a, b, l, r

\* Digits behind zeros.
LEMMA BodyIs ==
  ASSUME NEW n \in 0 .. (Word - 1), NEW b \in Bases, NEW upper \in BOOLEAN, NEW z \in Nat
  PROVE  LET body == Zeros(z) \o Written(Digits(n, b), upper)
         IN /\ body \in Seq(Glyphs(b)) /\ body \in Seq(Int) /\ Len(body) > 0
            /\ ValueOf(body, b) = n
            /\ Written(Digits(n, b), upper) \in Seq(Int)
            /\ Zeros(z) \in Seq(Int) /\ Len(Zeros(z)) = z
<1> DEFINE D == Digits(n, b)
           W == Written(D, upper)
           Z == Zeros(z)
<1>1. D \in Seq(DigitIn(b)) /\ Len(D) > 0 /\ ValueOf(Z \o W, b) = n
  BY DigitsRead
<1> HIDE DEF D
<1>2. W \in Seq(Glyphs(b)) /\ Len(W) = Len(D)
  BY <1>1, WrittenIs
<1>3. Decimal \subseteq Glyphs(b) /\ Glyphs(b) \subseteq Int
  BY DEF Glyphs, Hexadecimal, Decimal
<1>4. Z \in Seq(Decimal) /\ Len(Z) = z
  BY ValueOfZeros
<1> HIDE DEF W, Z
<1>5. Z \in Seq(Glyphs(b))
  BY <1>3, <1>4
<1>6. Z \o W \in Seq(Glyphs(b)) /\ Len(Z \o W) = Len(Z) + Len(W) /\ Len(Z) \in Nat
  BY <1>2, <1>5, Joined
<1>7. Len(Z \o W) > 0
  BY <1>1, <1>2, <1>6
<1>8. Z \o W \in Seq(Int) /\ Z \in Seq(Int) /\ W \in Seq(Int)
  BY <1>2, <1>3, <1>5, <1>6
<1> QED
  BY <1>1, <1>4, <1>6, <1>7, <1>8 DEF D, W, Z

Abs(v) == IF v < 0 THEN -v ELSE v
FormBody(letter, v, z, upper) ==
  Zeros(z) \o Written(Digits(Abs(v), BaseOf(letter)), upper)

\* text is spaces, v's sign and zeros before its digits, as a conversion with
\* this letter may make it.
IsForm(text, letter, v, upper, z, sp) ==
  /\ letter \in {"d", "u", "x", "X"} /\ v \in Int
  /\ Abs(v) \in 0 .. (Word - 1) /\ (v < 0 => letter = "d")
  /\ upper \in BOOLEAN /\ z \in Nat
  /\ sp \in Seq(Int) /\ \A i \in 1 .. Len(sp) : sp[i] = 32
  /\ text \in {sp \o (Sign(v) \o FormBody(letter, v, z, upper)),
             (sp \o Sign(v)) \o FormBody(letter, v, z, upper)}

\* A number with zeros in front of its digits and spaces in front of its sign
\* is read back.
LEMMA FormRead ==
  ASSUME NEW text, NEW letter, NEW v, NEW upper, NEW z, NEW sp,
         IsForm(text, letter, v, upper, z, sp),
         NEW behind, Stops(letter, behind)
  PROVE  Read(letter, text \o behind) = [used |-> Len(text), value |-> Meant(letter, v)]
<1>0. /\ letter \in {"d", "u", "x", "X"} /\ v \in Int
      /\ Abs(v) \in 0 .. (Word - 1) /\ (v < 0 => letter = "d")
      /\ upper \in BOOLEAN /\ z \in Nat
      /\ sp \in Seq(Int) /\ \A i \in 1 .. Len(sp) : sp[i] = 32
      /\ text \in {sp \o (Sign(v) \o FormBody(letter, v, z, upper)),
                 (sp \o Sign(v)) \o FormBody(letter, v, z, upper)}
  BY DEF IsForm
<1> DEFINE b == BaseOf(letter)
           body == Zeros(z) \o Written(Digits(Abs(v), b), upper)
           p == Len(sp)
           m == Minus(v)
<1>1. b \in Bases
  BY <1>0 DEF BaseOf, Bases
<1>2. text \in {sp \o (Sign(v) \o body), (sp \o Sign(v)) \o body}
  BY <1>0 DEF FormBody
<1> HIDE DEF b
<1>3. /\ body \in Seq(Glyphs(b)) /\ body \in Seq(Int) /\ Len(body) > 0
      /\ ValueOf(body, b) = Abs(v)
  BY <1>0, <1>1, BodyIs
<1> HIDE DEF body
<1>4. Shape(text, p, m, body)
  BY <1>0, <1>2, <1>3, ShapeMade
<1>5. p \in Nat /\ m \in 0 .. 1 /\ (m = 1 => letter = "d")
  BY <1>0 DEF Minus
<1> HIDE DEF p, m
<1>6. body \in Seq(Glyphs(BaseOf(letter))) /\ ValueOf(body, BaseOf(letter)) = Abs(v)
  BY <1>3 DEF b
<1>7. Read(letter, text \o behind)
        = [used |-> Len(text),
           value |-> Meant(letter, WithSign(m, ValueOf(body, BaseOf(letter))))]
  <2>1. letter \in {"d", "u", "x", "X"}
    BY <1>0
  <2>2. body \in Seq(Glyphs(BaseOf(letter)))
    BY <1>6
  <2> QED
    BY <1>3, <1>4, <1>5, <2>1, <2>2, ShapeRead DEF Readable
<1>8. WithSign(m, Abs(v)) = v
  BY <1>0 DEF m, Minus, Abs, WithSign
<1> QED
  BY <1>6, <1>7, <1>8

-----------------------------------------------------------------------------
(* The conversions of a format                                             *)

LEMMA NoSign == ASSUME NEW v \in Int, v >= 0 PROVE Sign(v) = << >>
BY DEF Sign

LEMMA NothingInFront == ASSUME NEW s \in Seq(Int) PROVE << >> \o s = s
OBVIOUS

LEMMA OneSpaceMore ==
  ASSUME NEW p \in Nat
  PROVE  /\ <<32>> \o Spaces(p) \in Seq(Int)
         /\ \A i \in 1 .. Len(<<32>> \o Spaces(p)) : (<<32>> \o Spaces(p))[i] = 32
<1> DEFINE s == <<32>>
           t == Spaces(p)
           r == s \o t
<1>1. s \in Seq(Int) /\ Len(s) = 1 /\ s[1] = 32
  OBVIOUS
<1>2. t \in Seq(Int) /\ Len(t) = p /\ \A i \in 1 .. p : t[i] = 32
  BY SpacesAre
<1> HIDE DEF s, t
<1>0. s \in Seq(Int) /\ t \in Seq(Int)
  BY <1>1, <1>2
<1>3. r \in Seq(Int) /\ Len(r) = Len(s) + Len(t)
  BY <1>0, Joined
<1>4. \A i \in 1 .. Len(s) : r[i] = s[i]
  BY <1>0, Joined
<1>5. \A i \in 1 .. Len(t) : r[Len(s) + i] = t[i]
  BY <1>0, Joined
<1> HIDE DEF r
<1>6. ASSUME NEW i \in 1 .. Len(r) PROVE r[i] = 32
  <2>1. CASE i = 1
    <3>1. 1 \in 1 .. Len(s)
      BY <1>1
    <3> QED
      BY <1>1, <1>4, <2>1, <3>1
  <2>2. CASE i # 1
    <3> DEFINE k == i - 1
    <3>1. i = Len(s) + k /\ k \in 1 .. Len(t) /\ k \in 1 .. p
      BY <1>1, <1>2, <1>3, <2>2
    <3> HIDE DEF k
    <3>2. r[i] = t[k] /\ t[k] = 32
      BY <1>2, <1>5, <3>1
    <3> QED
      BY <3>2
  <2> QED
    BY <2>1, <2>2
<1> QED
  BY <1>3, <1>6 DEF r, s, t

\* The text jm_print writes of a number that is not the smallest, and not
\* negative when it is padded with zeros.
LEMMA PaddedForm ==
  ASSUME NEW b \in Bases, NEW v \in Int, v # -Half, Abs(v) \in 0 .. (Word - 1),
         NEW upper \in BOOLEAN, NEW pad \in {32, 48}, pad = 48 => v >= 0,
         NEW padlen \in Nat
  PROVE  \E k, z \in Nat :
           <<32>> \o Padded(v, b, upper, pad, padlen)
             = (<<32>> \o Spaces(k))
                 \o (Sign(v) \o (Zeros(z) \o Written(Digits(Abs(v), b), upper)))
<1> DEFINE W == Written(Digits(Abs(v), b), upper)
           S == Sign(v)
           text == S \o W
           n == IF padlen > Len(text) THEN padlen - Len(text) ELSE 0
           P == [i \in 1 .. n |-> pad]
           one == <<32>>
<1>1. Body(v, b, upper) = W
  BY DEF Body, Abs
<1>2. Padded(v, b, upper, pad, padlen) = P \o text
  BY <1>1 DEF Padded
<1>3. W \in Seq(Int) /\ S \in Seq(Int) /\ one \in Seq(Int)
  <2>1. 0 \in Nat
    OBVIOUS
  <2>2. W \in Seq(Int)
    BY <2>1, BodyIs
  <2>3. S \in Seq(Int)
    BY SignIs
  <2> HIDE DEF W, S
  <2> QED
    BY <2>2, <2>3
<1> HIDE DEF W, S, one
<1>4. text \in Seq(Int) /\ n \in Nat
  BY <1>3, Joined
<1>5. Zeros(0) = << >> /\ Spaces(0) = << >>
  BY DEF Zeros, Spaces
<1> HIDE DEF n
<1>6. CASE pad = 32
  <2>1. P = Spaces(n) /\ Spaces(n) \in Seq(Int)
    BY <1>4, <1>6, SpacesAre DEF Spaces
  <2>2. Zeros(0) \o W = W
    BY <1>3, <1>5, NothingInFront
  <2> HIDE DEF P, text
  <2>3. one \o (Spaces(n) \o text) = (one \o Spaces(n)) \o text
    BY <1>3, <1>4, <2>1, Associated
  <2>4. one \o Padded(v, b, upper, pad, padlen)
          = (one \o Spaces(n)) \o (S \o (Zeros(0) \o W))
    BY <1>2, <2>1, <2>2, <2>3 DEF text
  <2> QED
    BY <1>4, <2>4 DEF one, S, W
<1>7. CASE pad = 48
  <2>1. P = Zeros(n) /\ Zeros(n) \in Seq(Int)
    BY <1>4, <1>7 DEF Zeros
  <2>2. S = << >>
    BY <1>7, NoSign DEF S
  <2>3. text = W
    BY <1>3, <2>2, NothingInFront
  <2> HIDE DEF P, text
  <2>4. Zeros(n) \o W \in Seq(Int)
    BY <1>3, <2>1, Joined
  <2>5. S \o (Zeros(n) \o W) = Zeros(n) \o W
    BY <2>2, <2>4, NothingInFront
  <2>6. one \o Spaces(0) = one
    BY <1>3, <1>5
  <2>7. one \o Padded(v, b, upper, pad, padlen)
          = (one \o Spaces(0)) \o (S \o (Zeros(n) \o W))
    BY <1>2, <2>1, <2>3, <2>5, <2>6
  <2> QED
    BY <1>4, <2>7 DEF one, S, W
<1> QED
  BY <1>6, <1>7

\* The numbers of a conversion: what is meant by each, and its digits.
LEMMA ValueMeant ==
  ASSUME NEW c \in Conversion, NEW v \in Value(c)
  PROVE  /\ v \in Int /\ Abs(v) \in 0 .. (Word - 1) /\ (v < 0 => c.letter = "d")
         /\ Meant(c.letter, v) = v
         /\ c.letter = "d" => Signed(v) = v
         /\ c.letter # "d" => Unsigned(v) = v /\ v >= 0 /\ v # -Half
<1>1. Word \in Nat /\ Word > 0 /\ Word = 2 * Half /\ Half \in Nat /\ Half > 0
  BY WordAssumption DEF Half
<1> HIDE DEF Half
<1>2. CASE c.letter = "d"
  <2>1. v \in (-Half) .. (Half - 1)
    BY <1>2 DEF Value
  <2>2. Unsigned(v) \in 0 .. (Word - 1) /\ Signed(Unsigned(v)) = v
    BY <2>1, SignedBack
  <2>3. Unsigned(v) % Word = v % Word
    BY <1>1, <2>2 DEF Unsigned
  <2>4. Signed(v) = v
    BY <2>2, <2>3 DEF Signed
  <2>5. v \in Int /\ Abs(v) \in 0 .. (Word - 1)
    BY <1>1, <2>1 DEF Abs
  <2> QED
    BY <1>2, <2>4, <2>5 DEF Meant
<1>3. CASE c.letter # "d"
  <2>1. v \in 0 .. (Word - 1)
    BY <1>3 DEF Value
  <2>2. v \in Int /\ v >= 0 /\ v < Word /\ v # -Half
    BY <1>1, <2>1
  <2>3. Unsigned(v) = v
    BY <1>1, <2>1 DEF Unsigned
  <2>4. Abs(v) \in 0 .. (Word - 1)
    BY <2>1, <2>2 DEF Abs
  <2> QED
    BY <1>3, <2>2, <2>3, <2>4 DEF Meant
<1> QED
  BY <1>2, <1>3

LEMMA LetterIs ==
  ASSUME NEW c \in Conversion
  PROVE  /\ c.letter \in {"d", "u", "x", "X"} /\ c.zero \in BOOLEAN /\ c.width \in Nat
         /\ BaseOf(c.letter) \in Bases
         /\ c.letter \in {"d", "u"} => BaseOf(c.letter) = 10
         /\ c.letter \in {"x", "X"} => BaseOf(c.letter) = 16
BY DEF Conversion, BaseOf, Of10, Bases

\* text is read to its end as v, and no further.
ReadIs(text, c, v) ==
  \A behind : Stops(c.letter, behind)
    => Read(c.letter, text \o behind) = [used |-> Len(text), value |-> v]

\* jm_sprintf writes the sign first and zeros behind it.
LEMMA SprintfReads ==
  ASSUME NEW c \in Conversion, NEW v \in Value(c), c.letter \in {"d", "x"}
  PROVE  ReadIs(Sprintf(c, v), c, v)
<1> DEFINE b == BaseOf(c.letter)
           W == Written(Digits(Abs(v), b), FALSE)
           z == IF c.width > Len(W) THEN c.width - Len(W) ELSE 0
           one == <<32>>
<1>1. /\ c.letter \in {"d", "u", "x", "X"} /\ c.width \in Nat /\ b \in Bases
      /\ c.letter = "d" => b = 10
      /\ c.letter = "x" => b = 16
  BY LetterIs
<1>2. /\ v \in Int /\ Abs(v) \in 0 .. (Word - 1) /\ (v < 0 => c.letter = "d")
      /\ Meant(c.letter, v) = v
      /\ c.letter # "d" => v >= 0
  BY ValueMeant
<1> HIDE DEF b
<1>3. W \in Seq(Int)
  <2>1. 0 \in Nat /\ FALSE \in BOOLEAN
    OBVIOUS
  <2> QED
    BY <1>1, <1>2, <2>1, BodyIs
<1>4. W = IF c.letter = "d" THEN Itoa(Abs(v)) ELSE Xtoa(v)
  <2>1. c.letter # "d" => Abs(v) = v
    BY <1>2 DEF Abs
  <2> QED
    BY <1>1, <2>1 DEF Itoa, Xtoa
<1>5. Sign(v) = IF c.letter = "d" THEN Sign(v) ELSE << >>
  BY <1>2, NoSign
<1> HIDE DEF W
<1>6. z \in Nat
  BY <1>1, <1>3
<1> DEFINE text == (one \o Sign(v)) \o (Zeros(z) \o W)
<1>7. Sprintf(c, v) = text
  <2> DEFINE S == Sign(v)
             front == one \o S
  <2>1. Itoa(Abs(v)) = Itoa(IF v < 0 THEN -v ELSE v)
    BY DEF Abs
  <2>2. Sprintf(c, v) = one \o (IF c.letter = "d" THEN Sign(v) ELSE << >>) \o Zeros(z) \o W
    BY <1>4, <2>1 DEF Sprintf, Zeros
  <2>3. S \in Seq(Int) /\ one \in Seq(Int) /\ Zeros(z) \in Seq(Int)
    <3>1. S \in Seq(Int)
      BY <1>2, SignIs
    <3>2. Zeros(z) \in Seq(Int)
      BY <1>6 DEF Zeros
    <3> QED
      BY <3>1, <3>2
  <2> HIDE DEF S, z, one
  <2>4. front \in Seq(Int)
    BY <2>3, Joined
  <2>5. Sprintf(c, v) = (front \o Zeros(z)) \o W
    BY <1>5, <2>2 DEF S
  <2> HIDE DEF front
  <2>6. (front \o Zeros(z)) \o W = front \o (Zeros(z) \o W)
    BY <1>3, <2>3, <2>4, Associated
  <2> QED
    BY <2>5, <2>6 DEF front, S, one
<1>8. ASSUME NEW behind, Stops(c.letter, behind)
      PROVE  Read(c.letter, text \o behind) = [used |-> Len(text), value |-> v]
  <2>1. one \in Seq(Int) /\ \A i \in 1 .. Len(one) : one[i] = 32
    OBVIOUS
  <2> HIDE DEF z, one
  <2>2. text \in {one \o (Sign(v) \o FormBody(c.letter, v, z, FALSE)),
                  (one \o Sign(v)) \o FormBody(c.letter, v, z, FALSE)}
    BY DEF W, FormBody, b
  <2> HIDE DEF text
  <2>3. /\ c.letter \in {"d", "u", "x", "X"} /\ v \in Int
        /\ Abs(v) \in 0 .. (Word - 1) /\ (v < 0 => c.letter = "d")
        /\ FALSE \in BOOLEAN /\ z \in Nat /\ one \in Seq(Int)
        /\ \A i \in 1 .. Len(one) : one[i] = 32
    BY <1>1, <1>2, <1>6, <2>1
  <2>4. IsForm(text, c.letter, v, FALSE, z, one)
    BY <2>2, <2>3 DEF IsForm
  <2>5. Read(c.letter, text \o behind) = [used |-> Len(text), value |-> Meant(c.letter, v)]
    BY <1>8, <2>4, FormRead
  <2> QED
    BY <1>2, <2>5
<1> HIDE DEF text
<1> QED
  BY <1>7, <1>8 DEF ReadIs

\* jm_print has room for the whole text.
LEMMA PrintReads ==
  ASSUME NEW c \in Conversion, NEW v \in Value(c),
         ~(c.letter = "d" /\ v < 0 /\ (c.zero \/ v = -Half))
  PROVE  ReadIs(<<32>> \o ArgText(c, v), c, v)
<1> DEFINE b == BaseOf(c.letter)
           upper == c.letter = "X"
           pad == IF c.zero THEN 48 ELSE 32
           text == <<32>> \o ArgText(c, v)
<1>1. /\ c.letter \in {"d", "u", "x", "X"} /\ c.width \in Nat /\ b \in Bases
      /\ c.letter \in {"d", "u"} => b = 10
      /\ c.letter \in {"x", "X"} => b = 16
      /\ c.zero \in BOOLEAN
  BY LetterIs
<1>2. /\ v \in Int /\ Abs(v) \in 0 .. (Word - 1) /\ (v < 0 => c.letter = "d")
      /\ Meant(c.letter, v) = v
      /\ c.letter = "d" => Signed(v) = v
      /\ c.letter # "d" => Unsigned(v) = v /\ v >= 0 /\ v # -Half
  BY ValueMeant
<1>3. v # -Half /\ pad \in {32, 48} /\ (pad = 48 => v >= 0) /\ upper \in BOOLEAN
  <2>1. Half > 0 /\ Half \in Nat
    BY WordAssumption DEF Half
  <2> HIDE DEF Half
  <2>2. v # -Half
    BY <1>2, <2>1
  <2>3. pad = 48 => v >= 0
    BY <1>1, <1>2
  <2> QED
    BY <2>2, <2>3
<1> HIDE DEF b
<1>4. ArgText(c, v) = Padded(v, b, upper, pad, c.width)
  <2>1. CASE c.letter = "d"
    <3>1. ArgText(c, v) = Padded(Signed(v), 10, FALSE, pad, c.width)
      BY <2>1 DEF ArgText
    <3>2. Signed(v) = v /\ b = 10 /\ upper = FALSE
      BY <1>1, <1>2, <2>1
    <3> QED
      BY <3>1, <3>2
  <2>2. CASE c.letter = "u"
    <3>1. ArgText(c, v) = Padded(Unsigned(v), 10, FALSE, pad, c.width)
      BY <2>2 DEF ArgText
    <3>2. Unsigned(v) = v /\ b = 10 /\ upper = FALSE
      BY <1>1, <1>2, <2>2
    <3> QED
      BY <3>1, <3>2
  <2>3. CASE c.letter \in {"x", "X"}
    <3>1. ArgText(c, v) = Padded(Unsigned(v), 16, upper, pad, c.width)
      BY <2>3 DEF ArgText
    <3>2. Unsigned(v) = v /\ b = 16
      BY <1>1, <1>2, <2>3
    <3> QED
      BY <3>1, <3>2
  <2> QED
    BY <1>1, <2>1, <2>2, <2>3
<1> HIDE DEF pad, upper
<1>5. PICK k \in Nat, z \in Nat :
        <<32>> \o Padded(v, b, upper, pad, c.width)
          = (<<32>> \o Spaces(k))
              \o (Sign(v) \o (Zeros(z) \o Written(Digits(Abs(v), b), upper)))
  <2>1. /\ b \in Bases /\ v \in Int /\ v # -Half /\ Abs(v) \in 0 .. (Word - 1)
        /\ upper \in BOOLEAN /\ pad \in {32, 48} /\ (pad = 48 => v >= 0)
        /\ c.width \in Nat
    BY <1>1, <1>2, <1>3
  <2> QED
    BY <2>1, PaddedForm, ZenonT(60)
<1> DEFINE sp == <<32>> \o Spaces(k)
<1>6. sp \in Seq(Int) /\ \A i \in 1 .. Len(sp) : sp[i] = 32
  BY OneSpaceMore
<1>7. text = sp \o (Sign(v) \o (Zeros(z) \o Written(Digits(Abs(v), b), upper)))
  BY <1>4, <1>5
<1> HIDE DEF text, sp
<1>8. ASSUME NEW behind, Stops(c.letter, behind)
      PROVE  Read(c.letter, text \o behind) = [used |-> Len(text), value |-> v]
  <2>1. text \in {sp \o (Sign(v) \o FormBody(c.letter, v, z, upper)),
                  (sp \o Sign(v)) \o FormBody(c.letter, v, z, upper)}
    BY <1>7 DEF FormBody, b
  <2>2. /\ c.letter \in {"d", "u", "x", "X"} /\ v \in Int
        /\ Abs(v) \in 0 .. (Word - 1) /\ (v < 0 => c.letter = "d")
        /\ upper \in BOOLEAN /\ z \in Nat /\ sp \in Seq(Int)
        /\ \A i \in 1 .. Len(sp) : sp[i] = 32
    BY <1>1, <1>2, <1>3, <1>6
  <2>3. IsForm(text, c.letter, v, upper, z, sp)
    BY <2>1, <2>2 DEF IsForm
  <2>4. Read(c.letter, text \o behind) = [used |-> Len(text), value |-> Meant(c.letter, v)]
    BY <1>8, <2>3, FormRead
  <2> QED
    BY <1>2, <2>4
<1>9. ReadIs(text, c, v)
  BY <1>8 DEF ReadIs
<1> QED
  BY <1>9 DEF text

\* Whatever a format makes of a number is a sequence of characters.
LEMMA ArgTextIs ==
  ASSUME NEW c \in Conversion, NEW v \in Value(c)
  PROVE  ArgText(c, v) \in Seq(Int)
<1> DEFINE pad == IF c.zero THEN 48 ELSE 32
<1>1. /\ c.letter \in {"d", "u", "x", "X"} /\ c.width \in Nat /\ c.zero \in BOOLEAN
  BY LetterIs
<1>2. /\ v \in Int /\ Abs(v) \in 0 .. (Word - 1)
      /\ c.letter = "d" => Signed(v) = v
      /\ c.letter # "d" => Unsigned(v) = v
  BY ValueMeant
<1>3. pad \in Int
  OBVIOUS
<1> HIDE DEF pad
<1>4. ASSUME NEW b \in Bases, NEW upper \in BOOLEAN
      PROVE  Padded(v, b, upper, pad, c.width) \in Seq(Int)
  <2>1. Body(v, b, upper) \in Seq(Int)
    <3>1. CASE v = -Half
      <4> DEFINE D == Digits(Half, b)
      <4>1. Half \in 0 .. (Word - 1)
        BY WordAssumption DEF Half
      <4>2. D \in Seq(DigitIn(b))
        <5>1. 0 \in Nat
          OBVIOUS
        <5> QED
          BY <4>1, <5>1, DigitsRead
      <4>3. DigitIn(b) \subseteq Int
        BY DEF DigitIn
      <4>4. Body(v, b, upper) = [i \in DOMAIN D |-> 48 - D[i]]
        BY <3>1 DEF Body
      <4> HIDE DEF D
      <4>5. Len(D) \in Nat /\ DOMAIN D = 1 .. Len(D) /\ \A i \in 1 .. Len(D) : D[i] \in Int
        BY <4>2, <4>3
      <4>6. [i \in 1 .. Len(D) |-> 48 - D[i]] \in Seq(Int)
        BY <4>5
      <4> QED
        BY <4>4, <4>5, <4>6
    <3>2. CASE v # -Half
      <4>1. Body(v, b, upper) = Written(Digits(Abs(v), b), upper)
        BY <3>2 DEF Body, Abs
      <4>2. 0 \in Nat
        OBVIOUS
      <4> QED
        BY <1>2, <4>1, <4>2, BodyIs
    <3> QED
      BY <3>1, <3>2
  <2> DEFINE body == Body(v, b, upper)
             text == Sign(v) \o body
             n == IF c.width > Len(text) THEN c.width - Len(text) ELSE 0
             P == [i \in 1 .. n |-> pad]
  <2>2. Sign(v) \in Seq(Int)
    BY <1>2, SignIs
  <2> HIDE DEF body
  <2>3. body \in Seq(Int)
    BY <2>1 DEF body
  <2>4. text \in Seq(Int)
    BY <2>2, <2>3, Joined
  <2> HIDE DEF text
  <2>5. n \in Nat
    BY <1>1, <2>4
  <2> HIDE DEF n
  <2>6. P \in Seq(Int)
    BY <1>3, <2>5
  <2> HIDE DEF P
  <2>7. P \o text \in Seq(Int)
    BY <2>4, <2>6, Joined
  <2> QED
    BY <2>7 DEF Padded, P, n, text, body
<1>5. 10 \in Bases /\ 16 \in Bases /\ FALSE \in BOOLEAN /\ (c.letter = "X") \in BOOLEAN
  BY DEF Bases
<1>6. CASE c.letter = "d"
  BY <1>2, <1>4, <1>5, <1>6 DEF ArgText, pad
<1>7. CASE c.letter = "u"
  BY <1>2, <1>4, <1>5, <1>7 DEF ArgText, pad
<1>8. CASE c.letter = "x"
  <2>1. ArgText(c, v) = Padded(Unsigned(v), 16, FALSE, pad, c.width)
    BY <1>8 DEF ArgText, pad
  <2> QED
    BY <1>2, <1>4, <1>5, <1>8, <2>1
<1>9. CASE c.letter = "X"
  <2>1. ArgText(c, v) = Padded(Unsigned(v), 16, TRUE, pad, c.width)
    BY <1>9 DEF ArgText, pad
  <2> QED
    BY <1>2, <1>4, <1>5, <1>9, <2>1
<1> QED
  BY <1>1, <1>6, <1>7, <1>8, <1>9

\* A text cut short is what a longer buffer has at its front.
LEMMA CutIs ==
  ASSUME NEW t \in Seq(Int), NEW m \in Nat
  PROVE  /\ Cut(t, m) \in Seq(Int)
         /\ Len(Cut(t, m)) = IF Len(t) < m THEN Len(t) ELSE m
         /\ \A i \in 1 .. Len(Cut(t, m)) : Cut(t, m)[i] = t[i]
<1> DEFINE k == IF Len(t) < m THEN Len(t) ELSE m
           s == SubSeq(t, 0 + 1, 0 + k)
<1>1. k \in Nat /\ 0 \in Nat /\ 0 + k <= Len(t) /\ 0 + 1 = 1 /\ 0 + k = k
  OBVIOUS
<1>2. Cut(t, m) = s
  BY <1>1 DEF Cut
<1> HIDE DEF k
<1>3. s \in Seq(Int) /\ Len(s) = k /\ \A i \in 1 .. k : s[i] = t[0 + i]
  BY <1>1, PartOf
<1> HIDE DEF s
<1>4. ASSUME NEW i \in 1 .. k PROVE s[i] = t[i]
  <2>1. 0 + i = i
    BY <1>1
  <2> QED
    BY <1>3, <2>1
<1> QED
  BY <1>2, <1>3, <1>4 DEF k

-----------------------------------------------------------------------------
(* The array                                                               *)

LEMMA NothingBehind ==
  ASSUME NEW s \in Seq(Int), NEW n \in Nat, n > Len(s) PROVE After(s, n) = << >>
<1>1. Len(s) \in Nat
  OBVIOUS
<1>2. SubSeq(s, n + 1, Len(s)) = << >>
  BY <1>1
<1> QED
  BY <1>2 DEF After

\* What stands behind a text that is written over an array's front.
LEMMA OverFront ==
  ASSUME NEW a \in Seq(Int), NEW t \in Seq(Int), Len(t) <= Len(a)
  PROVE  /\ After(a, Len(t)) \in Seq(Int)
         /\ t \o After(a, Len(t)) \in Seq(Int)
         /\ Len(t \o After(a, Len(t))) = Len(a)
         /\ \A i \in 1 .. Len(a) : i > Len(t) => (t \o After(a, Len(t)))[i] = a[i]
<1> DEFINE r == After(a, Len(t))
           x == t \o r
<1>1. Len(t) \in Nat /\ Len(a) \in Nat /\ Len(t) \in 0 .. Len(a)
  OBVIOUS
<1>2. /\ r \in Seq(Int) /\ Len(r) = Len(a) - Len(t)
      /\ \A i \in 1 .. (Len(a) - Len(t)) : r[i] = a[Len(t) + i]
  BY <1>1, AfterIs
<1> HIDE DEF r
<1>3. x \in Seq(Int) /\ Len(x) = Len(t) + Len(r)
  BY <1>2, Joined
<1>4. \A i \in 1 .. Len(r) : x[Len(t) + i] = r[i]
  BY <1>2, Joined
<1> HIDE DEF x
<1>5. ASSUME NEW i \in 1 .. Len(a), i > Len(t) PROVE x[i] = a[i]
  <2> DEFINE k == i - Len(t)
  <2>1. k \in 1 .. (Len(a) - Len(t)) /\ k \in 1 .. Len(r) /\ Len(t) + k = i
    BY <1>1, <1>2, <1>5
  <2> HIDE DEF k
  <2> QED
    BY <1>2, <1>4, <2>1
<1>6. Len(x) = Len(a)
  BY <1>1, <1>2, <1>3
<1> QED
  BY <1>2, <1>3, <1>5, <1>6 DEF x, r

LEMMA BehindStays ==
  ASSUME NEW a \in Seq(Int), NEW t \in Seq(Int), Len(t) <= Len(a),
         NEW n \in Nat, Len(t) <= n
  PROVE  After(t \o After(a, Len(t)), n) = After(a, n)
<1> DEFINE x == t \o After(a, Len(t))
<1>1. /\ x \in Seq(Int) /\ Len(x) = Len(a)
      /\ \A i \in 1 .. Len(a) : i > Len(t) => x[i] = a[i]
  BY OverFront
<1>2. Len(t) \in Nat /\ Len(a) \in Nat
  OBVIOUS
<1> HIDE DEF x
<1>3. CASE n > Len(a)
  BY <1>1, <1>3, NothingBehind DEF x
<1>4. CASE n <= Len(a)
  <2>1. n \in 0 .. Len(a) /\ n \in 0 .. Len(x)
    BY <1>1, <1>2, <1>4
  <2> DEFINE p == After(x, n)
             q == After(a, n)
  <2>2. /\ p \in Seq(Int) /\ Len(p) = Len(x) - n
        /\ \A i \in 1 .. (Len(x) - n) : p[i] = x[n + i]
    BY <1>1, <2>1, AfterIs
  <2>3. /\ q \in Seq(Int) /\ Len(q) = Len(a) - n
        /\ \A i \in 1 .. (Len(a) - n) : q[i] = a[n + i]
    BY <2>1, AfterIs
  <2> HIDE DEF p, q
  <2>4. ASSUME NEW i \in 1 .. Len(p) PROVE p[i] = q[i]
    <3>1. i \in 1 .. (Len(x) - n) /\ i \in 1 .. (Len(a) - n)
      BY <1>1, <2>2
    <3>2. n + i \in 1 .. Len(a) /\ n + i > Len(t)
      BY <1>2, <3>1
    <3> QED
      BY <1>1, <2>2, <2>3, <3>1, <3>2
  <2>5. p = q
    BY <1>1, <2>2, <2>3, <2>4, SameSequence
  <2> QED
    BY <2>5 DEF p, q, x
<1> QED
  BY <1>2, <1>3, <1>4

LEMMA BehindText ==
  ASSUME NEW t \in Seq(Int), NEW r \in Seq(Int) PROVE After(t \o r, Len(t)) = r
<1> DEFINE x == t \o r
           p == After(x, Len(t))
<1>1. x \in Seq(Int) /\ Len(x) = Len(t) + Len(r) /\ Len(t) \in Nat /\ Len(r) \in Nat
  BY Joined
<1>2. \A i \in 1 .. Len(r) : x[Len(t) + i] = r[i]
  BY Joined
<1> HIDE DEF x
<1>3. Len(t) \in 0 .. Len(x) /\ Len(x) - Len(t) = Len(r)
  BY <1>1
<1>4. /\ p \in Seq(Int) /\ Len(p) = Len(x) - Len(t)
      /\ \A i \in 1 .. (Len(x) - Len(t)) : p[i] = x[Len(t) + i]
  BY <1>1, <1>3, AfterIs
<1> HIDE DEF p
<1>5. \A i \in 1 .. Len(p) : p[i] = r[i]
  BY <1>2, <1>3, <1>4
<1>6. p = r
  BY <1>3, <1>4, <1>5, SameSequence
<1> QED
  BY <1>6 DEF p, x

\* A text with a NUL behind it, in front of anything.
LEMMA EndedText ==
  ASSUME NEW t \in Seq(Int), NEW r \in Seq(Int)
  PROVE  /\ Append(t, 0) \in Seq(Int) /\ Len(Append(t, 0)) = Len(t) + 1
         /\ Append(t, 0) \o r = t \o (<<0>> \o r)
         /\ <<0>> \o r \in Seq(Int) /\ <<0>> \o r # << >> /\ (<<0>> \o r)[1] = 0
<1> DEFINE z == <<0>>
           e == z \o r
<1>1. z \in Seq(Int) /\ Len(z) = 1 /\ z[1] = 0
  OBVIOUS
<1>2. Append(t, 0) = t \o z /\ Append(t, 0) \in Seq(Int) /\ Len(Append(t, 0)) = Len(t) + 1
  OBVIOUS
<1> HIDE DEF z
<1>3. e \in Seq(Int) /\ Len(e) = Len(z) + Len(r) /\ Len(r) \in Nat
  BY <1>1, Joined
<1>4. \A i \in 1 .. Len(z) : e[i] = z[i]
  BY <1>1, Joined
<1>5. (t \o z) \o r = t \o e
  BY <1>1, Associated
<1> HIDE DEF e
<1>6. e # << >> /\ e[1] = 0
  <2>1. 1 \in 1 .. Len(z) /\ Len(e) > 0
    BY <1>1, <1>3
  <2> QED
    BY <1>1, <1>4, <2>1
<1> QED
  BY <1>2, <1>3, <1>5, <1>6 DEF e, z

-----------------------------------------------------------------------------
(* The texts of kv_add and kv_update                                       *)

LEMMA SeqOfPart ==
  ASSUME NEW S, NEW T, S \subseteq T, NEW s \in Seq(S) PROVE s \in Seq(T)
OBVIOUS

LEMMA DecimalText == ASSUME NEW t \in Seq(Decimal) PROVE t \in Seq(1 .. 255)
<1>1. Decimal \subseteq 1 .. 255
  BY DEF Decimal
<1> QED
  BY <1>1, SeqOfPart

\* What _kv_getStrVal writes in front of the NUL.
Plain(w) ==
  CASE w.type \in Numeric -> Itoa(Unsigned(w.v))
    [] w.type = "boolean" -> IF w.v # False THEN <<48>> ELSE <<49>>
    [] w.type = "char" -> <<w.v>>
    [] w.type = "string" -> w.v

LEMMA PlainIs ==
  ASSUME NEW w, w.type \in Types, w.type \in Numeric \cup {"char"} => w.v \in Int,
         w.type \in {"boolean", "string"} => w.v \in Seq(1 .. 255)
  PROVE  /\ StrVal(w) = Append(Plain(w), 0) /\ Plain(w) \in Seq(Int)
         /\ w.type # "char" => Plain(w) \in Seq(1 .. 255)
<1>1. StrVal(w) = Append(Plain(w), 0)
  BY DEF StrVal, Plain
<1>2. 1 .. 255 \subseteq Int /\ Decimal \subseteq 1 .. 255
  BY DEF Decimal
<1>3. CASE w.type \in Numeric
  <2>1. Unsigned(w.v) \in 0 .. (Word - 1)
    BY <1>3, WordAssumption DEF Unsigned
  <2>2. Itoa(Unsigned(w.v)) \in Seq(Decimal)
    BY <2>1, ItoaIs
  <2>3. Plain(w) = Itoa(Unsigned(w.v))
    BY <1>3 DEF Plain, Numeric
  <2>4. Plain(w) \in Seq(1 .. 255)
    BY <2>2, <2>3, DecimalText
  <2>5. Plain(w) \in Seq(Int)
    BY <1>2, <2>4, SeqOfPart, Zenon
  <2> QED
    BY <1>1, <2>4, <2>5
<1>4. CASE w.type = "boolean"
  <2>1. Plain(w) \in {<<48>>, <<49>>}
    BY <1>4 DEF Plain, Numeric
  <2>2. <<48>> \in Seq(1 .. 255) /\ <<49>> \in Seq(1 .. 255)
    OBVIOUS
  <2>3. Plain(w) \in Seq(1 .. 255)
    BY <2>1, <2>2
  <2>4. Plain(w) \in Seq(Int)
    BY <1>2, <2>3, SeqOfPart, Zenon
  <2> QED
    BY <1>1, <2>3, <2>4
<1>5. CASE w.type = "char"
  <2>1. Plain(w) = <<w.v>> /\ w.v \in Int
    BY <1>5 DEF Plain, Numeric
  <2> QED
    BY <1>1, <1>5, <2>1
<1>6. CASE w.type = "string"
  <2>1. Plain(w) = w.v /\ w.v \in Seq(1 .. 255)
    BY <1>6 DEF Plain, Numeric
  <2>2. Plain(w) \in Seq(Int)
    <3>1. Plain(w) \in Seq(1 .. 255)
      BY <2>1
    <3> QED
      BY <1>2, <3>1, SeqOfPart, Zenon
  <2> QED
    BY <1>1, <2>1, <2>2
<1> QED
  BY <1>3, <1>4, <1>5, <1>6 DEF Types

\* A C string ends at its NUL.
LEMMA CStringIs ==
  ASSUME NEW t \in Seq(1 .. 255), NEW r \in Seq(Int)
  PROVE  CString(Append(t, 0) \o r) = t
<1> DEFINE b == <<0>> \o r
           x == t \o b
           C == 1 .. 255
<1>0. C \subseteq Int /\ 0 \notin C
  OBVIOUS
<1>1. t \in Seq(Int) /\ Len(t) \in Nat /\ \A i \in 1 .. Len(t) : t[i] \in C
  <2>1. t \in Seq(C)
    OBVIOUS
  <2> HIDE DEF C
  <2>2. Len(t) \in Nat /\ \A i \in 1 .. Len(t) : t[i] \in C
    BY <2>1
  <2>3. t \in Seq(Int)
    BY <1>0, <2>1, SeqOfPart, Zenon
  <2> QED
    BY <2>2, <2>3
<1>2. Append(t, 0) \o r = x /\ b \in Seq(Int) /\ b # << >> /\ b[1] = 0
  BY <1>1, EndedText
<1> HIDE DEF b, C
<1>3. x \in Seq(Int) /\ Len(x) = Len(t) + Len(b) /\ Len(b) \in Nat /\ Len(b) > 0
  <2>1. x \in Seq(Int) /\ Len(x) = Len(t) + Len(b)
    BY <1>1, <1>2, Joined
  <2> QED
    BY <1>2, <2>1
<1>4. \A i \in 1 .. Len(t) : x[i] = t[i]
  BY <1>1, <1>2, Joined
<1>5. \A i \in 1 .. Len(b) : x[Len(t) + i] = b[i]
  BY <1>1, <1>2, Joined
<1> HIDE DEF x
<1>6. x[Len(t) + 1] \notin C
  <2>1. 1 \in 1 .. Len(b)
    BY <1>3
  <2> QED
    BY <1>0, <1>2, <1>5, <2>1
<1>7. Len(t) \in 0 .. Len(x) /\ \A i \in 1 .. Len(t) : x[i] \in C
  <2>1. Len(t) \in 0 .. Len(x)
    BY <1>1, <1>3
  <2>2. \A i \in 1 .. Len(t) : x[i] \in C
    BY <1>1, <1>4
  <2> QED
    BY <2>1, <2>2
<1>8. Run(x, C) = Len(t)
  BY <1>3, <1>6, <1>7, RunIs
<1> DEFINE p == SubSeq(x, 0 + 1, 0 + Len(t))
<1>9. 0 \in Nat /\ 0 + Len(t) <= Len(x) /\ 0 + 1 = 1 /\ 0 + Len(t) = Len(t)
  BY <1>1, <1>7
<1>10. p \in Seq(Int) /\ Len(p) = Len(t) /\ \A i \in 1 .. Len(t) : p[i] = x[0 + i]
  BY <1>1, <1>3, <1>9, PartOf
<1>11. p = SubSeq(x, 1, Len(t))
  BY <1>9
<1> HIDE DEF p
<1>12. ASSUME NEW i \in 1 .. Len(t) PROVE p[i] = t[i]
  <2>1. 0 + i = i
    BY <1>1
  <2> QED
    BY <1>4, <1>10, <2>1
<1>13. p = t
  BY <1>1, <1>10, <1>12, SameSequence
<1> QED
  BY <1>2, <1>8, <1>11, <1>13 DEF CString, C

\* A text is made a value again by the type of the value it was made of.
LEMMA TextBack ==
  ASSUME NEW w, w.type \in Types, OfItsType(w.type, w.v)
  PROVE  OfText(w.type, Plain(w)) = w.v /\ Plain(w) \in Seq(1 .. 255)
<1>1. CASE w.type \in Numeric
  <2> DEFINE n == Unsigned(w.v)
             t == Itoa(n)
  <2>0. /\ 2 * w.v \in (-Modulus[w.type]) .. (Modulus[w.type] - 1)
        /\ w.v \in (-Half) .. (Half - 1)
    BY <1>1 DEF OfItsType, Numeric
  <2>1. n \in 0 .. (Word - 1) /\ Signed(n) = w.v
    BY <2>0, SignedBack
  <2>2. t \in Seq(Decimal) /\ Len(t) > 0 /\ ValueOf(t, 10) = n
    BY <2>1, ItoaIs
  <2>3. Plain(w) = t
    BY <1>1 DEF Plain, Numeric
  <2> HIDE DEF n, t
  <2>4. Atoi(t) = w.v
    BY <2>1, <2>2, AtoiIs
  <2>5. t # << >>
    BY <2>2
  <2>6. OfText(w.type, t) = Wrapped(Atoi(t), Modulus[w.type])
    BY <1>1, <2>5 DEF OfText, Numeric
  <2>7. /\ Modulus[w.type] \in Nat /\ Modulus[w.type] % 2 = 0 /\ w.v \in Int
        /\ 2 * w.v \in (-Modulus[w.type]) .. (Modulus[w.type] - 1)
    <3>1. Half \in Int
      BY WordAssumption DEF Half
    <3>2. w.v \in Int
      BY <2>0, <3>1
    <3>3. Modulus[w.type] \in Nat /\ Modulus[w.type] % 2 = 0
      BY <1>1, ValueTextAssumption
    <3> QED
      BY <2>0, <3>2, <3>3
  <2>8. Wrapped(w.v, Modulus[w.type]) = w.v
    BY <2>7, WrappedBack
  <2>9. t \in Seq(1 .. 255)
    BY <2>2, DecimalText
  <2> QED
    BY <2>3, <2>4, <2>6, <2>8, <2>9
<1>2. CASE w.type = "boolean"
  <2>1. w.v \in {False, True}
    BY <1>2 DEF OfItsType, Numeric
  <2>2. Plain(w) = IF w.v # False THEN <<48>> ELSE <<49>>
    BY <1>2 DEF Plain, Numeric
  <2>3. <<48>> # <<49>> /\ <<48>> # << >> /\ <<49>> # << >>
    <3>1. <<48>>[1] = 48 /\ <<49>>[1] = 49 /\ Len(<<48>>) = 1 /\ Len(<<49>>) = 1
          /\ Len(<< >>) = 0
      OBVIOUS
    <3> QED
      BY <3>1
  <2>4. OfText(w.type, Plain(w)) = IF Plain(w) = <<49>> THEN False ELSE True
    BY <1>2, <2>2, <2>3 DEF OfText, Numeric
  <2>5. Plain(w) \in Seq(1 .. 255)
    <3>1. <<48>> \in Seq(1 .. 255) /\ <<49>> \in Seq(1 .. 255)
      OBVIOUS
    <3> QED
      BY <2>2, <3>1
  <2> QED
    BY <2>1, <2>2, <2>3, <2>4, <2>5 DEF False, True
<1>3. CASE w.type = "char"
  <2>1. Plain(w) = <<w.v>> /\ w.v \in 1 .. 255
    BY <1>3 DEF Plain, OfItsType, Numeric
  <2>2. <<w.v>>[1] = w.v /\ <<w.v>> # << >>
    OBVIOUS
  <2>3. OfText(w.type, Plain(w)) = Plain(w)[1]
    BY <1>3, <2>1, <2>2 DEF OfText, Numeric
  <2>4. Plain(w) \in Seq(1 .. 255)
    BY <2>1
  <2> QED
    BY <2>1, <2>2, <2>3, <2>4
<1>4. CASE w.type = "string"
  <2>1. Plain(w) = w.v /\ w.v \in Seq(1 .. 255) /\ w.v # << >>
    BY <1>4 DEF Plain, OfItsType, Numeric
  <2>2. OfText(w.type, Plain(w)) = Plain(w)
    BY <1>4, <2>1 DEF OfText, Numeric
  <2> QED
    BY <2>1, <2>2
<1> QED
  BY <1>1, <1>2, <1>3, <1>4 DEF Types

-----------------------------------------------------------------------------
(* The specification                                                       *)

LEMMA SprintfIs ==
  ASSUME NEW c \in Conversion, NEW v \in Value(c), c.letter \in {"d", "x"}
  PROVE  Sprintf(c, v) \in Seq(Int)
<1> DEFINE digits == IF c.letter = "d" THEN Itoa(IF v < 0 THEN -v ELSE v) ELSE Xtoa(v)
           n == IF c.width > Len(digits) THEN c.width - Len(digits) ELSE 0
           front == <<32>> \o (IF c.letter = "d" THEN Sign(v) ELSE << >>)
<1>1. /\ v \in Int /\ Abs(v) \in 0 .. (Word - 1) /\ c.width \in Nat
      /\ c.letter # "d" => v >= 0
  BY ValueMeant, LetterIs
<1>2. digits \in Seq(Int)
  <2>1. 10 \in Bases /\ 16 \in Bases /\ FALSE \in BOOLEAN /\ 0 \in Nat
    BY DEF Bases
  <2>2. Written(Digits(Abs(v), 10), FALSE) \in Seq(Int)
    BY <1>1, <2>1, BodyIs
  <2>3. Written(Digits(Abs(v), 16), FALSE) \in Seq(Int)
    BY <1>1, <2>1, BodyIs
  <2>4. Itoa(IF v < 0 THEN -v ELSE v) = Written(Digits(Abs(v), 10), FALSE)
    BY DEF Itoa, Abs
  <2>5. v >= 0 => Xtoa(v) = Written(Digits(Abs(v), 16), FALSE)
    <3>1. v >= 0 => Abs(v) = v
      BY <1>1 DEF Abs
    <3> QED
      BY <3>1 DEF Xtoa
  <2> QED
    BY <1>1, <2>2, <2>3, <2>4, <2>5
<1> HIDE DEF digits
<1>3. n \in Nat
  BY <1>1, <1>2
<1> HIDE DEF n
<1>4. Zeros(n) \in Seq(Int)
  BY <1>3 DEF Zeros
<1>5. front \in Seq(Int)
  <2>1. Sign(v) \in Seq(Int) /\ << >> \in Seq(Int) /\ <<32>> \in Seq(Int)
    BY <1>1, SignIs
  <2>2. (IF c.letter = "d" THEN Sign(v) ELSE << >>) \in Seq(Int)
    BY <2>1
  <2> QED
    BY <2>1, <2>2, Joined
<1>6. Sprintf(c, v) = (front \o Zeros(n)) \o digits
  BY DEF Sprintf, front, Zeros, n, digits
<1> HIDE DEF front
<1>7. front \o Zeros(n) \in Seq(Int)
  BY <1>4, <1>5, Joined
<1>8. (front \o Zeros(n)) \o digits \in Seq(Int)
  BY <1>2, <1>7, Joined
<1> QED
  BY <1>6, <1>8

\* What jm_print writes: all of the text if it fits, and never more than Size.
LEMMA PrintedIs ==
  ASSUME NEW c \in Conversion, NEW v \in Value(c)
  PROVE  /\ Printed(c, v, Size) \in Seq(Int) /\ Len(Printed(c, v, Size)) <= Size
         /\ <<32>> \o ArgText(c, v) \in Seq(Int)
         /\ Len(<<32>> \o ArgText(c, v)) = Len(ArgText(c, v)) + 1
         /\ ~(Len(ArgText(c, v)) + 2 > Size)
              => Printed(c, v, Size) = Append(<<32>> \o ArgText(c, v), 0)
<1> DEFINE A == ArgText(c, v)
           one == <<32>>
           X == one \o A
           s == Cut(X, Size - 1)
<1>1. A \in Seq(Int) /\ one \in Seq(Int) /\ Len(one) = 1 /\ Len(A) \in Nat
  BY ArgTextIs
<1> HIDE DEF A, one
<1>2. X \in Seq(Int) /\ Len(X) = Len(A) + 1
  <2>1. X \in Seq(Int) /\ Len(X) = Len(one) + Len(A)
    BY <1>1, Joined
  <2> QED
    BY <1>1, <2>1
<1> HIDE DEF X
<1>3. Size - 1 \in Nat /\ Size \in Nat
  BY WordAssumption
<1>4. /\ s \in Seq(Int) /\ Len(s) = IF Len(X) < Size - 1 THEN Len(X) ELSE Size - 1
      /\ \A i \in 1 .. Len(s) : s[i] = X[i]
  BY <1>2, <1>3, CutIs
<1> HIDE DEF s
<1>5. Append(s, 0) \in Seq(Int) /\ Len(Append(s, 0)) = Len(s) + 1
  <2>1. 0 \in Int
    OBVIOUS
  <2> QED
    BY <1>4, <2>1, Longer
<1>6. Len(Append(s, 0)) <= Size
  BY <1>1, <1>2, <1>3, <1>4, <1>5
<1>7. ~(Len(A) + 2 > Size) => s = X
  <2> SUFFICES ASSUME ~(Len(A) + 2 > Size) PROVE s = X
    OBVIOUS
  <2>1. Len(s) = Len(X)
    BY <1>1, <1>2, <1>3, <1>4
  <2> QED
    BY <1>2, <1>4, <2>1, SameSequence
<1>8. Printed(c, v, Size) = Append(s, 0)
  BY DEF Printed, s, X, A, one
<1> QED
  BY <1>2, <1>5, <1>6, <1>7, <1>8 DEF X, A, one

\* The inductive invariant: the array begins with the text that was written.
Begins(text) == \E rest \in Seq(Int) : array = text \o rest
ArrayInv ==
  /\ array \in Seq(Int)
  /\ written.by = "jm_print" =>
       /\ written.of \in Format /\ written.value \in Value(written.of)
       /\ Begins(Printed(written.of, written.value, Size))
  /\ written.by = "jm_sprintf" =>
       /\ written.of \in Format /\ written.value \in Value(written.of)
       /\ Sprints(written.of)
       /\ Begins(Sprintf(written.of, written.value))
  /\ written.by = "_kv_getStrVal" =>
       \E w \in Given : /\ w.type \in Types /\ written.of = w.type /\ written.value = w.v
                        /\ Begins(StrVal(w))

\* What a step that writes leaves in the array.
LEMMA WriteLeaves ==
  ASSUME array \in Seq(Int), NEW text \in Seq(Int), NEW by, NEW of, NEW value,
         Write(text, by, of, value)
  PROVE  /\ array' \in Seq(Int) /\ \E rest \in Seq(Int) : array' = text \o rest
         /\ array' = text \o After(array, Len(text)) /\ Len(text) <= Len(array)
         /\ written'.by = by /\ written'.of = of /\ written'.value = value
         /\ got' = Nothing
<1>1. /\ Len(text) < Len(array) /\ array' = text \o After(array, Len(text))
      /\ written' = [by |-> by, of |-> of, value |-> value] /\ got' = Nothing
  BY DEF Write
<1>2. Len(text) <= Len(array)
  BY <1>1
<1>3. After(array, Len(text)) \in Seq(Int) /\ text \o After(array, Len(text)) \in Seq(Int)
  BY <1>2, OverFront
<1> QED
  BY <1>1, <1>2, <1>3

LEMMA PrintKeeps ==
  ASSUME ArrayInv, NEW c \in Format, NEW v \in Value(c), PrintValue(c, v)
  PROVE  /\ ArrayInv' /\ got' = Nothing
         /\ written'.by = "jm_print" /\ After(array', Size) = After(array, Size)
<1> DEFINE text == Printed(c, v, Size)
<1>1. c \in Conversion /\ Size \in Nat
  BY WordAssumption
<1>2. text \in Seq(Int) /\ Len(text) <= Size
  BY <1>1, PrintedIs
<1>3. array \in Seq(Int) /\ Write(text, "jm_print", c, v)
  BY DEF ArrayInv, PrintValue
<1> HIDE DEF text
<1>4. /\ array' \in Seq(Int) /\ \E rest \in Seq(Int) : array' = text \o rest
      /\ array' = text \o After(array, Len(text)) /\ Len(text) <= Len(array)
      /\ written'.by = "jm_print" /\ written'.of = c /\ written'.value = v
      /\ got' = Nothing
  BY <1>2, <1>3, WriteLeaves
<1>5. After(array', Size) = After(array, Size)
  BY <1>1, <1>2, <1>3, <1>4, BehindStays
<1>6. ArrayInv'
  BY <1>4 DEF ArrayInv, Begins, text
<1> QED
  BY <1>4, <1>5, <1>6

LEMMA SprintKeeps ==
  ASSUME ArrayInv, NEW c \in Format, NEW v \in Value(c), SprintValue(c, v)
  PROVE  ArrayInv' /\ got' = Nothing /\ written'.by = "jm_sprintf"
<1> DEFINE text == Sprintf(c, v)
<1>1. c \in Conversion /\ Sprints(c) /\ c.letter \in {"d", "x"}
  BY WordAssumption DEF SprintValue, Sprints
<1>2. text \in Seq(Int)
  BY <1>1, SprintfIs
<1>3. array \in Seq(Int) /\ Write(text, "jm_sprintf", c, v)
  BY DEF ArrayInv, SprintValue
<1> HIDE DEF text
<1>4. /\ array' \in Seq(Int) /\ \E rest \in Seq(Int) : array' = text \o rest
      /\ written'.by = "jm_sprintf" /\ written'.of = c /\ written'.value = v
      /\ got' = Nothing
  BY <1>2, <1>3, WriteLeaves
<1>5. ArrayInv'
  BY <1>1, <1>4 DEF ArrayInv, Begins, text
<1> QED
  BY <1>4, <1>5

LEMMA StrValKeeps ==
  ASSUME ArrayInv, NEW w \in Given, WriteStrVal(w)
  PROVE  /\ ArrayInv' /\ got' = Nothing /\ written'.by = "_kv_getStrVal"
         /\ Fits(written'.of, written'.value) => After(array', StrSize) = After(array, StrSize)
<1> DEFINE text == StrVal(w)
<1>1. /\ w.type \in Types /\ (w.type \in Numeric \cup {"char"} => w.v \in Int)
      /\ w.type \in {"boolean", "string"} => w.v \in Seq(1 .. 255)
  BY ValueTextAssumption DEF WriteStrVal
<1>2. text \in Seq(Int)
  <2>1. StrVal(w) = Append(Plain(w), 0) /\ Plain(w) \in Seq(Int)
    BY <1>1, PlainIs
  <2>2. 0 \in Int
    OBVIOUS
  <2>3. Append(Plain(w), 0) \in Seq(Int)
    BY <2>1, <2>2, Longer
  <2> QED
    BY <2>1, <2>3
<1>3. array \in Seq(Int) /\ Write(text, "_kv_getStrVal", w.type, w.v)
  BY DEF ArrayInv, WriteStrVal
<1>4. Fits(w.type, w.v) => Len(text) <= StrSize
  BY DEF Fits, StrVal
<1> HIDE DEF text
<1>5. /\ array' \in Seq(Int) /\ \E rest \in Seq(Int) : array' = text \o rest
      /\ array' = text \o After(array, Len(text)) /\ Len(text) <= Len(array)
      /\ written'.by = "_kv_getStrVal" /\ written'.of = w.type /\ written'.value = w.v
      /\ got' = Nothing
  BY <1>2, <1>3, WriteLeaves
<1>6. Fits(w.type, w.v) => After(array', StrSize) = After(array, StrSize)
  <2>1. StrSize \in Nat
    BY ValueTextAssumption
  <2> QED
    BY <1>2, <1>3, <1>4, <1>5, <2>1, BehindStays
<1>7. ArrayInv'
  BY <1>1, <1>5 DEF ArrayInv, Begins, text
<1> QED
  BY <1>5, <1>6, <1>7

LEMMA ScanReads ==
  ASSUME ArrayInv, Scan PROVE ArrayInv' /\ ReadsBack' /\ ValuesComeBack'
<1>1. /\ UNCHANGED <<array, written>> /\ written.by \in {"jm_print", "jm_sprintf"}
      /\ got' = Read(written.of.letter, array)
  BY DEF Scan
<1>2. ArrayInv' /\ ValuesComeBack'
  BY <1>1 DEF ArrayInv, Begins, ValuesComeBack
<1> DEFINE c == written.of
           v == written.value
<1>3. ASSUME written.by = "jm_print", ~Unreadable(c, v)
      PROVE  got' = [used |-> Len(ArgText(c, v)) + 1, value |-> v]
  <2> DEFINE X == <<32>> \o ArgText(c, v)
  <2>1. c \in Conversion /\ v \in Value(c) /\ Begins(Printed(c, v, Size))
    BY <1>3, WordAssumption DEF ArrayInv
  <2>2. /\ ~(Len(ArgText(c, v)) + 2 > Size)
        /\ ~(c.letter = "d" /\ v < 0 /\ (c.zero \/ v = -Half))
    BY <1>3 DEF Unreadable
  <2>3. X \in Seq(Int) /\ Len(X) = Len(ArgText(c, v)) + 1 /\ Printed(c, v, Size) = Append(X, 0)
    BY <2>1, <2>2, PrintedIs
  <2>4. ReadIs(X, c, v)
    BY <2>1, <2>2, PrintReads
  <2> HIDE DEF c, v, X
  <2>5. PICK rest \in Seq(Int) : array = Append(X, 0) \o rest
    BY <2>1, <2>3 DEF Begins
  <2> DEFINE behind == <<0>> \o rest
  <2>6. array = X \o behind /\ behind \in Seq(Int) /\ behind # << >> /\ behind[1] = 0
    BY <2>3, <2>5, EndedText
  <2> HIDE DEF behind
  <2>7. Stops(c.letter, behind)
    <3>1. \A b : 0 \notin Stopped(b)
      BY DEF Stopped, Decimal, Hexadecimal
    <3> QED
      BY <2>6, <3>1 DEF Stops
  <2>8. Read(c.letter, X \o behind) = [used |-> Len(X), value |-> v]
    BY <2>4, <2>7 DEF ReadIs
  <2> QED
    BY <1>1, <2>3, <2>6, <2>8 DEF c
<1>4. ASSUME written.by = "jm_sprintf", ~RunsOn(c, v)
      PROVE  got' = [used |-> Len(Sprintf(c, v)), value |-> v]
  <2> DEFINE X == Sprintf(c, v)
  <2>1. /\ c \in Conversion /\ v \in Value(c) /\ Begins(X) /\ c.letter \in {"d", "x"}
    BY <1>4, WordAssumption DEF ArrayInv, Sprints
  <2>2. X \in Seq(Int) /\ ReadIs(X, c, v)
    BY <2>1, SprintfIs, SprintfReads
  <2>3. ~StartsWith(After(array, Len(X)),
                    IF c.letter = "d" THEN Decimal ELSE Hexadecimal \cup {120})
    BY <1>4 DEF RunsOn
  <2> HIDE DEF c, v, X
  <2>4. PICK behind \in Seq(Int) : array = X \o behind
    BY <2>1 DEF Begins
  <2>5. After(array, Len(X)) = behind
    BY <2>2, <2>4, BehindText
  <2>6. Stopped(BaseOf(c.letter)) = IF c.letter = "d" THEN Decimal ELSE Hexadecimal \cup {120}
    BY <2>1 DEF Stopped, BaseOf, Of10
  <2>7. Stops(c.letter, behind)
    BY <2>3, <2>5, <2>6 DEF Stops, StartsWith
  <2>8. Read(c.letter, X \o behind) = [used |-> Len(X), value |-> v]
    BY <2>2, <2>7 DEF ReadIs
  <2> QED
    BY <1>1, <2>4, <2>8 DEF c, X
<1>5. ReadsBack'
  BY <1>1, <1>3, <1>4 DEF ReadsBack, Unreadable, RunsOn
<1> QED
  BY <1>2, <1>5

LEMMA ResultReads ==
  ASSUME ArrayInv, ReadResult PROVE ArrayInv' /\ ReadsBack' /\ ValuesComeBack'
<1>1. /\ UNCHANGED <<array, written>> /\ written.by = "_kv_getStrVal"
      /\ got' = OfText(written.of, CString(array))
  BY DEF ReadResult
<1>2. ArrayInv' /\ ReadsBack'
  BY <1>1 DEF ArrayInv, Begins, ReadsBack
<1>3. ValuesComeBack'
  <2> SUFFICES ASSUME OfItsType(written.of, written.value)
               PROVE  OfText(written.of, CString(array)) = written.value
    BY <1>1 DEF ValuesComeBack
  <2>1. PICK w \in Given : /\ w.type \in Types /\ written.of = w.type /\ written.value = w.v
                           /\ Begins(StrVal(w))
    BY <1>1 DEF ArrayInv
  <2>2. PICK rest \in Seq(Int) : array = StrVal(w) \o rest
    BY <2>1 DEF Begins
  <2>3. StrVal(w) = Append(Plain(w), 0)
    BY DEF StrVal, Plain
  <2>4. OfText(w.type, Plain(w)) = w.v /\ Plain(w) \in Seq(1 .. 255)
    BY <2>1, TextBack
  <2>5. CString(array) = Plain(w)
    BY <2>2, <2>3, <2>4, CStringIs
  <2> QED
    BY <2>1, <2>4, <2>5
<1> QED
  BY <1>2, <1>3

TextInv == ArrayInv /\ ReadsBack /\ ValuesComeBack

LEMMA TextInvHolds == Spec => []TextInv
<1>1. Init => TextInv
  <2> SUFFICES ASSUME Init PROVE TextInv
    OBVIOUS
  <2>1. array \in Seq(Int) /\ written.by = "nobody" /\ got = Nothing
    BY ValueTextAssumption DEF Init
  <2> QED
    BY <2>1 DEF TextInv, ArrayInv, ReadsBack, ValuesComeBack
<1>2. TextInv /\ [Next]_vars => TextInv'
  <2> SUFFICES ASSUME TextInv, [Next]_vars PROVE TextInv'
    OBVIOUS
  <2>1. ArrayInv
    BY DEF TextInv
  <2>2. ASSUME NEW c \in Format, NEW v \in Value(c), PrintValue(c, v) PROVE TextInv'
    <3>1. ArrayInv' /\ got' = Nothing
      BY <2>1, <2>2, PrintKeeps
    <3> QED
      BY <3>1 DEF TextInv, ReadsBack, ValuesComeBack
  <2>3. ASSUME NEW c \in Format, NEW v \in Value(c), SprintValue(c, v) PROVE TextInv'
    <3>1. ArrayInv' /\ got' = Nothing
      BY <2>1, <2>3, SprintKeeps
    <3> QED
      BY <3>1 DEF TextInv, ReadsBack, ValuesComeBack
  <2>4. ASSUME NEW w \in Given, WriteStrVal(w) PROVE TextInv'
    <3>1. ArrayInv' /\ got' = Nothing
      BY <2>1, <2>4, StrValKeeps
    <3> QED
      BY <3>1 DEF TextInv, ReadsBack, ValuesComeBack
  <2>5. CASE Scan
    BY <2>1, <2>5, ScanReads DEF TextInv
  <2>6. CASE ReadResult
    BY <2>1, <2>6, ResultReads DEF TextInv
  <2>7. CASE UNCHANGED vars
    BY <2>7 DEF TextInv, ArrayInv, Begins, ReadsBack, Unreadable, RunsOn, ValuesComeBack, vars
  <2> QED
    BY <2>2, <2>3, <2>4, <2>5, <2>6, <2>7 DEF Next
<1> QED
  BY <1>1, <1>2, PTL DEF Spec

\* Every number, in every format and any width of int, survives being written
\* by jm_print or jm_sprintf and read by jm_scan, which stops where the text
\* does whatever the array held before: behind jm_sprintf, which writes no NUL,
\* unless that goes on as a number (jm_stdcimpl.c:56, :520, :825).
THEOREM NumbersReadBack == Spec => []ReadsBack
<1>1. TextInv => ReadsBack
  BY DEF TextInv
<1> QED
  BY <1>1, TextInvHolds, PTL

\* Every value that is of its type and no long that an int cannot hold is the one
\* _kv_getResult makes of _kv_getStrVal's text, whatever widths the number types
\* have (jm_client.c:1676, :1784).
THEOREM ValuesAlwaysComeBack == Spec => []ValuesComeBack
<1>1. TextInv => ValuesComeBack
  BY DEF TextInv
<1> QED
  BY <1>1, TextInvHolds, PTL

\* jm_print never writes behind the array it is given, for any size and format,
\* and _kv_getStrVal not for a number whose digits fit (jm_stdcimpl.c:844,
\* jm_client.c:1733).
THEOREM TextStaysInArray == Spec => StaysInArray
<1> DEFINE Stays == /\ written'.by = "jm_print" => After(array', Size) = After(array, Size)
                    /\ written'.by = "_kv_getStrVal" /\ Fits(written'.of, written'.value)
                         => After(array', StrSize) = After(array, StrSize)
<1>1. ArrayInv /\ [Next]_vars => [Stays]_vars
  <2> SUFFICES ASSUME ArrayInv, Next PROVE Stays
    OBVIOUS
  <2>1. ASSUME NEW c \in Format, NEW v \in Value(c), PrintValue(c, v) PROVE Stays
    BY <2>1, PrintKeeps
  <2>2. ASSUME NEW c \in Format, NEW v \in Value(c), SprintValue(c, v) PROVE Stays
    BY <2>2, SprintKeeps
  <2>3. ASSUME NEW w \in Given, WriteStrVal(w) PROVE Stays
    BY <2>3, StrValKeeps
  <2>4. CASE Scan \/ ReadResult
    BY <2>4 DEF Scan, ReadResult
  <2> QED
    BY <2>1, <2>2, <2>3, <2>4 DEF Next
<1>2. TextInv => ArrayInv
  BY DEF TextInv
<1> QED
  BY <1>1, <1>2, TextInvHolds, PTL DEF Spec, StaysInArray

=============================================================================
