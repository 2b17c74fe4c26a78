----------------------------- MODULE CodecProofs -----------------------------
(***************************************************************************)
(* That what the encoders of Codec write, its decoders read back: as what, *)
(* is said in Message, beside the properties of a message that arrived.    *)
(***************************************************************************)
EXTENDS Message, SequenceTheorems, WellFoundedInduction, TLAPS

-----------------------------------------------------------------------------
(* Sequences                                                               *)

\* A set with 0 and every successor of its own numbers holds them all.
LEMMA EveryNumber ==
  ASSUME NEW S \in SUBSET Nat, 0 \in S, \A n \in S : n + 1 \in S
  PROVE  S = Nat
<1> DEFINE R == OpToRel(<, Nat)
           T == Nat \ S
<1>1. R = {r \in Nat \X Nat : r[1] < r[2]}
  BY DEF OpToRel
<1>2. IsWellFoundedOn(R, Nat)
  BY NatLessThanWellFounded
<1> HIDE DEF R
<1>3. SUFFICES ASSUME T # {} PROVE FALSE
  OBVIOUS
<1>4. PICK x \in T : \A y \in T : ~(<<y, x>> \in R)
  <2>1. T \subseteq Nat
    OBVIOUS
  <2> HIDE DEF T
  <2> QED
    BY <1>2, <1>3, <2>1, WFMin
<1>5. x \in Nat /\ x # 0 /\ x - 1 \in Nat /\ (x - 1) + 1 = x
  OBVIOUS
<1>6. x - 1 \notin S
  BY <1>5
<1>7. <<x - 1, x>> \in Nat \X Nat /\ <<x - 1, x>>[1] = x - 1 /\ <<x - 1, x>>[2] = x
  BY <1>5
<1> QED
  BY <1>1, <1>4, <1>5, <1>6, <1>7

\* What two sequences make.
LEMMA Joining ==
  ASSUME NEW S, NEW s \in Seq(S), NEW t \in Seq(S)
  PROVE  /\ s \o t \in Seq(S) /\ Len(s \o t) = Len(s) + Len(t)
         /\ Len(s) \in Nat /\ Len(t) \in Nat
         /\ \A i \in 1 .. Len(s) : (s \o t)[i] = s[i]
         /\ \A i \in 1 .. Len(t) : (s \o t)[Len(s) + i] = t[i]
OBVIOUS

LEMMA SameSequence ==
  ASSUME NEW S, NEW s \in Seq(S), NEW t \in Seq(S), Len(s) = Len(t),
         \A i \in 1 .. Len(s) : s[i] = t[i]
  PROVE  s = t
OBVIOUS

\* The part of a sequence between two of its places.
LEMMA PartIs ==
  ASSUME NEW S, NEW s \in Seq(S), NEW m \in Nat, NEW n \in Nat, m <= n, n <= Len(s)
  PROVE  /\ SubSeq(s, m + 1, n) \in Seq(S) /\ Len(SubSeq(s, m + 1, n)) = n - m
         /\ \A i \in 1 .. n - m : SubSeq(s, m + 1, n)[i] = s[m + i]
<1>1. \A i \in (m + 1) .. n : s[i] \in S
  OBVIOUS
<1>2. m + 1 \in Int /\ n \in Int
  OBVIOUS
<1>3. /\ SubSeq(s, m + 1, n) \in Seq(S)
      /\ Len(SubSeq(s, m + 1, n)) = IF m + 1 <= n THEN n - (m + 1) + 1 ELSE 0
      /\ \A i \in 1 .. n - (m + 1) + 1 : SubSeq(s, m + 1, n)[i] = s[(m + 1) + i - 1]
  BY <1>1, <1>2, SubSeqProperties
<1>4. n - (m + 1) + 1 = n - m /\ \A i \in Int : (m + 1) + i - 1 = m + i
  OBVIOUS
<1> QED
  BY <1>3, <1>4

-----------------------------------------------------------------------------
(* A reader of bytes, some way through them                                *)

Rest(s, n) == SubSeq(s, n + 1, Len(s))
At(s, n, v) == Reading(Rest(s, n), TRUE, FALSE, v)

\* A reader of s that has read what w has written.
After(s, w, v) == At(s, Len(w.bytes), v)

\* The provers find a lemma that says what a call gives by this name of it.
Gives(call, r) == call = r

LEMMA RestIs ==
  ASSUME NEW S, NEW s \in Seq(S), NEW n \in Nat, n <= Len(s)
  PROVE  /\ Rest(s, n) \in Seq(S) /\ Len(Rest(s, n)) = Len(s) - n
         /\ \A i \in 1 .. Len(s) - n : Rest(s, n)[i] = s[n + i]
BY PartIs DEF Rest

LEMMA RestOfRest ==
  ASSUME NEW S, NEW s \in Seq(S), NEW n \in Nat, NEW k \in Nat, n + k <= Len(s)
  PROVE  Rest(Rest(s, n), k) = Rest(s, n + k)
<1> DEFINE a == Rest(s, n)
           b == Rest(a, k)
           c == Rest(s, n + k)
<1>0. n <= Len(s) /\ n + k \in Nat
  OBVIOUS
<1>1. /\ a \in Seq(S) /\ Len(a) = Len(s) - n
      /\ \A i \in 1 .. Len(s) - n : a[i] = s[n + i]
  BY <1>0, RestIs
<1>2. /\ c \in Seq(S) /\ Len(c) = Len(s) - (n + k)
      /\ \A i \in 1 .. Len(s) - (n + k) : c[i] = s[n + k + i]
  BY <1>0, RestIs
<1> HIDE DEF a, c
<1>3. k <= Len(a)
  BY <1>1
<1>4. /\ b \in Seq(S) /\ Len(b) = Len(a) - k
      /\ \A i \in 1 .. Len(a) - k : b[i] = a[k + i]
  BY <1>1, <1>3, RestIs
<1> HIDE DEF b
<1>5. Len(b) = Len(c)
  BY <1>1, <1>2, <1>4
<1>6. ASSUME NEW i \in 1 .. Len(b) PROVE b[i] = c[i]
  <2>1. i \in 1 .. Len(a) - k /\ k + i \in 1 .. Len(s) - n /\ i \in 1 .. Len(s) - (n + k)
    BY <1>1, <1>4
  <2>2. b[i] = a[k + i] /\ a[k + i] = s[n + (k + i)] /\ c[i] = s[n + k + i]
    BY <1>1, <1>2, <1>4, <2>1
  <2>3. n + (k + i) = n + k + i
    BY <2>1
  <2> QED
    BY <2>2, <2>3
<1>7. b = c
  BY <1>2, <1>4, <1>5, <1>6, SameSequence
<1> QED
  BY <1>7 DEF a, b, c

LEMMA RestOfAll ==
  ASSUME NEW S, NEW s \in Seq(S)
  PROVE  Rest(s, 0) = s
BY SubSeqFull DEF Rest

\* Taking bytes of which there are enough.
LEMMA TakeAt ==
  ASSUME NEW s \in Seq(Byte), NEW n \in Nat, NEW k \in Nat,
         n < Len(s), n + k <= Len(s), NEW v
  PROVE  Take(At(s, n, v), k) = At(s, n + k, SubSeq(s, n + 1, n + k))
<1> DEFINE a == Rest(s, n)
<1>0. n <= Len(s)
  OBVIOUS
<1>1. /\ a \in Seq(Byte) /\ Len(a) = Len(s) - n
      /\ \A i \in 1 .. Len(s) - n : a[i] = s[n + i]
  BY <1>0, RestIs
<1>2. Rest(a, k) = Rest(s, n + k)
  BY RestOfRest
<1>3. SubSeq(a, 1, k) = SubSeq(s, n + 1, n + k)
  <2> DEFINE b == SubSeq(a, 1, k)
             c == SubSeq(s, n + 1, n + k)
  <2>1. /\ c \in Seq(Byte) /\ Len(c) = (n + k) - n
        /\ \A i \in 1 .. (n + k) - n : c[i] = s[n + i]
    BY PartIs
  <2>2. /\ b \in Seq(Byte) /\ Len(b) = k
        /\ \A i \in 1 .. k : b[i] = a[i]
    <3> HIDE DEF a
    <3>1. /\ SubSeq(a, 0 + 1, k) \in Seq(Byte) /\ Len(SubSeq(a, 0 + 1, k)) = k - 0
          /\ \A i \in 1 .. k - 0 : SubSeq(a, 0 + 1, k)[i] = a[0 + i]
      BY <1>1, PartIs
    <3>2. 0 + 1 = 1 /\ k - 0 = k /\ \A i \in 1 .. k : 0 + i = i
      OBVIOUS
    <3> QED
      BY <3>1, <3>2
  <2> HIDE DEF a, b, c
  <2>3. Len(b) = Len(c) /\ \A i \in 1 .. Len(b) : b[i] = c[i]
    <3>1. (n + k) - n = k /\ k <= Len(s) - n
      OBVIOUS
    <3>2. ASSUME NEW i \in 1 .. k PROVE b[i] = c[i]
      <4>1. i \in 1 .. (n + k) - n /\ i \in 1 .. Len(s) - n
        BY <3>1
      <4>2. a[i] = s[n + i] /\ c[i] = s[n + i] /\ b[i] = a[i]
        BY <1>1, <2>1, <2>2, <4>1
      <4> QED
        BY <4>2
    <3> QED
      BY <2>1, <2>2, <3>1, <3>2
  <2>4. b = c
    BY <2>1, <2>2, <2>3, SameSequence
  <2> QED
    BY <2>4 DEF b, c
<1> HIDE DEF a
<1>4. a # <<>> /\ k \in 0 .. Len(a)
  BY <1>1
<1>5. At(s, n, v) = Reading(a, TRUE, FALSE, v)
  BY DEF At, a
<1>6. Take(At(s, n, v), k)
        = Reading(SubSeq(a, k + 1, Len(a)), TRUE, FALSE, SubSeq(a, 1, k))
  BY <1>4, <1>5 DEF Take, Reading
<1>7. SubSeq(a, k + 1, Len(a)) = Rest(s, n + k)
  BY <1>2 DEF Rest
<1> QED
  BY <1>3, <1>6, <1>7 DEF At

-----------------------------------------------------------------------------
(* Writers                                                                 *)

\* A buffer that any of the encoders may be called with: what was lost was
\* lost at its end.
Sound(w) ==
  /\ w \in WriterState /\ w.cap < 32768 /\ Len(w.bytes) <= w.cap
  /\ w.lost => Len(w.bytes) + 2 > w.cap

Starts(s, t) == Len(t) <= Len(s) /\ \A i \in 1 .. Len(t) : s[i] = t[i]

\* w2 is what an encoder made of w.
Grown(w, w2) ==
  /\ Sound(w) /\ Sound(w2)
  /\ w2.cap = w.cap /\ Starts(w2.bytes, w.bytes)
  /\ w.lost => w2.lost
  /\ w2.ok => w.ok

\* s holds what w has written; where something was lost, s is no longer than
\* the buffer.
Held(w, s) ==
  /\ w \in WriterState /\ w.ok
  /\ s \in Seq(Byte) /\ Starts(s, w.bytes)
  /\ w.lost => Len(s) <= w.cap

\* w2 is w with t behind it.
Added(w, w2, t) ==
  /\ w2.ok /\ w2.lost = w.lost /\ w2.cap = w.cap
  /\ Len(w2.bytes) = Len(w.bytes) + Len(t)
  /\ \A i \in 1 .. Len(t) : w2.bytes[Len(w.bytes) + i] = t[i]

LEMMA GrownIsReflexive ==
  ASSUME NEW w, Sound(w)
  PROVE  Grown(w, w)
BY DEF Grown, Sound, WriterState, Starts

LEMMA GrownIsTransitive ==
  ASSUME NEW w, NEW w2, NEW w3, Grown(w, w2), Grown(w2, w3)
  PROVE  Grown(w, w3)
<1>1. w.bytes \in Seq(Byte) /\ w2.bytes \in Seq(Byte) /\ w3.bytes \in Seq(Byte)
  BY DEF Grown, Sound, WriterState
<1>2. Starts(w2.bytes, w.bytes) /\ Starts(w3.bytes, w2.bytes)
  BY DEF Grown
<1>3. Starts(w3.bytes, w.bytes)
  BY <1>1, <1>2 DEF Starts
<1> QED
  BY <1>3 DEF Grown

LEMMA HeldBefore ==
  ASSUME NEW w, NEW w2, NEW s, Grown(w, w2), Held(w2, s)
  PROVE  Held(w, s) /\ Len(w.bytes) \in Nat /\ Len(w2.bytes) \in Nat
         /\ Len(w.bytes) <= Len(w2.bytes) /\ Len(w2.bytes) <= Len(s)
<1>1. w.bytes \in Seq(Byte) /\ w2.bytes \in Seq(Byte) /\ s \in Seq(Byte)
  BY DEF Grown, Sound, WriterState, Held
<1>2. Starts(w2.bytes, w.bytes) /\ Starts(s, w2.bytes)
  BY DEF Grown, Held
<1>3. Starts(s, w.bytes)
  BY <1>1, <1>2 DEF Starts
<1>4. w \in WriterState /\ w.ok /\ w2.cap = w.cap
  BY DEF Grown, Sound, Held
<1>5. w.lost => Len(s) <= w.cap
  BY DEF Grown, Held
<1> QED
  BY <1>1, <1>2, <1>3, <1>4, <1>5 DEF Held, Starts

\* What a checked put, and one whose result nobody looks at, make.
LEMMA PutGrows ==
  ASSUME NEW w, Sound(w), NEW t \in Seq(Byte)
  PROVE  /\ Grown(w, Put(w, t))
         /\ Put(w, t).ok => Added(w, Put(w, t), t) /\ Len(w.bytes) < w.cap
<1> DEFINE w2 == Put(w, t)
           b == w.bytes
           l == b \o t
<1>1. /\ b \in Seq(Byte) /\ w.cap \in Nat /\ w.ok \in BOOLEAN /\ w.lost \in BOOLEAN
      /\ Len(b) <= w.cap /\ Len(b) \in Nat /\ Len(t) \in Nat /\ w.cap < 32768
      /\ w.lost => Len(b) + 2 > w.cap
  BY DEF Sound, WriterState
<1>2. /\ l \in Seq(Byte) /\ Len(l) = Len(b) + Len(t)
      /\ \A i \in 1 .. Len(b) : l[i] = b[i]
      /\ \A i \in 1 .. Len(t) : l[Len(b) + i] = t[i]
  <2>1. b \in Seq(Byte)
    BY <1>1
  <2> HIDE DEF b
  <2> QED
    BY <2>1, Joining
<1>3. CASE ~w.ok
  <2>1. w2 = w
    BY <1>3 DEF Put
  <2> QED
    BY <1>3, <2>1, GrownIsReflexive
<1>4. CASE w.ok /\ ~Room(w, Len(t))
  <2>1. w2 = Writing(b, w.cap, FALSE, w.lost)
    BY <1>4 DEF Put, Refused
  <2>2. w2.bytes = b /\ w2.cap = w.cap /\ w2.ok = FALSE /\ w2.lost = w.lost
    BY <2>1 DEF Writing
  <2>3. w2 \in WriterState
    BY <1>1, <2>1 DEF Writing, WriterState
  <2> HIDE DEF w2
  <2>4. Sound(w2) /\ Starts(w2.bytes, b)
    BY <1>1, <2>2, <2>3 DEF Sound, Starts
  <2>5. Grown(w, w2)
    BY <2>2, <2>4 DEF Grown
  <2> QED
    BY <2>2, <2>5 DEF w2
<1>5. CASE w.ok /\ Room(w, Len(t))
  <2>1. w2 = Writing(l, w.cap, TRUE, w.lost)
    BY <1>5 DEF Put
  <2>2. w2.bytes = l /\ w2.cap = w.cap /\ w2.ok = TRUE /\ w2.lost = w.lost
    BY <2>1 DEF Writing
  <2>3. w2 \in WriterState
    BY <1>1, <1>2, <2>1 DEF Writing, WriterState
  <2>4. Len(b) < w.cap /\ Len(l) <= w.cap
    BY <1>2, <1>5 DEF Room
  <2> HIDE DEF w2, l
  <2>5. Sound(w2) /\ Starts(w2.bytes, b)
    BY <1>1, <1>2, <2>2, <2>3, <2>4 DEF Sound, Starts
  <2>6. Grown(w, w2)
    BY <1>5, <2>2, <2>5 DEF Grown
  <2>7. Added(w, w2, t)
    BY <1>2, <2>2 DEF Added
  <2> QED
    BY <2>4, <2>6, <2>7 DEF w2
<1> QED
  BY <1>3, <1>4, <1>5

LEMMA PutUncheckedGrows ==
  ASSUME NEW w, Sound(w), NEW t \in Seq(Byte), Len(t) \in {1, 2}
  PROVE  /\ Grown(w, PutUnchecked(w, t))
         /\ PutUnchecked(w, t).ok = w.ok
         /\ w.ok => IF Len(w.bytes) + Len(t) <= w.cap
                    THEN Added(w, PutUnchecked(w, t), t)
                    ELSE /\ PutUnchecked(w, t).lost
                         /\ PutUnchecked(w, t).bytes = w.bytes
<1> DEFINE w2 == PutUnchecked(w, t)
           b == w.bytes
<1>1. /\ b \in Seq(Byte) /\ w.cap \in Nat /\ w.ok \in BOOLEAN /\ w.lost \in BOOLEAN
      /\ Len(b) <= w.cap /\ Len(b) \in Nat /\ Len(t) \in Nat /\ w.cap < 32768
      /\ w.lost => Len(b) + 2 > w.cap
  BY DEF Sound, WriterState
<1> DEFINE n == Len(b)
           k == Len(t)
<1>a. n \in Nat /\ k \in Nat /\ w.cap \in Nat /\ (k = 1 \/ k = 2)
  BY <1>1
<1>b. Room(w, k) <=> n < w.cap /\ n + k <= w.cap
  BY DEF Room
<1>2. Room(w, k) <=> n + k <= w.cap
  <2> HIDE DEF n, k
  <2> QED
    BY <1>a, <1>b
<1>3. CASE w.ok /\ ~Room(w, Len(t))
  <2>1. w2 = Writing(b, w.cap, TRUE, TRUE)
    BY <1>3 DEF PutUnchecked
  <2>2. w2.bytes = b /\ w2.cap = w.cap /\ w2.ok = TRUE /\ w2.lost = TRUE
    BY <2>1 DEF Writing
  <2>3. w2 \in WriterState
    BY <1>1, <2>1 DEF Writing, WriterState
  <2>4. Len(b) + 2 > w.cap
    <3>1. ~(n + k <= w.cap)
      BY <1>2, <1>3
    <3> HIDE DEF n, k
    <3>2. n + 2 > w.cap
      BY <1>a, <3>1
    <3> QED
      BY <3>2 DEF n
  <2> HIDE DEF w2
  <2>5. Sound(w2) /\ Starts(w2.bytes, b)
    BY <1>1, <2>2, <2>3, <2>4 DEF Sound, Starts
  <2>6. Grown(w, w2)
    BY <1>3, <2>2, <2>5 DEF Grown
  <2> QED
    BY <1>2, <1>3, <2>2, <2>6 DEF w2
<1>4. CASE ~w.ok \/ Room(w, Len(t))
  <2>1. w2 = Put(w, t)
    BY <1>4 DEF PutUnchecked
  <2>2. Grown(w, w2) /\ (w2.ok => Added(w, w2, t))
    BY <2>1, PutGrows
  <2>3. w2.ok = w.ok
    <3>1. CASE ~w.ok
      BY <2>1, <3>1 DEF Put
    <3>2. CASE w.ok
      <4>1. w2 = Writing(b \o t, w.cap, TRUE, w.lost)
        BY <1>4, <2>1, <3>2 DEF Put
      <4> QED
        BY <3>2, <4>1 DEF Writing
    <3> QED
      BY <1>1, <3>1, <3>2
  <2> HIDE DEF w2
  <2>4. w.ok => Len(b) + Len(t) <= w.cap
    BY <1>2, <1>4
  <2> QED
    BY <2>2, <2>3, <2>4 DEF w2
<1> QED
  BY <1>3, <1>4

\* t is what w2 has more than w, and s holds what w2 has.
Carried(w, w2, t, s) ==
  Grown(w, w2) /\ Added(w, w2, t) /\ Held(w2, s) /\ t \in Seq(Byte) /\ Len(t) > 0

\* Reading back what was put.
LEMMA AddedIsRead ==
  ASSUME NEW w, NEW w2, NEW t, NEW s, NEW v, Carried(w, w2, t, s)
  PROVE  Gives(Take(After(s, w, v), Len(t)), After(s, w2, t))
<1> DEFINE n == Len(w.bytes)
           k == Len(t)
<1>1. /\ s \in Seq(Byte) /\ w2.bytes \in Seq(Byte) /\ n \in Nat /\ k \in Nat /\ k > 0
      /\ Len(w2.bytes) = n + k /\ n + k <= Len(s)
      /\ \A i \in 1 .. Len(w2.bytes) : s[i] = w2.bytes[i]
      /\ \A i \in 1 .. k : w2.bytes[n + i] = t[i]
  <2> USE DEF Carried
  <2> QED
    BY HeldBefore DEF Held, Grown, Sound, WriterState, Added, Starts
<1>t. t \in Seq(Byte)
  BY DEF Carried
<1> HIDE DEF n, k
<1>2. Take(At(s, n, v), k) = At(s, n + k, SubSeq(s, n + 1, n + k))
  <2>1. n < Len(s) /\ s \in Seq(Byte) /\ n \in Nat /\ k \in Nat /\ n + k <= Len(s)
    <3>1. Len(s) \in Nat
      BY <1>1
    <3> QED
      BY <1>1, <3>1
  <2> QED
    BY <2>1, TakeAt
<1>3. SubSeq(s, n + 1, n + k) = t
  <2> DEFINE p == SubSeq(s, n + 1, n + k)
  <2>1. p \in Seq(Byte) /\ Len(p) = (n + k) - n /\ \A i \in 1 .. (n + k) - n : p[i] = s[n + i]
    BY <1>1, PartIs
  <2> HIDE DEF p
  <2>2. Len(p) = Len(t)
    BY <1>1, <2>1 DEF k
  <2>3. ASSUME NEW i \in 1 .. Len(p) PROVE p[i] = t[i]
    <3>1. i \in 1 .. k /\ i \in 1 .. (n + k) - n /\ n + i \in 1 .. Len(w2.bytes)
      BY <1>1, <2>1
    <3> QED
      BY <1>1, <2>1, <3>1
  <2>4. p = t
    BY <1>t, <2>1, <2>2, <2>3, SameSequence
  <2> QED
    BY <2>4 DEF p
<1>4. Take(At(s, n, v), k) = At(s, Len(w2.bytes), t)
  BY <1>1, <1>2, <1>3
<1> QED
  BY <1>4 DEF n, k, Gives, After

-----------------------------------------------------------------------------
(* Integers as bytes                                                       *)

\* The value of bytes is made of one after the other.
LEMMA SignedIs ==
  ASSUME NEW s \in Seq(Byte)
  PROVE  \E f : /\ Signed(s) = f[Len(s)]
                /\ f[0] = IF s[1] > 127 THEN -1 ELSE 0
                /\ \A k \in 1 .. Len(s) : f[k] = f[k - 1] * 256 + s[k]
<1> DEFINE First == IF s[1] > 127 THEN -1 ELSE 0
           Step(x, k) == x * 256 + s[k]
           Turn(f, k) == IF k = 0 THEN First ELSE Step(f[k - 1], k)
           S == {m \in Nat : \E f : f = [k \in 0 .. m |-> Turn(f, k)]}
<1> HIDE DEF First, Step
<1>0. Len(s) \in Nat
  BY DepthIsNat
<1>1. 0 \in S
  <2> DEFINE f == [k \in 0 .. 0 |-> First]
  <2>1. f = [k \in 0 .. 0 |-> Turn(f, k)]
    OBVIOUS
  <2> QED
    BY <2>1
<1>2. ASSUME NEW m \in S PROVE m + 1 \in S
  <2>1. PICK f : f = [k \in 0 .. m |-> Turn(f, k)]
    OBVIOUS
  <2> DEFINE g == [k \in 0 .. (m + 1) |-> IF k = m + 1 THEN Turn(f, m + 1) ELSE f[k]]
  <2>2. \A k \in 0 .. (m + 1) : k # m + 1 => k \in 0 .. m
    OBVIOUS
  <2>3. \A k \in 0 .. m : f[k] = Turn(f, k)
    BY <2>1
  <2>4. ASSUME NEW k \in 0 .. (m + 1), k # 0 PROVE g[k - 1] = f[k - 1]
    <3>1. k - 1 \in 0 .. (m + 1) /\ k - 1 # m + 1
      BY <2>4
    <3> QED
      BY <3>1
  <2>5. ASSUME NEW k \in 0 .. (m + 1) PROVE g[k] = Turn(g, k)
    <3>1. g[k] = Turn(f, k)
      BY <2>2, <2>3
    <3>2. CASE k = 0
      BY <3>1, <3>2
    <3>3. CASE k # 0
      <4>1. g[k - 1] = f[k - 1]
        BY <2>4, <3>3
      <4> HIDE DEF g
      <4> QED
        BY <3>1, <3>3, <4>1
    <3> QED
      BY <3>2, <3>3
  <2>6. g = [k \in 0 .. (m + 1) |-> Turn(g, k)]
    BY <2>5
  <2> HIDE DEF g, Turn
  <2>7. \E h : h = [k \in 0 .. (m + 1) |-> Turn(h, k)]
    BY <2>6
  <2> QED
    BY <2>7
<1>3. S = Nat
  <2>1. S \in SUBSET Nat
    OBVIOUS
  <2> HIDE DEF S
  <2> QED
    BY <1>1, <1>2, <2>1, EveryNumber
<1>4. \E h : h = [k \in 0 .. Len(s) |-> Turn(h, k)]
  BY <1>0, <1>3
<1> HIDE DEF Turn, S
<1>5. PICK h : h = [k \in 0 .. Len(s) |-> Turn(h, k)] /\ Signed(s) = h[Len(s)]
  <2>1. \E h : h = [k \in 0 .. Len(s) |-> IF k = 0 THEN IF s[1] > 127 THEN -1 ELSE 0 ELSE h[k - 1] * 256 + s[k]]
    BY <1>4 DEF Turn, First, Step
  <2>2. \E h : h = [k \in 0 .. Len(s) |-> IF k = 0 THEN IF s[1] > 127 THEN -1 ELSE 0 ELSE h[k - 1] * 256 + s[k]] /\ Signed(s) = h[Len(s)]
    BY <2>1 DEF Signed
  <2> QED
    BY <2>2 DEF Turn, First, Step
<1>6. \A k \in 0 .. Len(s) : h[k] = Turn(h, k)
  BY <1>5
<1>7. h[0] = First
  BY <1>0, <1>6 DEF Turn
<1>8. \A k \in 1 .. Len(s) : h[k] = Step(h[k - 1], k)
  <2>1. \A k \in 1 .. Len(s) : k \in 0 .. Len(s) /\ k # 0
    BY <1>0
  <2> QED
    BY <1>6, <2>1 DEF Turn
<1> QED
  BY <1>5, <1>7, <1>8 DEF First, Step

LEMMA ShiftInt ==
  ASSUME NEW v \in Int, NEW k \in 0 .. 7
  PROVE  ShiftRight(v, k) \in Int
<1>1. CASE k = 0
  BY <1>1 DEF ShiftRight
<1>2. CASE k = 1
  BY <1>2 DEF ShiftRight
<1>3. CASE k = 2
  BY <1>3 DEF ShiftRight
<1>4. CASE k = 3
  BY <1>4 DEF ShiftRight
<1>5. CASE k \in 4 .. 7
  <2>1. k # 0 /\ k # 1 /\ k # 2 /\ k # 3
    BY <1>5
  <2>2. ShiftRight(v, k) = IF v < 0 THEN -1 ELSE 0
    BY <2>1 DEF ShiftRight
  <2> QED
    BY <2>2
<1> QED
  BY <1>1, <1>2, <1>3, <1>4, <1>5

LEMMA ShiftSign ==
  ASSUME NEW v \in Int, NEW k \in 4 .. 7
  PROVE  ShiftRight(v, k) = IF v < 0 THEN -1 ELSE 0
<1>1. k # 0 /\ k # 1 /\ k # 2 /\ k # 3
  OBVIOUS
<1> QED
  BY <1>1 DEF ShiftRight

LEMMA ShiftLow ==
  ASSUME NEW v \in Int
  PROVE  /\ ShiftRight(v, 0) = v /\ ShiftRight(v, 1) = v \div 256
         /\ ShiftRight(v, 2) = v \div 65536 /\ ShiftRight(v, 3) = v \div 16777216
<1>1. ShiftRight(v, 0) = v
  BY DEF ShiftRight
<1>2. ShiftRight(v, 1) = v \div 256
  BY DEF ShiftRight
<1>3. ShiftRight(v, 2) = v \div 65536
  BY DEF ShiftRight
<1>4. ShiftRight(v, 3) = v \div 16777216
  BY DEF ShiftRight
<1> QED
  BY <1>1, <1>2, <1>3, <1>4

LEMMA BigEndIs ==
  ASSUME NEW v \in Int, NEW n \in {1, 2, 4, 8}
  PROVE  BigEnd(n, v) \in Seq(Byte) /\ Len(BigEnd(n, v)) = n
<1>1. ASSUME NEW i \in 1 .. n PROVE ShiftRight(v, n - i) % 256 \in Byte
  <2> DEFINE j == n - i
             k == ShiftRight(v, j)
  <2>1. j \in 0 .. 7
    OBVIOUS
  <2> HIDE DEF j
  <2>2. k \in Int
    BY <2>1, ShiftInt
  <2> HIDE DEF k
  <2>3. k % 256 \in Int /\ 0 <= k % 256 /\ k % 256 <= 255
    BY <2>2
  <2> QED
    BY <2>3 DEF Byte, Between, k, j
<1>2. BigEnd(n, v) = [i \in 1 .. n |-> ShiftRight(v, n - i) % 256]
  BY DEF BigEnd
<1>3. n \in Nat
  OBVIOUS
<1> DEFINE B(i) == ShiftRight(v, n - i) % 256
           s == [i \in 1 .. n |-> B(i)]
<1>4. \A i \in 1 .. n : B(i) \in Byte
  BY <1>1
<1> HIDE DEF B
<1>5. s \in Seq(Byte) /\ Len(s) = n
  BY <1>3, <1>4
<1> QED
  BY <1>2, <1>5 DEF B

LEMMA BigEndAt ==
  ASSUME NEW v, NEW n, NEW i \in 1 .. n
  PROVE  BigEnd(n, v)[i] = ShiftRight(v, n - i) % 256
BY DEF BigEnd

LEMMA ByteBack == ASSUME NEW v \in SmallInt PROVE Signed(BigEnd(1, v)) = v
<1> DEFINE s == BigEnd(1, v)
           h == IF v < 0 THEN -1 ELSE 0
<1>1. v \in Int /\ v < 128 /\ v >= -128
  BY DEF SmallInt, Between
<1>2. s \in Seq(Byte) /\ Len(s) = 1
  <2>1. 1 \in {1, 2, 4, 8}
    OBVIOUS
  <2> QED
    BY <1>1, <2>1, BigEndIs
<1>b1. s[1] = (v) % 256
  <2>1. 1 \in 1 .. 1 /\ 1 - 1 = 0
    OBVIOUS
  <2>2. s[1] = ShiftRight(v, 0) % 256
    BY <2>1, BigEndAt
  <2>3. ShiftRight(v, 0) = v
    BY <1>1, <2>1, ShiftLow
  <2> QED
    BY <2>2, <2>3
<1> HIDE DEF s
<1>3. PICK f : /\ Signed(s) = f[Len(s)]
               /\ f[0] = IF s[1] > 127 THEN -1 ELSE 0
               /\ \A k \in 1 .. Len(s) : f[k] = f[k - 1] * 256 + s[k]
  BY <1>2, SignedIs
<1>4. \A k \in 1 .. 1 : f[k] = f[k - 1] * 256 + s[k]
  BY <1>2, <1>3
<1>f0. f[0] = h
  <2>1. f[0] = IF s[1] > 127 THEN -1 ELSE 0
    BY <1>3
  <2>2. s[1] > 127 <=> v < 0
    BY <1>1, <1>b1
  <2> QED
    BY <2>1, <2>2
<1>h. h \in Int /\ h * 256 + (h % 256) = h
  BY <1>1
<1>f1. f[1] = v
  <2>1. 1 \in 1 .. 1 /\ 1 - 1 = 0
    OBVIOUS
  <2>2. f[1] = f[0] * 256 + s[1]
    BY <1>4, <2>1
  <2>3. f[1] = (h) * 256 + ((v) % 256)
    BY <1>b1, <1>f0, <2>2
  <2> QED
    BY <1>1, <1>h, <2>3
<1> QED
  BY <1>2, <1>3, <1>f1 DEF s

LEMMA ShortBack == ASSUME NEW v \in ShortInt PROVE Signed(BigEnd(2, v)) = v
<1> DEFINE s == BigEnd(2, v)
           h == IF v < 0 THEN -1 ELSE 0
<1>1. v \in Int /\ v < 32768 /\ v >= -32768
  BY DEF ShortInt, Between
<1>2. s \in Seq(Byte) /\ Len(s) = 2
  <2>1. 2 \in {1, 2, 4, 8}
    OBVIOUS
  <2> QED
    BY <1>1, <2>1, BigEndIs
<1>b1. s[1] = (v \div 256) % 256
  <2>1. 1 \in 1 .. 2 /\ 2 - 1 = 1
    OBVIOUS
  <2>2. s[1] = ShiftRight(v, 1) % 256
    BY <2>1, BigEndAt
  <2>3. ShiftRight(v, 1) = v \div 256
    BY <1>1, <2>1, ShiftLow
  <2> QED
    BY <2>2, <2>3
<1>b2. s[2] = (v) % 256
  <2>1. 2 \in 1 .. 2 /\ 2 - 2 = 0
    OBVIOUS
  <2>2. s[2] = ShiftRight(v, 0) % 256
    BY <2>1, BigEndAt
  <2>3. ShiftRight(v, 0) = v
    BY <1>1, <2>1, ShiftLow
  <2> QED
    BY <2>2, <2>3
<1> HIDE DEF s
<1>3. PICK f : /\ Signed(s) = f[Len(s)]
               /\ f[0] = IF s[1] > 127 THEN -1 ELSE 0
               /\ \A k \in 1 .. Len(s) : f[k] = f[k - 1] * 256 + s[k]
  BY <1>2, SignedIs
<1>4. \A k \in 1 .. 2 : f[k] = f[k - 1] * 256 + s[k]
  BY <1>2, <1>3
<1>f0. f[0] = h
  <2>1. f[0] = IF s[1] > 127 THEN -1 ELSE 0
    BY <1>3
  <2>2. s[1] > 127 <=> v < 0
    BY <1>1, <1>b1
  <2> QED
    BY <2>1, <2>2
<1>h. h \in Int /\ h * 256 + (h % 256) = h
  BY <1>1
<1>f1. f[1] = v \div 256
  <2>1. 1 \in 1 .. 2 /\ 1 - 1 = 0
    OBVIOUS
  <2>2. f[1] = f[0] * 256 + s[1]
    BY <1>4, <2>1
  <2>3. f[1] = (h) * 256 + ((v \div 256) % 256)
    BY <1>b1, <1>f0, <2>2
  <2> QED
    BY <1>1, <1>h, <2>3
<1>f2. f[2] = v
  <2>1. 2 \in 1 .. 2 /\ 2 - 1 = 1
    OBVIOUS
  <2>2. f[2] = f[1] * 256 + s[2]
    BY <1>4, <2>1
  <2>3. f[2] = (v \div 256) * 256 + ((v) % 256)
    BY <1>b2, <1>f1, <2>2
  <2> QED
    BY <1>1, <1>h, <2>3
<1> QED
  BY <1>2, <1>3, <1>f2 DEF s

LEMMA IntBack == ASSUME NEW v \in Int32 PROVE Signed(BigEnd(4, v)) = v
<1> DEFINE s == BigEnd(4, v)
           h == IF v < 0 THEN -1 ELSE 0
<1>1. v \in Int /\ v <= 2147483647 /\ v >= -2147483648
  BY DEF Int32, Between
<1>2. s \in Seq(Byte) /\ Len(s) = 4
  <2>1. 4 \in {1, 2, 4, 8}
    OBVIOUS
  <2> QED
    BY <1>1, <2>1, BigEndIs
<1>b1. s[1] = (v \div 16777216) % 256
  <2>1. 1 \in 1 .. 4 /\ 4 - 1 = 3
    OBVIOUS
  <2>2. s[1] = ShiftRight(v, 3) % 256
    BY <2>1, BigEndAt
  <2>3. ShiftRight(v, 3) = v \div 16777216
    BY <1>1, <2>1, ShiftLow
  <2> QED
    BY <2>2, <2>3
<1>b2. s[2] = (v \div 65536) % 256
  <2>1. 2 \in 1 .. 4 /\ 4 - 2 = 2
    OBVIOUS
  <2>2. s[2] = ShiftRight(v, 2) % 256
    BY <2>1, BigEndAt
  <2>3. ShiftRight(v, 2) = v \div 65536
    BY <1>1, <2>1, ShiftLow
  <2> QED
    BY <2>2, <2>3
<1>b3. s[3] = (v \div 256) % 256
  <2>1. 3 \in 1 .. 4 /\ 4 - 3 = 1
    OBVIOUS
  <2>2. s[3] = ShiftRight(v, 1) % 256
    BY <2>1, BigEndAt
  <2>3. ShiftRight(v, 1) = v \div 256
    BY <1>1, <2>1, ShiftLow
  <2> QED
    BY <2>2, <2>3
<1>b4. s[4] = (v) % 256
  <2>1. 4 \in 1 .. 4 /\ 4 - 4 = 0
    OBVIOUS
  <2>2. s[4] = ShiftRight(v, 0) % 256
    BY <2>1, BigEndAt
  <2>3. ShiftRight(v, 0) = v
    BY <1>1, <2>1, ShiftLow
  <2> QED
    BY <2>2, <2>3
<1> HIDE DEF s
<1>3. PICK f : /\ Signed(s) = f[Len(s)]
               /\ f[0] = IF s[1] > 127 THEN -1 ELSE 0
               /\ \A k \in 1 .. Len(s) : f[k] = f[k - 1] * 256 + s[k]
  BY <1>2, SignedIs
<1>4. \A k \in 1 .. 4 : f[k] = f[k - 1] * 256 + s[k]
  BY <1>2, <1>3
<1>f0. f[0] = h
  <2>1. f[0] = IF s[1] > 127 THEN -1 ELSE 0
    BY <1>3
  <2>2. s[1] > 127 <=> v < 0
    BY <1>1, <1>b1
  <2> QED
    BY <2>1, <2>2
<1>h. h \in Int /\ h * 256 + (h % 256) = h
  BY <1>1
<1>f1. f[1] = v \div 16777216
  <2>1. 1 \in 1 .. 4 /\ 1 - 1 = 0
    OBVIOUS
  <2>2. f[1] = f[0] * 256 + s[1]
    BY <1>4, <2>1
  <2>3. f[1] = (h) * 256 + ((v \div 16777216) % 256)
    BY <1>b1, <1>f0, <2>2
  <2> QED
    BY <1>1, <1>h, <2>3
<1>f2. f[2] = v \div 65536
  <2>1. 2 \in 1 .. 4 /\ 2 - 1 = 1
    OBVIOUS
  <2>2. f[2] = f[1] * 256 + s[2]
    BY <1>4, <2>1
  <2>3. f[2] = (v \div 16777216) * 256 + ((v \div 65536) % 256)
    BY <1>b2, <1>f1, <2>2
  <2> QED
    BY <1>1, <1>h, <2>3
<1>f3. f[3] = v \div 256
  <2>1. 3 \in 1 .. 4 /\ 3 - 1 = 2
    OBVIOUS
  <2>2. f[3] = f[2] * 256 + s[3]
    BY <1>4, <2>1
  <2>3. f[3] = (v \div 65536) * 256 + ((v \div 256) % 256)
    BY <1>b3, <1>f2, <2>2
  <2> QED
    BY <1>1, <1>h, <2>3
<1>f4. f[4] = v
  <2>1. 4 \in 1 .. 4 /\ 4 - 1 = 3
    OBVIOUS
  <2>2. f[4] = f[3] * 256 + s[4]
    BY <1>4, <2>1
  <2>3. f[4] = (v \div 256) * 256 + ((v) % 256)
    BY <1>b4, <1>f3, <2>2
  <2> QED
    BY <1>1, <1>h, <2>3
<1> QED
  BY <1>2, <1>3, <1>f4 DEF s

LEMMA LongBack == ASSUME NEW v \in Int32 PROVE Signed(BigEnd(8, v)) = v
<1> DEFINE s == BigEnd(8, v)
           h == IF v < 0 THEN -1 ELSE 0
<1>1. v \in Int /\ v <= 2147483647 /\ v >= -2147483648
  BY DEF Int32, Between
<1>2. s \in Seq(Byte) /\ Len(s) = 8
  <2>1. 8 \in {1, 2, 4, 8}
    OBVIOUS
  <2> QED
    BY <1>1, <2>1, BigEndIs
<1>b1. s[1] = (h) % 256
  <2>1. 1 \in 1 .. 8 /\ 8 - 1 = 7 /\ 7 \in 4 .. 7
    OBVIOUS
  <2>2. s[1] = ShiftRight(v, 7) % 256
    BY <2>1, BigEndAt
  <2>3. ShiftRight(v, 7) = h
    BY <1>1, <2>1, ShiftSign
  <2> QED
    BY <2>2, <2>3
<1>b2. s[2] = (h) % 256
  <2>1. 2 \in 1 .. 8 /\ 8 - 2 = 6 /\ 6 \in 4 .. 7
    OBVIOUS
  <2>2. s[2] = ShiftRight(v, 6) % 256
    BY <2>1, BigEndAt
  <2>3. ShiftRight(v, 6) = h
    BY <1>1, <2>1, ShiftSign
  <2> QED
    BY <2>2, <2>3
<1>b3. s[3] = (h) % 256
  <2>1. 3 \in 1 .. 8 /\ 8 - 3 = 5 /\ 5 \in 4 .. 7
    OBVIOUS
  <2>2. s[3] = ShiftRight(v, 5) % 256
    BY <2>1, BigEndAt
  <2>3. ShiftRight(v, 5) = h
    BY <1>1, <2>1, ShiftSign
  <2> QED
    BY <2>2, <2>3
<1>b4. s[4] = (h) % 256
  <2>1. 4 \in 1 .. 8 /\ 8 - 4 = 4 /\ 4 \in 4 .. 7
    OBVIOUS
  <2>2. s[4] = ShiftRight(v, 4) % 256
    BY <2>1, BigEndAt
  <2>3. ShiftRight(v, 4) = h
    BY <1>1, <2>1, ShiftSign
  <2> QED
    BY <2>2, <2>3
<1>b5. s[5] = (v \div 16777216) % 256
  <2>1. 5 \in 1 .. 8 /\ 8 - 5 = 3
    OBVIOUS
  <2>2. s[5] = ShiftRight(v, 3) % 256
    BY <2>1, BigEndAt
  <2>3. ShiftRight(v, 3) = v \div 16777216
    BY <1>1, <2>1, ShiftLow
  <2> QED
    BY <2>2, <2>3
<1>b6. s[6] = (v \div 65536) % 256
  <2>1. 6 \in 1 .. 8 /\ 8 - 6 = 2
    OBVIOUS
  <2>2. s[6] = ShiftRight(v, 2) % 256
    BY <2>1, BigEndAt
  <2>3. ShiftRight(v, 2) = v \div 65536
    BY <1>1, <2>1, ShiftLow
  <2> QED
    BY <2>2, <2>3
<1>b7. s[7] = (v \div 256) % 256
  <2>1. 7 \in 1 .. 8 /\ 8 - 7 = 1
    OBVIOUS
  <2>2. s[7] = ShiftRight(v, 1) % 256
    BY <2>1, BigEndAt
  <2>3. ShiftRight(v, 1) = v \div 256
    BY <1>1, <2>1, ShiftLow
  <2> QED
    BY <2>2, <2>3
<1>b8. s[8] = (v) % 256
  <2>1. 8 \in 1 .. 8 /\ 8 - 8 = 0
    OBVIOUS
  <2>2. s[8] = ShiftRight(v, 0) % 256
    BY <2>1, BigEndAt
  <2>3. ShiftRight(v, 0) = v
    BY <1>1, <2>1, ShiftLow
  <2> QED
    BY <2>2, <2>3
<1> HIDE DEF s
<1>3. PICK f : /\ Signed(s) = f[Len(s)]
               /\ f[0] = IF s[1] > 127 THEN -1 ELSE 0
               /\ \A k \in 1 .. Len(s) : f[k] = f[k - 1] * 256 + s[k]
  BY <1>2, SignedIs
<1>4. \A k \in 1 .. 8 : f[k] = f[k - 1] * 256 + s[k]
  BY <1>2, <1>3
<1>f0. f[0] = h
  <2>1. f[0] = IF s[1] > 127 THEN -1 ELSE 0
    BY <1>3
  <2>2. s[1] > 127 <=> v < 0
    BY <1>1, <1>b1
  <2> QED
    BY <2>1, <2>2
<1>h. h \in Int /\ h * 256 + (h % 256) = h
  BY <1>1
<1>f1. f[1] = h
  <2>1. 1 \in 1 .. 8 /\ 1 - 1 = 0
    OBVIOUS
  <2>2. f[1] = f[0] * 256 + s[1]
    BY <1>4, <2>1
  <2>3. f[1] = (h) * 256 + ((h) % 256)
    BY <1>b1, <1>f0, <2>2
  <2> QED
    BY <1>1, <1>h, <2>3
<1>f2. f[2] = h
  <2>1. 2 \in 1 .. 8 /\ 2 - 1 = 1
    OBVIOUS
  <2>2. f[2] = f[1] * 256 + s[2]
    BY <1>4, <2>1
  <2>3. f[2] = (h) * 256 + ((h) % 256)
    BY <1>b2, <1>f1, <2>2
  <2> QED
    BY <1>1, <1>h, <2>3
<1>f3. f[3] = h
  <2>1. 3 \in 1 .. 8 /\ 3 - 1 = 2
    OBVIOUS
  <2>2. f[3] = f[2] * 256 + s[3]
    BY <1>4, <2>1
  <2>3. f[3] = (h) * 256 + ((h) % 256)
    BY <1>b3, <1>f2, <2>2
  <2> QED
    BY <1>1, <1>h, <2>3
<1>f4. f[4] = h
  <2>1. 4 \in 1 .. 8 /\ 4 - 1 = 3
    OBVIOUS
  <2>2. f[4] = f[3] * 256 + s[4]
    BY <1>4, <2>1
  <2>3. f[4] = (h) * 256 + ((h) % 256)
    BY <1>b4, <1>f3, <2>2
  <2> QED
    BY <1>1, <1>h, <2>3
<1>f5. f[5] = v \div 16777216
  <2>1. 5 \in 1 .. 8 /\ 5 - 1 = 4
    OBVIOUS
  <2>2. f[5] = f[4] * 256 + s[5]
    BY <1>4, <2>1
  <2>3. f[5] = (h) * 256 + ((v \div 16777216) % 256)
    BY <1>b5, <1>f4, <2>2
  <2> QED
    BY <1>1, <1>h, <2>3
<1>f6. f[6] = v \div 65536
  <2>1. 6 \in 1 .. 8 /\ 6 - 1 = 5
    OBVIOUS
  <2>2. f[6] = f[5] * 256 + s[6]
    BY <1>4, <2>1
  <2>3. f[6] = (v \div 16777216) * 256 + ((v \div 65536) % 256)
    BY <1>b6, <1>f5, <2>2
  <2> QED
    BY <1>1, <1>h, <2>3
<1>f7. f[7] = v \div 256
  <2>1. 7 \in 1 .. 8 /\ 7 - 1 = 6
    OBVIOUS
  <2>2. f[7] = f[6] * 256 + s[7]
    BY <1>4, <2>1
  <2>3. f[7] = (v \div 65536) * 256 + ((v \div 256) % 256)
    BY <1>b7, <1>f6, <2>2
  <2> QED
    BY <1>1, <1>h, <2>3
<1>f8. f[8] = v
  <2>1. 8 \in 1 .. 8 /\ 8 - 1 = 7
    OBVIOUS
  <2>2. f[8] = f[7] * 256 + s[8]
    BY <1>4, <2>1
  <2>3. f[8] = (v \div 256) * 256 + ((v) % 256)
    BY <1>b8, <1>f7, <2>2
  <2> QED
    BY <1>1, <1>h, <2>3
<1> QED
  BY <1>2, <1>3, <1>f8 DEF s

LEMMA UnsignedBack ==
  ASSUME NEW v \in Between(0, 65535)
  PROVE  Unsigned(BigEnd(2, v)) = v
<1> DEFINE s == BigEnd(2, v)
<1>0. v \in Int /\ 0 <= v /\ v <= 65535
  BY DEF Between
<1>1. s[1] = (v \div 256) % 256
  <2>1. 1 \in 1 .. 2 /\ 2 - 1 = 1
    OBVIOUS
  <2>2. s[1] = ShiftRight(v, 1) % 256
    BY <2>1, BigEndAt
  <2>3. ShiftRight(v, 1) = v \div 256
    BY <1>0, ShiftLow
  <2> QED
    BY <2>2, <2>3
<1>2. s[2] = v % 256
  <2>1. 2 \in 1 .. 2 /\ 2 - 2 = 0
    OBVIOUS
  <2>2. s[2] = ShiftRight(v, 0) % 256
    BY <2>1, BigEndAt
  <2>3. ShiftRight(v, 0) = v
    BY <1>0, ShiftLow
  <2> QED
    BY <2>2, <2>3
<1> HIDE DEF s
<1>3. ((v \div 256) % 256) * 256 + (v % 256) = v
  BY <1>0
<1>4. s[1] * 256 + s[2] = v
  BY <1>1, <1>2, <1>3
<1> QED
  BY <1>4 DEF Unsigned, s

-----------------------------------------------------------------------------
(* Reading back strings and integers                                       *)

LEMMA AfterIs ==
  ASSUME NEW s, NEW w, NEW v
  PROVE  /\ After(s, w, v).ok /\ ~After(s, w, v).past
         /\ After(s, w, v).val = v /\ After(s, w, v).bytes = Rest(s, Len(w.bytes))
BY DEF After, At, Reading

LEMMA AfterWithVal ==
  ASSUME NEW s, NEW w, NEW v, NEW u
  PROVE  WithVal(After(s, w, v), u) = After(s, w, u)
BY DEF After, At, Reading, WithVal

LEMMA AfterUnasked ==
  ASSUME NEW s, NEW w, NEW v, NEW r
  PROVE  Unasked(r, After(s, w, v)) = After(s, w, v)
BY AfterIs DEF Unasked

LEMMA PutIsCarried ==
  ASSUME NEW w, Sound(w), NEW t \in Seq(Byte), Len(t) > 0, NEW s, Held(Put(w, t), s)
  PROVE  Carried(w, Put(w, t), t, s)
<1>1. Put(w, t).ok
  BY DEF Held
<1> QED
  BY <1>1, PutGrows DEF Carried

LEMMA IntIsRead ==
  ASSUME NEW w, NEW w2, NEW x \in Int, NEW k \in {1, 2, 4, 8}, NEW s,
         Carried(w, w2, BigEnd(k, x), s), NEW v
  PROVE  Gives(TakeInt(After(s, w, v), k), After(s, w2, Signed(BigEnd(k, x))))
<1> DEFINE t == BigEnd(k, x)
           a == After(s, w, v)
           b == After(s, w2, t)
<1>1. Len(t) = k
  BY BigEndIs
<1>2. Gives(Take(a, Len(t)), b)
  BY AddedIsRead
<1>3. b.ok /\ b.val = t
  BY AfterIs
<1>4. WithVal(b, Signed(t)) = After(s, w2, Signed(t))
  BY AfterWithVal
<1> HIDE DEF t, a, b
<1>5. TakeInt(a, k) = WithVal(b, Signed(t))
  BY <1>1, <1>2, <1>3 DEF TakeInt, Gives
<1> QED
  BY <1>4, <1>5 DEF t, a, Gives

LEMMA LenIsRead ==
  ASSUME NEW w, NEW w2, NEW x \in Between(0, 65535), NEW s,
         Carried(w, w2, BigEnd(2, x), s), NEW v
  PROVE  Gives(TakeLen(After(s, w, v)), After(s, w2, x))
<1> DEFINE t == BigEnd(2, x)
           a == After(s, w, v)
           b == After(s, w2, t)
<1>1. Len(t) = 2
  <2>1. x \in Int /\ 2 \in {1, 2, 4, 8}
    BY DEF Between
  <2> QED
    BY <2>1, BigEndIs
<1>2. Gives(Take(a, Len(t)), b)
  BY AddedIsRead
<1>3. b.ok /\ b.val = t
  BY AfterIs
<1>4. WithVal(b, x) = After(s, w2, x)
  BY AfterWithVal
<1>u. Unsigned(t) = x
  BY UnsignedBack
<1> HIDE DEF t, a, b
<1>5. TakeLen(a) = WithVal(b, x)
  BY <1>1, <1>2, <1>3, <1>u DEF TakeLen, Gives
<1> QED
  BY <1>4, <1>5 DEF a, Gives

LEMMA OneByte ==
  ASSUME NEW x \in Int
  PROVE  /\ <<x % 256>> = BigEnd(1, x) /\ <<x % 256>> \in Seq(Byte)
         /\ Len(<<x % 256>>) = 1 /\ <<x % 256>>[1] = x % 256
<1> DEFINE y == x % 256
<1>1. y \in Int /\ 0 <= y /\ y <= 255
  OBVIOUS
<1>2. y \in Byte
  BY <1>1 DEF Byte, Between
<1>3. 1 \in {1, 2, 4, 8} /\ 1 \in 1 .. 1 /\ 1 - 1 = 0
  OBVIOUS
<1>4. BigEnd(1, x) \in Seq(Byte) /\ Len(BigEnd(1, x)) = 1
  BY <1>3, BigEndIs
<1>5. BigEnd(1, x)[1] = y
  <2>1. BigEnd(1, x)[1] = ShiftRight(x, 0) % 256
    BY <1>3, BigEndAt
  <2>2. ShiftRight(x, 0) = x
    BY ShiftLow
  <2> QED
    BY <2>1, <2>2
<1> HIDE DEF y
<1>6. <<y>> \in Seq(Byte) /\ Len(<<y>>) = 1 /\ <<y>>[1] = y
  BY <1>2
<1>7. <<y>> = BigEnd(1, x)
  <2> DEFINE b == BigEnd(1, x)
             c == <<y>>
  <2>1. b \in Seq(Byte) /\ c \in Seq(Byte) /\ Len(b) = 1 /\ Len(c) = 1 /\ b[1] = c[1]
    BY <1>4, <1>5, <1>6
  <2> HIDE DEF b, c
  <2>2. Len(c) = Len(b) /\ \A i \in 1 .. Len(c) : c[i] = b[i]
    BY <2>1
  <2>3. c = b
    BY <2>1, <2>2, SameSequence
  <2> QED
    BY <2>3 DEF b, c
<1> QED
  BY <1>6, <1>7 DEF y

LEMMA ByteAlone ==
  ASSUME NEW b \in Byte
  PROVE  <<b>> \in Seq(Byte) /\ Len(<<b>>) = 1 /\ <<b>>[1] = b
OBVIOUS

LEMMA SmallIsByte ==
  ASSUME NEW b \in Int, 0 <= b, b <= 255
  PROVE  b \in Byte
BY DEF Byte, Between

\* One byte, and one that nobody asks for.
LEMMA ByteIsRead ==
  ASSUME NEW w, NEW w2, NEW b \in Byte, NEW s, Carried(w, w2, <<b>>, s), NEW v
  PROVE  /\ Gives(Take(After(s, w, v), 1), After(s, w2, <<b>>))
         /\ Gives(Unasked(After(s, w, v), Take(After(s, w, v), 1)), After(s, w2, <<b>>))
         /\ After(s, w2, <<b>>).val[1] = b
<1> DEFINE t == <<b>>
           a == After(s, w, v)
           c == After(s, w2, t)
<1>1. Len(t) = 1 /\ t[1] = b
  OBVIOUS
<1>2. Gives(Take(a, Len(t)), c)
  BY AddedIsRead
<1>3. c.val = t
  BY AfterIs
<1>4. Unasked(a, c) = c
  BY AfterUnasked
<1> HIDE DEF t, a, c
<1>5. Gives(Take(a, 1), c) /\ Gives(Unasked(a, Take(a, 1)), c) /\ c.val[1] = b
  BY <1>1, <1>2, <1>3, <1>4 DEF Gives
<1> QED
  BY <1>5 DEF t, a, c

\* A string written by bb_writeString is read by bb_readString, however long.
LEMMA StringGrows ==
  ASSUME NEW w, Sound(w), NEW s \in Name \cup {Null}
  PROVE  /\ Grown(w, WriteString(w, s))
         /\ WriteString(w, s).ok =>
              /\ WriteString(w, s).lost = w.lost
              /\ Len(WriteString(w, s).bytes) > Len(w.bytes)
<1> DEFINE w2 == WriteString(w, s)
<1>a. 0 \in Byte /\ 127 \in Byte
  BY SmallIsByte
<1>b. w.bytes \in Seq(Byte)
  BY DEF Sound, WriterState
<1>1. CASE s = Null
  <2>1. w2 = Put(w, <<0>>)
    BY <1>1 DEF WriteString
  <2>2. <<0>> \in Seq(Byte) /\ Len(<<0>>) = 1
    BY <1>a, ByteAlone
  <2>3. Grown(w, w2) /\ (w2.ok => Added(w, w2, <<0>>))
    BY <2>1, <2>2, PutGrows
  <2> HIDE DEF w2
  <2>4. w2.ok => w2.lost = w.lost /\ Len(w2.bytes) > Len(w.bytes)
    BY <1>b, <2>2, <2>3 DEF Added
  <2> QED
    BY <2>3, <2>4 DEF w2
<1>2. CASE s # Null /\ Len(s) < 127
  <2> DEFINE t == <<Len(s)>>
             w1 == Put(w, t)
  <2>1. w2 = Put(w1, s) /\ s \in Seq(Byte)
    BY <1>2 DEF WriteString, Name
  <2>2. t \in Seq(Byte) /\ Len(t) = 1
    <3>1. Len(s) \in Nat
      BY <2>1
    <3>2. Len(s) \in Byte
      BY <1>2, <3>1, SmallIsByte
    <3> QED
      BY <3>2, ByteAlone
  <2> HIDE DEF t
  <2>3. Grown(w, w1) /\ (w1.ok => Added(w, w1, t))
    BY <2>2, PutGrows
  <2>4. Sound(w1)
    BY <2>3 DEF Grown
  <2> HIDE DEF w1, w2
  <2>5. Grown(w1, w2) /\ (w2.ok => Added(w1, w2, s))
    BY <2>1, <2>4, PutGrows
  <2>6. Grown(w, w2)
    BY <2>3, <2>5, GrownIsTransitive
  <2>7. w2.ok => w2.lost = w.lost /\ Len(w2.bytes) > Len(w.bytes)
    <3>1. w2.ok => w1.ok
      BY <2>5 DEF Grown
    <3>2. w1.bytes \in Seq(Byte) /\ Len(s) \in Nat /\ Len(w.bytes) \in Nat
      BY <1>b, <2>1, <2>4 DEF Sound, WriterState
    <3> QED
      BY <2>2, <2>3, <2>5, <3>1, <3>2 DEF Added
  <2> QED
    BY <2>6, <2>7 DEF w2
<1>3. CASE s # Null /\ ~(Len(s) < 127)
  <2> DEFINE t == <<127>>
             l == BigEnd(2, Len(s))
             w1 == Put(w, t)
             u == Put(w1, l)
  <2>1. w2 = Put(u, s) /\ s \in Seq(Byte)
    BY <1>3 DEF WriteString, Name
  <2>2. t \in Seq(Byte) /\ Len(t) = 1
    BY <1>a, ByteAlone
  <2>3. l \in Seq(Byte) /\ Len(l) = 2
    <3>1. Len(s) \in Int /\ 2 \in {1, 2, 4, 8}
      BY <2>1
    <3> QED
      BY <3>1, BigEndIs
  <2> HIDE DEF t, l
  <2>4. Grown(w, w1) /\ (w1.ok => Added(w, w1, t))
    BY <2>2, PutGrows
  <2>5. Sound(w1)
    BY <2>4 DEF Grown
  <2> HIDE DEF w1, w2
  <2>6. Grown(w1, u) /\ (u.ok => Added(w1, u, l))
    BY <2>3, <2>5, PutGrows
  <2>7. Sound(u)
    BY <2>6 DEF Grown
  <2> HIDE DEF u
  <2>8. Grown(u, w2) /\ (w2.ok => Added(u, w2, s))
    BY <2>1, <2>7, PutGrows
  <2>9. Grown(w, w2)
    BY <2>4, <2>6, <2>8, GrownIsTransitive
  <2>10. w2.ok => w2.lost = w.lost /\ Len(w2.bytes) > Len(w.bytes)
    <3>1. (w2.ok => u.ok) /\ (u.ok => w1.ok)
      BY <2>6, <2>8 DEF Grown
    <3>2. Len(w1.bytes) \in Nat /\ Len(u.bytes) \in Nat /\ Len(s) \in Nat /\ Len(w.bytes) \in Nat
      BY <1>b, <2>1, <2>5, <2>7 DEF Sound, WriterState
    <3> QED
      BY <2>2, <2>3, <2>4, <2>6, <2>8, <3>1, <3>2 DEF Added
  <2> QED
    BY <2>9, <2>10 DEF w2
<1> QED
  BY <1>1, <1>2, <1>3

Text(s) == IF s = Null THEN <<>> ELSE s

LEMMA StringIsRead ==
  ASSUME NEW w, Sound(w), NEW t \in Name \cup {Null},
         NEW s, Held(WriteString(w, t), s), NEW v
  PROVE  Gives(ReadString(After(s, w, v)), After(s, WriteString(w, t), Text(t)))
<1> DEFINE w2 == WriteString(w, t)
           r == After(s, w, v)
           x == Len(t)
<1>a. 0 \in Byte /\ 127 \in Byte
  BY SmallIsByte
<1>b. w2.ok
  BY DEF Held
<1>1. CASE t = Null
  <2> DEFINE n == After(s, w2, <<0>>)
  <2>1. w2 = Put(w, <<0>>)
    BY <1>1 DEF WriteString
  <2>2. <<0>> \in Seq(Byte) /\ Len(<<0>>) > 0
    BY <1>a, ByteAlone
  <2>3. Carried(w, w2, <<0>>, s)
    BY <2>1, <2>2, PutIsCarried
  <2>4. Gives(Unasked(r, Take(r, 1)), n) /\ n.val[1] = 0
    BY <1>a, <2>3, ByteIsRead
  <2>5. n.ok /\ WithVal(n, <<>>) = After(s, w2, <<>>)
    BY AfterIs, AfterWithVal
  <2> HIDE DEF n, r
  <2>6. ReadString(r) = WithVal(n, <<>>)
    BY <2>4, <2>5 DEF ReadString, Gives
  <2> QED
    BY <1>1, <2>5, <2>6 DEF r, Text, Gives
<1>2. CASE t # Null /\ Len(t) < 127
  <2> DEFINE c == <<x>>
             w1 == Put(w, c)
             n == After(s, w1, c)
  <2>1. w2 = Put(w1, t) /\ t \in Seq(Byte)
    BY <1>2 DEF WriteString, Name
  <2>2. x \in Byte /\ x \in Nat /\ x < 127
    <3>1. x \in Nat /\ x < 127
      BY <1>2, <2>1
    <3> HIDE DEF x
    <3>2. x \in Byte
      BY <3>1, SmallIsByte
    <3> QED
      BY <3>1, <3>2
  <2>3. c \in Seq(Byte) /\ Len(c) > 0
    <3> HIDE DEF x
    <3> QED
      BY <2>2, ByteAlone
  <2>4. Sound(w1)
    <3> HIDE DEF c
    <3> QED
      BY <2>3, PutGrows DEF Grown
  <2>5. Grown(w1, w2) /\ Added(w1, w2, t)
    <3> HIDE DEF w1
    <3> QED
      BY <1>b, <2>1, <2>4, PutGrows
  <2>6. Held(w1, s)
    BY <2>5, HeldBefore
  <2>7. Carried(w, w1, c, s)
    <3> HIDE DEF c
    <3> QED
      BY <2>3, <2>6, PutIsCarried
  <2>8. Gives(Unasked(r, Take(r, 1)), n) /\ n.val[1] = x
    <3> HIDE DEF w1, x
    <3> QED
      BY <2>2, <2>7, ByteIsRead
  <2>9. n.ok /\ WithVal(n, <<>>) = After(s, w1, <<>>)
    BY AfterIs, AfterWithVal
  <2>10. CASE x = 0
    <3>1. ReadString(r) = After(s, w1, <<>>)
      <4> HIDE DEF n, r, x
      <4> QED
        BY <2>8, <2>9, <2>10 DEF ReadString, Gives
    <3>2. t = <<>> /\ Len(w2.bytes) = Len(w1.bytes)
      <4>1. Len(w1.bytes) \in Nat
        BY <2>4 DEF Sound, WriterState
      <4>2. t = <<>>
        BY <2>1, <2>10
      <4> QED
        BY <2>5, <2>10, <4>1, <4>2 DEF Added
    <3>3. After(s, w1, <<>>) = After(s, w2, Text(t))
      BY <1>2, <3>2 DEF After, Text
    <3> QED
      BY <3>1, <3>3 DEF Gives
  <2>11. CASE x # 0
    <3>1. ReadString(r) = Take(n, x)
      <4>1. n.val[1] # 0 /\ n.val[1] # 127
        BY <2>2, <2>8, <2>11
      <4> HIDE DEF n, r
      <4> QED
        BY <2>8, <2>9, <4>1 DEF ReadString, Gives
    <3>2. Carried(w1, w2, t, s)
      <4>1. x > 0
        BY <2>2, <2>11
      <4> QED
        BY <2>1, <2>5, <4>1 DEF Carried
    <3>3. Gives(Take(n, x), After(s, w2, t))
      <4> HIDE DEF w1, w2
      <4> QED
        BY <3>2, AddedIsRead
    <3> QED
      BY <1>2, <3>1, <3>3 DEF Text, Gives
  <2> QED
    BY <2>10, <2>11
<1>3. CASE t # Null /\ ~(Len(t) < 127)
  <2> DEFINE c == <<127>>
             l == BigEnd(2, x)
             w1 == Put(w, c)
             u == Put(w1, l)
             n == After(s, w1, c)
             m == After(s, u, x)
  <2>1. w2 = Put(u, t) /\ t \in Seq(Byte)
    BY <1>3 DEF WriteString, Name
  <2>2. c \in Seq(Byte) /\ Len(c) > 0
    BY <1>a, ByteAlone
  <2>3. l \in Seq(Byte) /\ Len(l) > 0
    <3>1. x \in Int /\ 2 \in {1, 2, 4, 8}
      BY <2>1
    <3> HIDE DEF x
    <3>2. l \in Seq(Byte) /\ Len(l) = 2
      BY <3>1, BigEndIs
    <3> QED
      BY <3>2
  <2>4. Sound(w1)
    <3> HIDE DEF c
    <3> QED
      BY <2>2, PutGrows DEF Grown
  <2>5. Grown(w1, u) /\ Sound(u)
    <3> HIDE DEF w1, l
    <3> QED
      BY <2>3, <2>4, PutGrows DEF Grown
  <2>6. Grown(u, w2) /\ Added(u, w2, t)
    <3> HIDE DEF u
    <3> QED
      BY <1>b, <2>1, <2>5, PutGrows
  <2>7. Held(u, s) /\ Held(w1, s)
    <3>1. Held(u, s)
      BY <2>6, HeldBefore
    <3> QED
      BY <2>5, <3>1, HeldBefore
  <2>8. Carried(w, w1, c, s)
    <3> HIDE DEF c
    <3> QED
      BY <2>2, <2>7, PutIsCarried
  <2>9. Carried(w1, u, l, s)
    <3> HIDE DEF w1, l
    <3> QED
      BY <2>3, <2>4, <2>7, PutIsCarried
  <2>10. x \in Between(0, 65535) /\ x > 0
    <3>1. Len(u.bytes) \in Nat /\ Len(w2.bytes) <= w2.cap /\ w2.cap < 32768 /\ w2.cap \in Nat
      BY <2>5, <2>6 DEF Grown, Sound, WriterState
    <3>2. Len(w2.bytes) = Len(u.bytes) + x
      BY <2>6 DEF Added
    <3>3. x \in Nat /\ x >= 127
      BY <1>3, <2>1
    <3> HIDE DEF x, w2
    <3>4. x \in Int /\ 0 <= x /\ x <= 65535 /\ x > 0
      BY <3>1, <3>2, <3>3
    <3> QED
      BY <3>4 DEF Between
  <2>11. Gives(Unasked(r, Take(r, 1)), n) /\ n.val[1] = 127
    <3> HIDE DEF w1
    <3> QED
      BY <1>a, <2>8, ByteIsRead
  <2>12. Gives(TakeLen(n), m)
    <3> HIDE DEF w1, u, x
    <3> QED
      BY <2>9, <2>10, LenIsRead
  <2>13. Unasked(n, m) = m
    BY AfterUnasked
  <2>14. n.ok /\ m.ok /\ m.val = x
    BY AfterIs
  <2>15. Carried(u, w2, t, s)
    BY <2>1, <2>6, <2>7, <2>10 DEF Carried
  <2>16. Gives(Take(m, x), After(s, w2, t))
    <3> HIDE DEF u, w2
    <3> QED
      BY <2>15, AddedIsRead
  <2>17. ReadString(r) = Take(m, x)
    <3> HIDE DEF n, m, r, x
    <3> QED
      BY <2>11, <2>12, <2>13, <2>14 DEF ReadString, Gives
  <2> QED
    BY <1>3, <2>16, <2>17 DEF Text, Gives
<1> QED
  BY <1>1, <1>2, <1>3

\* r has read what w has written, and no more, whether it could be used or not.
Reached(s, w, r) == r.bytes = Rest(s, Len(w.bytes)) /\ r.past = FALSE

LEMMA AfterIsReached ==
  ASSUME NEW s, NEW w, NEW v
  PROVE  /\ Reached(s, w, After(s, w, v))
         /\ Reached(s, w, Failed(After(s, w, v))) /\ ~Failed(After(s, w, v)).ok
<1>1. After(s, w, v).past = FALSE /\ After(s, w, v).bytes = Rest(s, Len(w.bytes))
  BY DEF After, At, Reading
<1> QED
  BY <1>1 DEF Reached, Failed, Reading

\* A byte or two in front of which nobody asks for room.
LEMMA UncheckedIsCarried ==
  ASSUME NEW w, Sound(w), NEW t \in Seq(Byte), Len(t) \in {1, 2},
         NEW s, Held(PutUnchecked(w, t), s)
  PROVE  IF Len(w.bytes) + Len(t) <= w.cap
         THEN Carried(w, PutUnchecked(w, t), t, s)
         ELSE /\ PutUnchecked(w, t).bytes = w.bytes /\ PutUnchecked(w, t).lost
              /\ Len(s) < Len(w.bytes) + Len(t)
<1> DEFINE w2 == PutUnchecked(w, t)
<1>1. Grown(w, w2) /\ w2.ok = w.ok
  BY PutUncheckedGrows
<1>2. w2.ok /\ w.ok
  BY <1>1 DEF Held
<1>3. CASE Len(w.bytes) + Len(t) <= w.cap
  <2>1. Added(w, w2, t)
    BY <1>2, <1>3, PutUncheckedGrows
  <2>2. Len(t) > 0
    OBVIOUS
  <2> QED
    BY <1>1, <1>3, <2>1, <2>2 DEF Carried
<1>4. CASE ~(Len(w.bytes) + Len(t) <= w.cap)
  <2>1. w2.bytes = w.bytes /\ w2.lost
    BY <1>2, <1>4, PutUncheckedGrows
  <2>2. Len(s) <= w.cap
    BY <1>1, <2>1 DEF Held, Grown
  <2> DEFINE n == Len(w.bytes)
             k == Len(t)
             l == Len(s)
  <2>3. n \in Nat /\ k \in Nat /\ l \in Nat /\ w.cap \in Nat
    BY DEF Sound, WriterState, Held
  <2> HIDE DEF n, k, l
  <2>4. l < n + k
    BY <1>4, <2>2, <2>3 DEF n, k, l
  <2> QED
    BY <1>4, <2>1, <2>4 DEF n, k, l
<1> QED
  BY <1>3, <1>4

\* Where there are too few bytes none is taken.
LEMMA TooFewAreLeft ==
  ASSUME NEW s \in Seq(Byte), NEW w, Len(w.bytes) \in Nat, Len(w.bytes) <= Len(s),
         NEW k \in Nat, Len(s) < Len(w.bytes) + k, NEW v
  PROVE  /\ Gives(Take(After(s, w, v), k), Failed(After(s, w, v)))
         /\ Gives(TakeInt(After(s, w, v), k), Failed(After(s, w, v)))
         /\ Gives(TakeLen(After(s, w, v)), Failed(After(s, w, v))) \/ k # 2
<1> DEFINE a == After(s, w, v)
           n == Len(w.bytes)
           b == Rest(s, n)
<1>1. b \in Seq(Byte) /\ Len(b) = Len(s) - n
  BY RestIs
<1>2. a.bytes = b
  BY AfterIs
<1>3. Len(s) \in Nat
  OBVIOUS
<1>4. k \notin 0 .. Len(b)
  <2> HIDE DEF b, n
  <2> QED
    BY <1>1, <1>3 DEF n
<1>5. ~Failed(a).ok
  BY AfterIsReached
<1> HIDE DEF a, b
<1>6. Take(a, k) = Failed(a)
  BY <1>2, <1>4 DEF Take
<1>7. TakeInt(a, k) = Failed(a)
  BY <1>5, <1>6 DEF TakeInt
<1>8. k = 2 => TakeLen(a) = Failed(a)
  BY <1>5, <1>6 DEF TakeLen
<1> QED
  BY <1>6, <1>7, <1>8 DEF a, Gives

LEMMA Int8Is ==
  ASSUME NEW n \in Nat
  PROVE  /\ Int8(n) \in Int /\ -128 <= Int8(n) /\ Int8(n) <= 127
         /\ Int8(n) <= n /\ Int8(n) \in SmallInt
         /\ n <= 127 => Int8(n) = n
<1>1. /\ Int8(n) \in Int /\ -128 <= Int8(n) /\ Int8(n) <= 127
      /\ Int8(n) <= n
      /\ n <= 127 => Int8(n) = n
  BY DEF Int8
<1> QED
  BY <1>1 DEF SmallInt, Between

-----------------------------------------------------------------------------
(* Values that are no containers                                           *)

\* The part of a string that is written when its length is taken into eight bits.
LEMMA StringPart ==
  ASSUME NEW t \in Name, Int8(Len(t)) > 0
  PROVE  /\ SubSeq(t, 1, Int8(Len(t))) \in Seq(Byte)
         /\ Len(SubSeq(t, 1, Int8(Len(t)))) = Int8(Len(t))
         /\ Len(t) <= 127 => SubSeq(t, 1, Int8(Len(t))) = t
<1> DEFINE n == Int8(Len(t))
<1>1. t \in Seq(Byte) /\ Len(t) \in Nat
  BY DEF Name
<1>2. n \in Int /\ n <= Len(t) /\ n > 0 /\ (Len(t) <= 127 => n = Len(t))
  BY <1>1, Int8Is
<1>3. n \in Nat /\ 0 \in Nat /\ 0 <= n
  BY <1>2
<1> HIDE DEF n
<1>4. /\ SubSeq(t, 0 + 1, n) \in Seq(Byte) /\ Len(SubSeq(t, 0 + 1, n)) = n - 0
  BY <1>1, <1>2, <1>3, PartIs
<1>5. 0 + 1 = 1 /\ n - 0 = n
  BY <1>3
<1>6. SubSeq(t, 1, n) \in Seq(Byte) /\ Len(SubSeq(t, 1, n)) = n
  BY <1>4, <1>5
<1>7. Len(t) <= 127 => SubSeq(t, 1, n) = t
  BY <1>1, <1>2, SubSeqFull
<1> QED
  BY <1>6, <1>7 DEF n

\* The length in front of a string that is a value.
Before(w, len) ==
  IF len < 127 THEN PutUnchecked(w, <<len % 256>>)
  ELSE PutUnchecked(PutUnchecked(w, <<127>>), BigEnd(2, len))

LEMMA BeforeGrows ==
  ASSUME NEW w, Sound(w), NEW len \in Int
  PROVE  Grown(w, Before(w, len)) /\ Before(w, len).ok = w.ok
<1>1. CASE len < 127
  <2> DEFINE c == <<len % 256>>
  <2>1. Before(w, len) = PutUnchecked(w, c)
    BY <1>1 DEF Before
  <2>2. c \in Seq(Byte) /\ Len(c) = 1
    BY OneByte
  <2> HIDE DEF c
  <2>3. Len(c) \in {1, 2}
    BY <2>2
  <2> QED
    BY <2>1, <2>2, <2>3, PutUncheckedGrows
<1>2. CASE ~(len < 127)
  <2> DEFINE c == <<127>>
             l == BigEnd(2, len)
             p == PutUnchecked(w, c)
  <2>1. Before(w, len) = PutUnchecked(p, l)
    BY <1>2 DEF Before
  <2>2. c \in Seq(Byte) /\ Len(c) = 1
    <3>1. 127 \in Byte
      BY SmallIsByte
    <3> QED
      BY <3>1, ByteAlone
  <2>3. l \in Seq(Byte) /\ Len(l) = 2
    <3>1. 2 \in {1, 2, 4, 8}
      OBVIOUS
    <3> QED
      BY <3>1, BigEndIs
  <2> HIDE DEF c, l
  <2>4. Len(c) \in {1, 2} /\ Len(l) \in {1, 2}
    BY <2>2, <2>3
  <2>5. Grown(w, p) /\ p.ok = w.ok
    BY <2>2, <2>4, PutUncheckedGrows
  <2>6. Sound(p)
    BY <2>5 DEF Grown
  <2> DEFINE q == PutUnchecked(p, l)
  <2> HIDE DEF p
  <2>7. Grown(p, q) /\ q.ok = p.ok
    BY <2>3, <2>4, <2>6, PutUncheckedGrows
  <2> HIDE DEF q
  <2>8. Grown(w, q) /\ q.ok = w.ok
    BY <2>5, <2>7, GrownIsTransitive
  <2> QED
    BY <2>1, <2>8 DEF q, p
<1> QED
  BY <1>1, <1>2

LEMMA PutStringIs ==
  ASSUME NEW w, NEW t
  PROVE  PutString(w, t)
           = IF Int8(Len(t)) > 0
             THEN Put(Before(w, Int8(Len(t))), SubSeq(t, 1, Int8(Len(t))))
             ELSE Before(w, Int8(Len(t)))
BY DEF PutString, Before

LEMMA PutStringGrows ==
  ASSUME NEW w, Sound(w), NEW t \in Name
  PROVE  Grown(w, PutString(w, t))
<1> DEFINE len == Int8(Len(t))
           p == Before(w, len)
<1>1. len \in Int
  <2>1. Len(t) \in Nat
    BY DEF Name
  <2> QED
    BY <2>1, Int8Is
<1>2. Grown(w, p)
  <2> HIDE DEF len
  <2> QED
    BY <1>1, BeforeGrows
<1>3. Sound(p)
  BY <1>2 DEF Grown
<1>4. CASE len > 0
  <2> DEFINE q == SubSeq(t, 1, len)
  <2>1. PutString(w, t) = Put(p, q)
    BY <1>4, PutStringIs
  <2>2. q \in Seq(Byte)
    BY <1>4, StringPart
  <2> HIDE DEF q, p
  <2>3. Grown(p, Put(p, q))
    BY <1>3, <2>2, PutGrows
  <2> QED
    BY <1>2, <2>1, <2>3, GrownIsTransitive
<1>5. CASE ~(len > 0)
  <2>1. PutString(w, t) = p
    BY <1>5, PutStringIs
  <2> QED
    BY <1>2, <2>1
<1> QED
  BY <1>4, <1>5

\* The length in eight bits, or no byte where it was lost.
LEMMA BeforeIsRead ==
  ASSUME NEW w, Sound(w), NEW len \in SmallInt, len < 127,
         NEW s, Held(Before(w, len), s), NEW v
  PROVE  \/ /\ Gives(TakeInt(After(s, w, v), 1), After(s, Before(w, len), len))
            /\ Len(w.bytes) < w.cap
         \/ /\ Gives(TakeInt(After(s, w, v), 1), Failed(After(s, w, v)))
            /\ Before(w, len).bytes = w.bytes /\ Before(w, len).lost
            /\ ~(Len(w.bytes) < w.cap)
<1> DEFINE c == <<len % 256>>
           p == Before(w, len)
<1>1. len \in Int
  BY DEF SmallInt, Between
<1>2. p = PutUnchecked(w, c)
  BY DEF Before
<1>3. c \in Seq(Byte) /\ Len(c) = 1 /\ c = BigEnd(1, len)
  BY <1>1, OneByte
<1> HIDE DEF c
<1>4. Len(c) \in {1, 2}
  BY <1>3
<1> HIDE DEF p
<1>5. Held(PutUnchecked(w, c), s)
  BY <1>2 DEF p
<1>6. IF Len(w.bytes) + Len(c) <= w.cap
      THEN Carried(w, PutUnchecked(w, c), c, s)
      ELSE /\ PutUnchecked(w, c).bytes = w.bytes /\ PutUnchecked(w, c).lost
           /\ Len(s) < Len(w.bytes) + Len(c)
  BY <1>3, <1>4, <1>5, UncheckedIsCarried
<1>7. /\ s \in Seq(Byte) /\ Len(s) \in Nat /\ Len(w.bytes) \in Nat /\ w.cap \in Nat
      /\ Len(w.bytes) <= Len(s)
  <2>1. Grown(w, p)
    BY <1>1, BeforeGrows DEF p
  <2>2. Held(p, s)
    BY DEF p
  <2>3. Len(w.bytes) \in Nat /\ Len(p.bytes) \in Nat /\ Len(w.bytes) <= Len(p.bytes)
        /\ Len(p.bytes) <= Len(s)
    BY <2>1, <2>2, HeldBefore
  <2>4. s \in Seq(Byte) /\ w.cap \in Nat
    BY <2>2 DEF Held, Sound, WriterState
  <2>5. Len(s) \in Nat
    BY <2>4
  <2> QED
    BY <2>3, <2>4, <2>5
<1> DEFINE n == Len(w.bytes)
<1>8. CASE n + 1 <= w.cap
  <2>1. Carried(w, p, BigEnd(1, len), s)
    BY <1>2, <1>3, <1>6, <1>8
  <2>2. 1 \in {1, 2, 4, 8}
    OBVIOUS
  <2>3. Gives(TakeInt(After(s, w, v), 1), After(s, p, Signed(BigEnd(1, len))))
    BY <1>1, <2>1, <2>2, IntIsRead
  <2>4. Signed(BigEnd(1, len)) = len
    BY ByteBack
  <2>5. n < w.cap
    <3> HIDE DEF n
    <3> QED
      BY <1>7, <1>8 DEF n
  <2> QED
    BY <2>3, <2>4, <2>5 DEF p
<1>9. CASE ~(n + 1 <= w.cap)
  <2>1. p.bytes = w.bytes /\ p.lost /\ Len(s) < n + 1
    BY <1>2, <1>3, <1>6, <1>9
  <2>2. Gives(TakeInt(After(s, w, v), 1), Failed(After(s, w, v)))
    BY <1>7, <2>1, TooFewAreLeft
  <2>3. ~(n < w.cap)
    <3> HIDE DEF n
    <3> QED
      BY <1>7, <1>9 DEF n
  <2> QED
    BY <2>1, <2>2, <2>3 DEF p
<1> QED
  BY <1>8, <1>9

LEMMA LongStringIs ==
  ASSUME NEW a, NEW m, NEW n, TakeInt(a, 1) = m, m.ok, m.val = 127, TakeInt(m, 2) = n
  PROVE  TakeString(a) = IF n.ok THEN Take(n, n.val) ELSE n
<1>1. m.val # -1 /\ m.val # 0
  OBVIOUS
<1> QED
  BY <1>1 DEF TakeString

\* A string that is a value is read to its end, and back, if it is not too long.
LEMMA StringValueIsRead ==
  ASSUME NEW w, Sound(w), NEW t \in Name, NEW s, Held(PutString(w, t), s), NEW v
  PROVE  /\ Reached(s, PutString(w, t), TakeString(After(s, w, v)))
         /\ ~PutString(w, t).lost /\ Len(t) <= 127
              => Gives(TakeString(After(s, w, v)), After(s, PutString(w, t), t))
<1> DEFINE len == Int8(Len(t))
           p == Before(w, len)
           w2 == PutString(w, t)
           a == After(s, w, v)
           r == TakeString(a)
           q == SubSeq(t, 1, len)
<1>1. /\ len \in Int /\ len \in SmallInt /\ -128 <= len /\ len <= 127
      /\ t \in Seq(Byte) /\ Len(t) \in Nat
      /\ Len(t) <= 127 => len = Len(t)
  <2>1. t \in Seq(Byte) /\ Len(t) \in Nat
    BY DEF Name
  <2> QED
    BY <2>1, Int8Is
<1>2. Grown(w, p) /\ Sound(p)
  <2> HIDE DEF len
  <2> QED
    BY <1>1, BeforeGrows DEF Grown
<1>3. CASE ~(len > 0)
  <2> DEFINE n == After(s, p, len)
  <2>1. w2 = p
    BY <1>3, PutStringIs
  <2>2. Held(p, s) /\ len < 127
    BY <1>1, <1>3, <2>1
  <2>3. \/ Gives(TakeInt(a, 1), n)
        \/ Gives(TakeInt(a, 1), Failed(a)) /\ p.bytes = w.bytes /\ p.lost
    <3> HIDE DEF len
    <3> QED
      BY <1>1, <2>2, BeforeIsRead
  <2>4. n.ok /\ n.val = len
    BY AfterIs
  <2>5. CASE Gives(TakeInt(a, 1), n) /\ len = 0
    <3>1. WithVal(n, <<>>) = After(s, p, <<>>)
      BY AfterWithVal
    <3>2. r = After(s, p, <<>>)
      <4> HIDE DEF n, len, a
      <4> QED
        BY <2>4, <2>5, <3>1 DEF TakeString, Gives
    <3>3. Reached(s, w2, After(s, p, <<>>))
      BY <2>1, AfterIsReached
    <3>4. Len(t) <= 127 => t = <<>>
      BY <1>1, <2>5
    <3> QED
      BY <2>1, <3>2, <3>3, <3>4 DEF Gives
  <2>6. CASE Gives(TakeInt(a, 1), n) /\ len # 0
    <3>1. WithVal(n, Null) = After(s, p, Null)
      BY AfterWithVal
    <3>2. Take(n, len) = Failed(n)
      <4>1. len \notin 0 .. Len(n.bytes)
        BY <1>1, <1>3, <2>6
      <4> HIDE DEF n, len
      <4> QED
        BY <4>1 DEF Take
    <3>3. r = After(s, p, Null) \/ r = Failed(n)
      <4>1. len # 127
        BY <1>3
      <4> HIDE DEF n, len, a
      <4> QED
        BY <2>4, <2>6, <3>1, <3>2, <4>1 DEF TakeString, Gives
    <3>4. Reached(s, w2, After(s, p, Null)) /\ Reached(s, w2, Failed(n))
      BY <2>1, AfterIsReached
    <3>5. ~(Len(t) <= 127)
      BY <1>1, <1>3, <2>6
    <3> QED
      BY <3>3, <3>4, <3>5
  <2>7. CASE Gives(TakeInt(a, 1), Failed(a)) /\ p.bytes = w.bytes /\ p.lost
    <3>1. Reached(s, w, Failed(a)) /\ ~Failed(a).ok
      BY AfterIsReached
    <3>2. r = Failed(a)
      <4> HIDE DEF a
      <4>1. TakeInt(a, 1) = Failed(a) /\ ~TakeInt(a, 1).ok
        BY <2>7, <3>1 DEF Gives
      <4> QED
        BY <4>1 DEF TakeString
    <3>3. Reached(s, p, Failed(a))
      BY <2>7, <3>1 DEF Reached
    <3> QED
      BY <2>1, <2>7, <3>2, <3>3
  <2> QED
    BY <2>3, <2>5, <2>6, <2>7
<1>4. CASE len > 0
  <2>1. w2 = Put(p, q)
    BY <1>4, PutStringIs
  <2>2. q \in Seq(Byte) /\ Len(q) = len /\ (Len(t) <= 127 => q = t)
    BY <1>4, StringPart
  <2> HIDE DEF q
  <2>3. w2.ok
    BY DEF Held
  <2>4. Len(q) > 0
    BY <1>4, <2>2
  <2>5. Carried(p, w2, q, s)
    <3> HIDE DEF p
    <3> QED
      BY <1>2, <2>1, <2>2, <2>4, PutIsCarried
  <2>6. Held(p, s)
    BY <2>5, HeldBefore DEF Carried
  <2>7. Len(p.bytes) + len <= p.cap /\ Len(p.bytes) \in Nat /\ p.cap \in Nat /\ p.cap = w.cap
        /\ Len(w.bytes) \in Nat /\ Len(w.bytes) <= Len(p.bytes)
    <3>1. Len(w2.bytes) = Len(p.bytes) + len /\ w2.cap = p.cap /\ Len(w2.bytes) <= w2.cap
      BY <2>2, <2>5 DEF Carried, Added, Grown, Sound
    <3>2. Len(p.bytes) \in Nat /\ p.cap \in Nat /\ p.cap = w.cap
      BY <1>2 DEF Sound, WriterState, Grown
    <3>3. Len(w.bytes) \in Nat /\ Len(w.bytes) <= Len(p.bytes)
      BY <1>2, <2>6, HeldBefore
    <3> QED
      BY <3>1, <3>2, <3>3
  <2> DEFINE n == After(s, p, len)
  <2>8. n.ok /\ n.val = len
    BY AfterIs
  <2>9. Gives(Take(n, len), After(s, w2, q))
    <3>1. Gives(Take(n, Len(q)), After(s, w2, q))
      <4> HIDE DEF p, w2
      <4> QED
        BY <2>5, AddedIsRead
    <3> QED
      BY <2>2, <3>1
  <2>10. r = After(s, w2, q)
    <3>1. CASE len < 127
      <4>1. \/ Gives(TakeInt(a, 1), n)
            \/ p.bytes = w.bytes /\ ~(Len(w.bytes) < w.cap)
        <5> HIDE DEF len
        <5> QED
          BY <1>1, <2>6, <3>1, BeforeIsRead
      <4>2. Gives(TakeInt(a, 1), n)
        <5>1. ~(p.bytes = w.bytes /\ ~(Len(w.bytes) < w.cap))
          <6> HIDE DEF p, len
          <6> QED
            BY <1>1, <1>4, <2>7
        <5> QED
          BY <4>1, <5>1
      <4>3. len # -1 /\ len # 0 /\ len # 127
        BY <1>4, <3>1
      <4> HIDE DEF n, len, a
      <4> QED
        BY <2>8, <2>9, <4>2, <4>3 DEF TakeString, Gives
    <3>2. CASE ~(len < 127)
      <4> DEFINE c == <<127>>
                 l == BigEnd(2, 127)
                 u == PutUnchecked(w, c)
                 m == After(s, u, 127)
      <4>1. len = 127
        BY <1>1, <3>2
      <4>2. p = PutUnchecked(u, l)
        BY <4>1 DEF Before
      <4>3. c \in Seq(Byte) /\ Len(c) = 1 /\ Len(c) \in {1, 2} /\ 127 \in Byte
        <5>1. 127 \in Byte
          BY SmallIsByte
        <5>2. c \in Seq(Byte) /\ Len(c) = 1
          BY <5>1, ByteAlone
        <5> QED
          BY <5>1, <5>2
      <4>4. l \in Seq(Byte) /\ Len(l) = 2 /\ Len(l) \in {1, 2}
        <5>1. 2 \in {1, 2, 4, 8} /\ 127 \in Int
          OBVIOUS
        <5>2. l \in Seq(Byte) /\ Len(l) = 2
          BY <5>1, BigEndIs
        <5> QED
          BY <5>2
      <4> HIDE DEF l
      <4>5. Grown(w, u) /\ Sound(u)
        <5> HIDE DEF c
        <5> QED
          BY <4>3, PutUncheckedGrows DEF Grown
      <4>6. Grown(u, p)
        <5> HIDE DEF u, p
        <5> QED
          BY <4>2, <4>4, <4>5, PutUncheckedGrows
      <4>7. Held(u, s)
        BY <2>6, <4>6, HeldBefore
      <4>8. Len(u.bytes) \in Nat /\ Len(u.bytes) <= Len(p.bytes)
            /\ Len(w.bytes) <= Len(u.bytes) /\ u.cap = w.cap
        <5>1. Len(u.bytes) \in Nat /\ Len(u.bytes) <= Len(p.bytes)
          BY <2>6, <4>6, HeldBefore
        <5>2. Len(w.bytes) <= Len(u.bytes)
          BY <4>5, <4>7, HeldBefore
        <5> QED
          BY <4>5, <5>1, <5>2 DEF Grown
      <4>9. Carried(w, u, <<127>>, s)
        <5>1. Len(w.bytes) + 1 <= w.cap
          <6> HIDE DEF p, u, len
          <6> QED
            BY <2>7, <4>1, <4>8
        <5>2. IF Len(w.bytes) + Len(c) <= w.cap THEN Carried(w, u, c, s)
              ELSE u.bytes = w.bytes /\ u.lost /\ Len(s) < Len(w.bytes) + Len(c)
          <6> HIDE DEF c
          <6> QED
            BY <4>3, <4>7, UncheckedIsCarried
        <5> QED
          BY <4>3, <5>1, <5>2
      <4>10. Carried(u, p, BigEnd(2, 127), s)
        <5> DEFINE z == PutUnchecked(u, l)
        <5>1. Len(u.bytes) + 2 <= u.cap
          <6> HIDE DEF p, u, len
          <6> QED
            BY <2>7, <4>1, <4>8
        <5>2. Held(z, s)
          BY <2>6, <4>2
        <5>3. IF Len(u.bytes) + Len(l) <= u.cap THEN Carried(u, z, l, s)
              ELSE z.bytes = u.bytes /\ z.lost /\ Len(s) < Len(u.bytes) + Len(l)
          <6> HIDE DEF u
          <6> QED
            BY <4>4, <4>5, <5>2, UncheckedIsCarried
        <5> QED
          BY <4>2, <4>4, <5>1, <5>3 DEF l
      <4>11. Gives(TakeInt(a, 1), m)
        <5>1. 127 \in Int /\ 1 \in {1, 2, 4, 8} /\ 127 % 256 = 127
          OBVIOUS
        <5>2. <<127 % 256>> = BigEnd(1, 127)
          BY <5>1, OneByte
        <5>3. Carried(w, u, BigEnd(1, 127), s)
          BY <4>9, <5>1, <5>2
        <5>4. Gives(TakeInt(a, 1), After(s, u, Signed(BigEnd(1, 127))))
          <6> HIDE DEF u
          <6> QED
            BY <5>1, <5>3, IntIsRead
        <5>5. Signed(BigEnd(1, 127)) = 127
          <6>1. 127 \in SmallInt
            BY DEF SmallInt, Between
          <6> QED
            BY <6>1, ByteBack
        <5> QED
          BY <5>4, <5>5
      <4>12. Gives(TakeInt(m, 2), n)
        <5>1. 127 \in Int /\ 2 \in {1, 2, 4, 8}
          OBVIOUS
        <5>2. Gives(TakeInt(After(s, u, 127), 2), After(s, p, Signed(BigEnd(2, 127))))
          <6> HIDE DEF u, p
          <6> QED
            BY <4>10, <5>1, IntIsRead
        <5>3. Signed(BigEnd(2, 127)) = 127
          <6>1. 127 \in ShortInt
            BY DEF ShortInt, Between
          <6> QED
            BY <6>1, ShortBack
        <5> QED
          BY <4>1, <5>2, <5>3
      <4>13. m.ok /\ m.val = 127
        BY AfterIs
      <4> HIDE DEF n, m, a
      <4>14. TakeInt(a, 1) = m /\ TakeInt(m, 2) = n
        BY <4>11, <4>12 DEF Gives
      <4>15. r = IF n.ok THEN Take(n, n.val) ELSE n
        BY <4>13, <4>14, LongStringIs
      <4> QED
        BY <2>8, <2>9, <4>15 DEF Gives
    <3> QED
      BY <3>1, <3>2
  <2>11. Reached(s, w2, After(s, w2, q))
    BY AfterIsReached
  <2> QED
    BY <2>2, <2>10, <2>11 DEF Gives
<1> QED
  BY <1>3, <1>4

\* What is known of an element by its type.
LEMMA ScalarIs ==
  ASSUME NEW K, NEW S, NEW e \in ExtraIn(K, S), e.type \in Scalars
  PROVE  /\ e.val \in Int /\ Width(e.type) \in {1, 2, 4, 8}
         /\ Signed(BigEnd(Width(e.type), e.val)) = e.val
<1>1. CASE e \in [key : K, val : SmallInt,
                  type : {PREFIX_TYPE_BYTE, PREFIX_TYPE_CHAR, PREFIX_TYPE_BOOLEAN}]
  <2>1. e.val \in SmallInt /\ Width(e.type) = 1
    BY <1>1 DEF Width, PREFIX_TYPE_BYTE, PREFIX_TYPE_CHAR, PREFIX_TYPE_BOOLEAN,
                PREFIX_TYPE_SHORTT, PREFIX_TYPE_INT, PREFIX_TYPE_LONG
  <2>2. Signed(BigEnd(1, e.val)) = e.val
    BY <2>1, ByteBack
  <2>3. e.val \in Int
    BY <2>1 DEF SmallInt, Between
  <2> QED
    BY <2>1, <2>2, <2>3
<1>2. CASE e \in [key : K, type : {PREFIX_TYPE_SHORTT}, val : ShortInt]
  <2>1. e.val \in ShortInt /\ Width(e.type) = 2
    BY <1>2 DEF Width, PREFIX_TYPE_SHORTT, PREFIX_TYPE_INT, PREFIX_TYPE_LONG
  <2>2. Signed(BigEnd(2, e.val)) = e.val
    BY <2>1, ShortBack
  <2>3. e.val \in Int
    BY <2>1 DEF ShortInt, Between
  <2> QED
    BY <2>1, <2>2, <2>3
<1>3. CASE e \in [key : K, type : {PREFIX_TYPE_INT, PREFIX_TYPE_LONG}, val : Int32]
  <2>1. e.val \in Int32 /\ (Width(e.type) = 4 \/ Width(e.type) = 8)
    BY <1>3 DEF Width, PREFIX_TYPE_SHORTT, PREFIX_TYPE_INT, PREFIX_TYPE_LONG
  <2>2. Signed(BigEnd(4, e.val)) = e.val
    BY <2>1, IntBack
  <2>3. Signed(BigEnd(8, e.val)) = e.val
    BY <2>1, LongBack
  <2>4. e.val \in Int
    BY <2>1 DEF Int32, Between
  <2> QED
    BY <2>1, <2>2, <2>3, <2>4
<1>4. \/ e \in [key : K, val : SmallInt,
                type : {PREFIX_TYPE_BYTE, PREFIX_TYPE_CHAR, PREFIX_TYPE_BOOLEAN}]
      \/ e \in [key : K, type : {PREFIX_TYPE_SHORTT}, val : ShortInt]
      \/ e \in [key : K, type : {PREFIX_TYPE_INT, PREFIX_TYPE_LONG}, val : Int32]
  BY DEF ExtraIn, Scalars, Keyed, Unkeyed, PREFIX_TYPE_NULL, PREFIX_TYPE_LIST,
         PREFIX_TYPE_SET, PREFIX_TYPE_MAP, PREFIX_TYPE_BYTE, PREFIX_TYPE_SHORTT,
         PREFIX_TYPE_INT, PREFIX_TYPE_LONG, PREFIX_TYPE_FLOAT, PREFIX_TYPE_DOUBLE,
         PREFIX_TYPE_CHAR, PREFIX_TYPE_BOOLEAN, PREFIX_TYPE_STRINGG,
         PREFIX_TYPE_BYTEBUFFER, PREFIX_TYPE_PROXY
<1> QED
  BY <1>1, <1>2, <1>3, <1>4

LEMMA ElementIs ==
  ASSUME NEW K, NEW S, NEW e \in ExtraIn(K, S)
  PROVE  /\ e.key \in K /\ e.type \in Byte
         /\ e.type \in {PREFIX_TYPE_STRINGG, PREFIX_TYPE_BYTEBUFFER}
              => e.val \in Name \cup {Null}
         /\ e.type \in Keyed => e.val \in Seq(Named(S))
         /\ e.type \in Unkeyed => e.val \in Seq(S)
         /\ e.type \in Scalars \cup Keyed \cup Unkeyed
              \cup {PREFIX_TYPE_STRINGG, PREFIX_TYPE_BYTEBUFFER, PREFIX_TYPE_NULL,
                    PREFIX_TYPE_FLOAT, PREFIX_TYPE_DOUBLE}
<1>1. e.key \in K
  BY DEF ExtraIn
<1>2. e.type \in Scalars \cup Keyed \cup Unkeyed
        \cup {PREFIX_TYPE_STRINGG, PREFIX_TYPE_BYTEBUFFER, PREFIX_TYPE_NULL,
              PREFIX_TYPE_FLOAT, PREFIX_TYPE_DOUBLE}
  BY DEF ExtraIn, Scalars, Keyed, Unkeyed
<1>3. e.type \in Int /\ 0 <= e.type /\ e.type <= 255
  BY <1>2 DEF Scalars, Keyed, Unkeyed, PREFIX_TYPE_NULL, PREFIX_TYPE_LIST,
         PREFIX_TYPE_SET, PREFIX_TYPE_MAP, PREFIX_TYPE_BYTE, PREFIX_TYPE_SHORTT,
         PREFIX_TYPE_INT, PREFIX_TYPE_LONG, PREFIX_TYPE_FLOAT, PREFIX_TYPE_DOUBLE,
         PREFIX_TYPE_CHAR, PREFIX_TYPE_BOOLEAN, PREFIX_TYPE_STRINGG,
         PREFIX_TYPE_BYTEBUFFER, PREFIX_TYPE_PROXY
<1>4. e.type \in Byte
  BY <1>3 DEF Byte, Between
<1>5. e.type \in {PREFIX_TYPE_STRINGG, PREFIX_TYPE_BYTEBUFFER} => e.val \in Name \cup {Null}
  BY DEF ExtraIn, Scalars, Keyed, Unkeyed, PREFIX_TYPE_NULL, PREFIX_TYPE_LIST,
         PREFIX_TYPE_SET, PREFIX_TYPE_MAP, PREFIX_TYPE_BYTE, PREFIX_TYPE_SHORTT,
         PREFIX_TYPE_INT, PREFIX_TYPE_LONG, PREFIX_TYPE_FLOAT, PREFIX_TYPE_DOUBLE,
         PREFIX_TYPE_CHAR, PREFIX_TYPE_BOOLEAN, PREFIX_TYPE_STRINGG,
         PREFIX_TYPE_BYTEBUFFER, PREFIX_TYPE_PROXY
<1>6. e.type \in Keyed => e.val \in Seq(Named(S))
  BY DEF ExtraIn, Scalars, Keyed, Unkeyed, PREFIX_TYPE_NULL, PREFIX_TYPE_LIST,
         PREFIX_TYPE_SET, PREFIX_TYPE_MAP, PREFIX_TYPE_BYTE, PREFIX_TYPE_SHORTT,
         PREFIX_TYPE_INT, PREFIX_TYPE_LONG, PREFIX_TYPE_FLOAT, PREFIX_TYPE_DOUBLE,
         PREFIX_TYPE_CHAR, PREFIX_TYPE_BOOLEAN, PREFIX_TYPE_STRINGG,
         PREFIX_TYPE_BYTEBUFFER, PREFIX_TYPE_PROXY
<1>7. e.type \in Unkeyed => e.val \in Seq(S)
  BY DEF ExtraIn, Scalars, Keyed, Unkeyed, PREFIX_TYPE_NULL, PREFIX_TYPE_LIST,
         PREFIX_TYPE_SET, PREFIX_TYPE_MAP, PREFIX_TYPE_BYTE, PREFIX_TYPE_SHORTT,
         PREFIX_TYPE_INT, PREFIX_TYPE_LONG, PREFIX_TYPE_FLOAT, PREFIX_TYPE_DOUBLE,
         PREFIX_TYPE_CHAR, PREFIX_TYPE_BOOLEAN, PREFIX_TYPE_STRINGG,
         PREFIX_TYPE_BYTEBUFFER, PREFIX_TYPE_PROXY
<1> QED
  BY <1>1, <1>2, <1>4, <1>5, <1>6, <1>7

\* What may stand in front of a value, and what is no container.
LEMMA TypesDiffer ==
  /\ PREFIX_TYPE_STRINGG \notin Scalars /\ PREFIX_TYPE_BYTEBUFFER \notin Scalars
  /\ PREFIX_TYPE_STRINGG # PREFIX_TYPE_BYTEBUFFER
  /\ PREFIX_TYPE_NULL \notin Scalars \cup {PREFIX_TYPE_STRINGG, PREFIX_TYPE_BYTEBUFFER}
  /\ PREFIX_TYPE_NULL \notin Keyed \cup Unkeyed /\ PREFIX_TYPE_MAP \in Keyed
  /\ PREFIX_TYPE_STRINGG \notin Keyed \cup Unkeyed
  /\ PREFIX_TYPE_BYTEBUFFER \notin Keyed \cup Unkeyed
  /\ PREFIX_TYPE_NULL # PREFIX_TYPE_MAP /\ PREFIX_TYPE_NULL \in Byte
BY SmallIsByte DEF Scalars, Keyed, Unkeyed, PREFIX_TYPE_NULL, PREFIX_TYPE_LIST,
         PREFIX_TYPE_SET, PREFIX_TYPE_MAP, PREFIX_TYPE_BYTE, PREFIX_TYPE_SHORTT,
         PREFIX_TYPE_INT, PREFIX_TYPE_LONG, PREFIX_TYPE_CHAR, PREFIX_TYPE_BOOLEAN,
         PREFIX_TYPE_STRINGG, PREFIX_TYPE_BYTEBUFFER, PREFIX_TYPE_PROXY

\* A value that is no container, by what PutPlain makes of it.
LEMMA PutPlainIs ==
  ASSUME NEW w, NEW e
  PROVE  /\ e.type \in Scalars => PutPlain(w, e) = Put(w, BigEnd(Width(e.type), e.val))
         /\ e.type = PREFIX_TYPE_STRINGG => PutPlain(w, e) = PutString(w, e.val)
         /\ e.type = PREFIX_TYPE_BYTEBUFFER =>
              PutPlain(w, e) = IF e.val = <<>> THEN Refused(PutUnchecked(w, <<0, 0>>))
                               ELSE Put(Put(w, BigEnd(2, Len(e.val))), e.val)
         /\ e.type \notin Scalars \cup {PREFIX_TYPE_STRINGG, PREFIX_TYPE_BYTEBUFFER}
              => PutPlain(w, e) = w
BY TypesDiffer DEF PutPlain

LEMMA TakePlainIs ==
  ASSUME NEW r, NEW type
  PROVE  /\ type \in Scalars => TakePlain(r, type) = TakeInt(r, Width(type))
         /\ type = PREFIX_TYPE_STRINGG => TakePlain(r, type) = TakeString(r)
         /\ type = PREFIX_TYPE_BYTEBUFFER => TakePlain(r, type) = TakeBlock(r)
         /\ type \notin Scalars \cup {PREFIX_TYPE_STRINGG, PREFIX_TYPE_BYTEBUFFER}
              => TakePlain(r, type) = WithVal(r, Null)
BY TypesDiffer DEF TakePlain

LEMMA RefusedGrows ==
  ASSUME NEW w, NEW w2, Grown(w, w2)
  PROVE  Grown(w, Refused(w2)) /\ ~Refused(w2).ok
<1> DEFINE r == Refused(w2)
<1>1. /\ w2.bytes \in Seq(Byte) /\ w2.cap \in Nat /\ w2.lost \in BOOLEAN
      /\ Len(w2.bytes) <= w2.cap /\ w2.cap < 32768
      /\ w2.lost => Len(w2.bytes) + 2 > w2.cap
  BY DEF Grown, Sound, WriterState
<1>2. r.bytes = w2.bytes /\ r.cap = w2.cap /\ r.ok = FALSE /\ r.lost = w2.lost
  BY DEF Refused, Writing
<1>3. r \in WriterState
  BY <1>1 DEF Refused, Writing, WriterState
<1> HIDE DEF r
<1>4. Sound(r)
  BY <1>1, <1>2, <1>3 DEF Sound
<1>5. Grown(w, r)
  BY <1>2, <1>4 DEF Grown
<1> QED
  BY <1>2, <1>5 DEF r

\* A byte buffer.
PutBlock(w, s) == Put(Put(w, BigEnd(2, Len(s))), s)

LEMMA PutBlockGrows ==
  ASSUME NEW w, Sound(w), NEW t \in Name
  PROVE  Grown(w, PutBlock(w, t))
<1> DEFINE l == BigEnd(2, Len(t))
           p == Put(w, l)
<1>1. t \in Seq(Byte) /\ l \in Seq(Byte)
  <2>1. t \in Seq(Byte) /\ Len(t) \in Int /\ 2 \in {1, 2, 4, 8}
    BY DEF Name
  <2> QED
    BY <2>1, BigEndIs
<1> HIDE DEF l
<1>2. Grown(w, p) /\ Sound(p)
  BY <1>1, PutGrows DEF Grown
<1> HIDE DEF p
<1>3. Grown(p, Put(p, t))
  BY <1>1, <1>2, PutGrows
<1>4. Grown(w, Put(p, t))
  BY <1>2, <1>3, GrownIsTransitive
<1> QED
  BY <1>4 DEF PutBlock, p, l

LEMMA BlockIsRead ==
  ASSUME NEW w, Sound(w), NEW t \in Name, t # <<>>,
         NEW s, Held(PutBlock(w, t), s), NEW v
  PROVE  Gives(TakeBlock(After(s, w, v)), After(s, PutBlock(w, t), t))
<1> DEFINE l == BigEnd(2, Len(t))
           p == Put(w, l)
           w2 == PutBlock(w, t)
           x == Len(t)
           a == After(s, w, v)
           n == After(s, p, x)
<1>1. t \in Seq(Byte) /\ l \in Seq(Byte) /\ Len(l) > 0 /\ x \in Nat /\ x > 0
  <2>1. t \in Seq(Byte) /\ Len(t) \in Int /\ 2 \in {1, 2, 4, 8}
    BY DEF Name
  <2>2. l \in Seq(Byte) /\ Len(l) = 2
    BY <2>1, BigEndIs
  <2> HIDE DEF l
  <2>3. x \in Nat /\ x > 0
    BY <2>1
  <2> QED
    BY <2>1, <2>2, <2>3
<1>2. w2 = Put(p, t)
  BY DEF PutBlock
<1>3. Sound(p)
  <2> HIDE DEF l
  <2> QED
    BY <1>1, PutGrows DEF Grown
<1>4. Carried(p, w2, t, s)
  <2>1. Held(w2, s)
    OBVIOUS
  <2> HIDE DEF p, w2
  <2> QED
    BY <1>1, <1>2, <1>3, <2>1, PutIsCarried
<1>5. Held(p, s)
  BY <1>4, HeldBefore DEF Carried
<1>6. Carried(w, p, l, s)
  <2> HIDE DEF l
  <2> QED
    BY <1>1, <1>5, PutIsCarried
<1>7. x \in ShortInt
  <2>1. Len(w2.bytes) = Len(p.bytes) + x /\ Len(w2.bytes) <= w2.cap /\ w2.cap < 32768
        /\ Len(p.bytes) \in Nat /\ w2.cap \in Nat
    BY <1>3, <1>4 DEF Carried, Added, Grown, Sound, WriterState
  <2> HIDE DEF x, w2, p
  <2>2. x <= 32767 /\ -32768 <= x
    BY <1>1, <2>1
  <2> QED
    BY <1>1, <2>2 DEF ShortInt, Between
<1>8. Gives(TakeInt(a, 2), n)
  <2>1. 2 \in {1, 2, 4, 8} /\ x \in Int
    BY <1>1
  <2>2. Gives(TakeInt(a, 2), After(s, p, Signed(BigEnd(2, x))))
    <3> HIDE DEF p, x
    <3> QED
      BY <1>6, <2>1, IntIsRead DEF x
  <2>3. Signed(BigEnd(2, x)) = x
    BY <1>7, ShortBack
  <2> QED
    BY <2>2, <2>3
<1>9. n.ok /\ n.val = x
  BY AfterIs
<1>10. Gives(Take(n, x), After(s, w2, t))
  <2> HIDE DEF p, w2
  <2> QED
    BY <1>4, AddedIsRead
<1>11. x # 0
  BY <1>1
<1> HIDE DEF a, n, x
<1>12. TakeBlock(a) = Take(n, x)
  BY <1>8, <1>9, <1>11 DEF TakeBlock, Gives
<1> QED
  BY <1>10, <1>12 DEF a, Gives

LEMMA PlainGrows ==
  ASSUME NEW K, NEW S, NEW e \in ExtraIn(K, S), ~NullPlain(e), NEW w, Sound(w)
  PROVE  Grown(w, PutPlain(w, e))
<1>1. CASE e.type \in Scalars
  <2> DEFINE t == BigEnd(Width(e.type), e.val)
  <2>1. t \in Seq(Byte)
    BY <1>1, ScalarIs, BigEndIs
  <2> HIDE DEF t
  <2>2. Grown(w, Put(w, t))
    BY <2>1, PutGrows
  <2> QED
    BY <1>1, <2>2, PutPlainIs DEF t
<1>2. CASE e.type = PREFIX_TYPE_STRINGG
  <2>1. e.val \in Name
    BY <1>2, ElementIs DEF NullPlain
  <2> QED
    BY <1>2, <2>1, PutPlainIs, PutStringGrows
<1>3. CASE e.type = PREFIX_TYPE_BYTEBUFFER /\ e.val = <<>>
  <2> DEFINE t == <<0, 0>>
             p == PutUnchecked(w, t)
  <2>1. t \in Seq(Byte) /\ Len(t) \in {1, 2}
    <3>1. 0 \in Byte
      BY SmallIsByte
    <3> QED
      BY <3>1
  <2> HIDE DEF t
  <2>2. Grown(w, p)
    BY <2>1, PutUncheckedGrows
  <2>3. Grown(w, Refused(p))
    BY <2>2, RefusedGrows
  <2> QED
    BY <1>3, <2>3, PutPlainIs DEF t
<1>4. CASE e.type = PREFIX_TYPE_BYTEBUFFER /\ e.val # <<>>
  <2>1. e.val \in Name
    BY <1>4, ElementIs DEF NullPlain
  <2>2. PutPlain(w, e) = PutBlock(w, e.val)
    BY <1>4, PutPlainIs DEF PutBlock
  <2> QED
    BY <2>1, <2>2, PutBlockGrows
<1>5. CASE e.type \notin Scalars \cup {PREFIX_TYPE_STRINGG, PREFIX_TYPE_BYTEBUFFER}
  BY <1>5, PutPlainIs, GrownIsReflexive
<1> QED
  BY <1>1, <1>2, <1>3, <1>4, <1>5

\* A string that loses what does not fit into eight bits.
TooLong(e) == e.type = PREFIX_TYPE_STRINGG /\ e.val # Null /\ Len(e.val) > 127

LEMMA PlainIsRead ==
  ASSUME NEW K, NEW S, NEW e \in ExtraIn(K, S), ~NullPlain(e), NEW w, Sound(w),
         NEW s, Held(PutPlain(w, e), s), NEW v
  PROVE  /\ Reached(s, PutPlain(w, e), TakePlain(After(s, w, v), e.type))
         /\ ~PutPlain(w, e).lost /\ ~TooLong(e)
              => Gives(TakePlain(After(s, w, v), e.type),
                       After(s, PutPlain(w, e), PlainVal(e)))
<1> DEFINE a == After(s, w, v)
           w2 == PutPlain(w, e)
           r == TakePlain(a, e.type)
<1>0. ASSUME NEW u PROVE Reached(s, w2, After(s, w2, u))
  BY AfterIsReached
<1>1. CASE e.type \in Scalars
  <2> DEFINE k == Width(e.type)
             t == BigEnd(k, e.val)
  <2>1. e.val \in Int /\ k \in {1, 2, 4, 8} /\ Signed(t) = e.val
    BY <1>1, ScalarIs
  <2>2. t \in Seq(Byte) /\ Len(t) > 0
    <3>1. t \in Seq(Byte) /\ Len(t) = k
      BY <2>1, BigEndIs
    <3> QED
      BY <2>1, <3>1
  <2>3. w2 = Put(w, t) /\ r = TakeInt(a, k)
    BY <1>1, PutPlainIs, TakePlainIs
  <2>4. Held(w2, s)
    OBVIOUS
  <2> HIDE DEF w2, r, k
  <2>5. Carried(w, w2, t, s)
    <3> HIDE DEF t
    <3> QED
      BY <2>2, <2>3, <2>4, PutIsCarried
  <2>6. Gives(r, After(s, w2, e.val))
    <3>1. Gives(TakeInt(a, k), After(s, w2, Signed(t)))
      BY <2>1, <2>5, IntIsRead
    <3> QED
      BY <2>1, <2>3, <3>1
  <2>7. PlainVal(e) = e.val
    BY <1>1 DEF PlainVal
  <2>8. Reached(s, w2, r)
    BY <1>0, <2>6 DEF Gives, w2
  <2> QED
    BY <2>6, <2>7, <2>8 DEF w2, r
<1>2. CASE e.type = PREFIX_TYPE_STRINGG
  <2>1. e.val \in Name
    BY <1>2, ElementIs DEF NullPlain
  <2>2. w2 = PutString(w, e.val) /\ r = TakeString(a)
    BY <1>2, PutPlainIs, TakePlainIs
  <2>3. PlainVal(e) = e.val /\ (~TooLong(e) => Len(e.val) <= 127)
    <3>1. Len(e.val) \in Nat /\ e.val # Null
      BY <2>1, NullIsNothing DEF Name
    <3> QED
      BY <1>2, <3>1 DEF PlainVal, TooLong
  <2>4. Held(PutString(w, e.val), s)
    BY <2>2
  <2> HIDE DEF w2, r
  <2>5. /\ Reached(s, PutString(w, e.val), TakeString(a))
        /\ ~PutString(w, e.val).lost /\ Len(e.val) <= 127
              => Gives(TakeString(a), After(s, PutString(w, e.val), e.val))
    BY <2>1, <2>4, StringValueIsRead
  <2> QED
    BY <2>2, <2>3, <2>5 DEF w2, r
<1>3. CASE e.type = PREFIX_TYPE_BYTEBUFFER
  <2>1. e.val \in Name
    BY <1>3, ElementIs DEF NullPlain
  <2>2. e.val # <<>>
    <3>1. ASSUME e.val = <<>> PROVE FALSE
      <4>1. w2 = Refused(PutUnchecked(w, <<0, 0>>))
        BY <1>3, <3>1, PutPlainIs
      <4>2. ~w2.ok
        BY <4>1 DEF Refused, Writing
      <4> QED
        BY <4>2 DEF Held
    <3> QED
      BY <3>1
  <2>3. w2 = PutBlock(w, e.val) /\ r = TakeBlock(a)
    BY <1>3, <2>2, PutPlainIs, TakePlainIs DEF PutBlock
  <2>4. Held(PutBlock(w, e.val), s)
    BY <2>3
  <2> HIDE DEF w2, r
  <2>5. Gives(TakeBlock(a), After(s, PutBlock(w, e.val), e.val))
    BY <2>1, <2>2, <2>4, BlockIsRead
  <2>6. PlainVal(e) = e.val
    BY <1>3 DEF PlainVal
  <2>7. Gives(r, After(s, w2, e.val))
    BY <2>3, <2>5
  <2>8. Reached(s, w2, r)
    BY <1>0, <2>7 DEF Gives, w2
  <2> QED
    BY <2>6, <2>7, <2>8 DEF w2, r
<1>4. CASE e.type \notin Scalars \cup {PREFIX_TYPE_STRINGG, PREFIX_TYPE_BYTEBUFFER}
  <2>1. w2 = w /\ r = WithVal(a, Null) /\ PlainVal(e) = Null
    BY <1>4, PutPlainIs, TakePlainIs DEF PlainVal
  <2>2. WithVal(a, Null) = After(s, w, Null)
    BY AfterWithVal
  <2>3. Gives(r, After(s, w2, Null))
    BY <2>1, <2>2 DEF Gives
  <2> HIDE DEF w2, r
  <2>4. Reached(s, w2, r)
    BY <1>0, <2>3 DEF Gives, w2
  <2> QED
    BY <2>1, <2>3, <2>4 DEF w2, r
<1> QED
  BY <1>1, <1>2, <1>3, <1>4

-----------------------------------------------------------------------------
(* Parameters of calls                                                     *)

\* r has read what w2 wrote, and if all is well it has val.
Back(s, w2, r, val, well) ==
  Reached(s, w2, r) /\ (well => Gives(r, After(s, w2, val)))

\* Each of the writers f[0], f[1], ..., f[n] is made of the one before.
Stepwise(f, n) ==
  \A k \in 1 .. n : Sound(f[k - 1]) =>
    /\ Grown(f[k - 1], f[k])
    /\ f[k].ok => Len(f[k].bytes) > Len(f[k - 1].bytes)

LEMMA GrownByOne ==
  ASSUME NEW n \in Nat, NEW f, Sound(f[0]), Stepwise(f, n)
  PROVE  \A i \in 0 .. n : Sound(f[i]) /\ Grown(f[0], f[i])
<1> DEFINE T == {i \in Nat : i <= n => Sound(f[i]) /\ Grown(f[0], f[i])}
<1>1. 0 \in T
  BY GrownIsReflexive
<1>2. ASSUME NEW i \in T PROVE i + 1 \in T
  <2>1. SUFFICES ASSUME i + 1 <= n PROVE Sound(f[i + 1]) /\ Grown(f[0], f[i + 1])
    OBVIOUS
  <2>2. i \in Nat /\ i <= n /\ i + 1 \in 1 .. n /\ (i + 1) - 1 = i
    BY <2>1
  <2>3. Sound(f[i]) /\ Grown(f[0], f[i])
    BY <2>2
  <2>4. Grown(f[i], f[i + 1])
    BY <2>2, <2>3 DEF Stepwise
  <2>5. Grown(f[0], f[i + 1])
    BY <2>3, <2>4, GrownIsTransitive
  <2> QED
    BY <2>5 DEF Grown
<1>3. T = Nat
  <2>1. T \in SUBSET Nat
    OBVIOUS
  <2> HIDE DEF T
  <2> QED
    BY <1>1, <1>2, <2>1, EveryNumber
<1>4. ASSUME NEW i \in 0 .. n PROVE Sound(f[i]) /\ Grown(f[0], f[i])
  <2>1. i \in T /\ i <= n
    BY <1>3
  <2> QED
    BY <2>1
<1> QED
  BY <1>4

\* What the last writer holds, each holds, and has room for what came after.
LEMMA GrownToLast ==
  ASSUME NEW n \in Nat, NEW f, Sound(f[0]), Stepwise(f, n), NEW s, Held(f[n], s)
  PROVE  \A i \in 0 .. n :
           /\ Sound(f[i]) /\ Grown(f[i], f[n]) /\ Held(f[i], s)
           /\ Len(f[i].bytes) \in Nat /\ Len(f[n].bytes) \in Nat
           /\ Len(f[i].bytes) + (n - i) <= Len(f[n].bytes)
<1>1. \A i \in 0 .. n : Sound(f[i])
  BY GrownByOne
<1> DEFINE Good(i) == /\ Grown(f[i], f[n]) /\ Held(f[i], s)
                      /\ Len(f[i].bytes) \in Nat /\ Len(f[n].bytes) \in Nat
                      /\ Len(f[i].bytes) + (n - i) <= Len(f[n].bytes)
           T == {j \in Nat : j <= n => Good(n - j)}
<1> HIDE DEF Good
<1>2. 0 \in T
  <2>1. n \in 0 .. n /\ n - 0 = n
    OBVIOUS
  <2>2. Sound(f[n])
    BY <1>1, <2>1
  <2>3. Grown(f[n], f[n])
    BY <2>2, GrownIsReflexive
  <2>4. Len(f[n].bytes) \in Nat
    BY <2>3, HeldBefore
  <2>5. Len(f[n].bytes) + (n - n) <= Len(f[n].bytes)
    <3> DEFINE m == Len(f[n].bytes)
    <3> HIDE DEF m
    <3>1. m \in Nat
      BY <2>4 DEF m
    <3>2. m + (n - n) <= m
      BY <3>1
    <3> QED
      BY <3>2 DEF m
  <2>6. Held(f[n], s)
    OBVIOUS
  <2> QED
    BY <2>1, <2>3, <2>4, <2>5, <2>6 DEF Good
<1>3. ASSUME NEW j \in T PROVE j + 1 \in T
  <2>1. SUFFICES ASSUME j + 1 <= n PROVE Good(n - (j + 1))
    OBVIOUS
  <2> DEFINE i == n - (j + 1)
  <2>2. /\ i \in 0 .. n /\ i + 1 \in 1 .. n /\ (i + 1) - 1 = i /\ n - j = i + 1
        /\ j \in Nat /\ j <= n /\ i \in Nat
    BY <2>1
  <2> HIDE DEF i
  <2>3. Good(i + 1)
    BY <2>2
  <2>4. Sound(f[i])
    BY <1>1, <2>2
  <2>5. Grown(f[i], f[i + 1]) /\ (f[i + 1].ok => Len(f[i + 1].bytes) > Len(f[i].bytes))
    BY <2>2, <2>4 DEF Stepwise
  <2>6. Held(f[i + 1], s) /\ Grown(f[i + 1], f[n])
    BY <2>3 DEF Good
  <2>7. Held(f[i], s) /\ Len(f[i].bytes) \in Nat
    BY <2>5, <2>6, HeldBefore
  <2>8. Grown(f[i], f[n])
    BY <2>5, <2>6, GrownIsTransitive
  <2>9. Len(f[i].bytes) + (n - i) <= Len(f[n].bytes)
    <3> DEFINE a == Len(f[i].bytes)
               b == Len(f[i + 1].bytes)
               d == Len(f[n].bytes)
    <3>1. a \in Nat /\ b \in Nat /\ d \in Nat /\ a < b /\ b + (n - (i + 1)) <= d
      BY <2>3, <2>5, <2>6, <2>7 DEF Held, Good
    <3> HIDE DEF a, b, d
    <3>2. a + (n - i) <= d
      BY <2>2, <3>1
    <3> QED
      BY <3>2 DEF a, d
  <2>10. Good(i)
    BY <2>3, <2>7, <2>8, <2>9 DEF Good
  <2> QED
    BY <2>10 DEF i
<1>4. T = Nat
  <2>1. T \in SUBSET Nat
    OBVIOUS
  <2> HIDE DEF T
  <2> QED
    BY <1>2, <1>3, <2>1, EveryNumber
<1>5. ASSUME NEW i \in 0 .. n PROVE Good(i)
  <2>1. n - i \in Nat /\ n - i <= n /\ n - (n - i) = i
    OBVIOUS
  <2>2. n - i \in T
    BY <1>4, <2>1
  <2> QED
    BY <2>1, <2>2
<1> QED
  BY <1>1, <1>5 DEF Good

\* The elements are written one after the other.
ItemsPut(f, w, e, inner) ==
  /\ PutItems(w, e, inner) = f[Len(e.val)]
  /\ f[0] = w
  /\ \A k \in 1 .. Len(e.val) : f[k] = Called(inner, KeyPut(f[k - 1], e, k), e.val[k])

LEMMA PutItemsIs ==
  ASSUME NEW w, NEW e, Len(e.val) \in Nat, NEW inner
  PROVE  \E f : ItemsPut(f, w, e, inner)
<1> DEFINE First == w
           Step(x, k) == Called(inner, KeyPut(x, e, k), e.val[k])
           Turn(f, k) == IF k = 0 THEN First ELSE Step(f[k - 1], k)
           S == {m \in Nat : \E f : f = [k \in 0 .. m |-> Turn(f, k)]}
<1> HIDE DEF First, Step
<1>0. Len(e.val) \in Nat
  BY DepthIsNat
<1>1. 0 \in S
  <2> DEFINE f == [k \in 0 .. 0 |-> First]
  <2>1. f = [k \in 0 .. 0 |-> Turn(f, k)]
    OBVIOUS
  <2> QED
    BY <2>1
<1>2. ASSUME NEW m \in S PROVE m + 1 \in S
  <2>1. PICK f : f = [k \in 0 .. m |-> Turn(f, k)]
    OBVIOUS
  <2> DEFINE g == [k \in 0 .. (m + 1) |-> IF k = m + 1 THEN Turn(f, m + 1) ELSE f[k]]
  <2>2. \A k \in 0 .. (m + 1) : k # m + 1 => k \in 0 .. m
    OBVIOUS
  <2>3. \A k \in 0 .. m : f[k] = Turn(f, k)
    BY <2>1
  <2>4. ASSUME NEW k \in 0 .. (m + 1), k # 0 PROVE g[k - 1] = f[k - 1]
    <3>1. k - 1 \in 0 .. (m + 1) /\ k - 1 # m + 1
      BY <2>4
    <3> QED
      BY <3>1
  <2>5. ASSUME NEW k \in 0 .. (m + 1) PROVE g[k] = Turn(g, k)
    <3>1. g[k] = Turn(f, k)
      BY <2>2, <2>3
    <3>2. CASE k = 0
      BY <3>1, <3>2
    <3>3. CASE k # 0
      <4>1. g[k - 1] = f[k - 1]
        BY <2>4, <3>3
      <4> HIDE DEF g
      <4> QED
        BY <3>1, <3>3, <4>1
    <3> QED
      BY <3>2, <3>3
  <2>6. g = [k \in 0 .. (m + 1) |-> Turn(g, k)]
    BY <2>5
  <2> HIDE DEF g, Turn
  <2>7. \E h : h = [k \in 0 .. (m + 1) |-> Turn(h, k)]
    BY <2>6
  <2> QED
    BY <2>7
<1>3. S = Nat
  <2>1. S \in SUBSET Nat
    OBVIOUS
  <2> HIDE DEF S
  <2> QED
    BY <1>1, <1>2, <2>1, EveryNumber
<1>4. \E h : h = [k \in 0 .. Len(e.val) |-> Turn(h, k)]
  BY <1>0, <1>3
<1> HIDE DEF Turn, S
<1>5. PICK h : h = [k \in 0 .. Len(e.val) |-> Turn(h, k)] /\ PutItems(w, e, inner) = h[Len(e.val)]
  <2>1. \E h : h = [k \in 0 .. Len(e.val) |-> IF k = 0 THEN w ELSE Called(inner, KeyPut(h[k - 1], e, k), e.val[k])]
    BY <1>4 DEF Turn, First, Step
  <2>2. \E h : h = [k \in 0 .. Len(e.val) |-> IF k = 0 THEN w ELSE Called(inner, KeyPut(h[k - 1], e, k), e.val[k])] /\ PutItems(w, e, inner) = h[Len(e.val)]
    BY <2>1 DEF PutItems
  <2> QED
    BY <2>2 DEF Turn, First, Step
<1>6. \A k \in 0 .. Len(e.val) : h[k] = Turn(h, k)
  BY <1>5
<1>7. h[0] = First
  BY <1>0, <1>6 DEF Turn
<1>8. \A k \in 1 .. Len(e.val) : h[k] = Step(h[k - 1], k)
  <2>1. \A k \in 1 .. Len(e.val) : k \in 0 .. Len(e.val) /\ k # 0
    BY <1>0
  <2> QED
    BY <1>6, <2>1 DEF Turn
<1> QED
  BY <1>5, <1>7, <1>8 DEF First, Step, ItemsPut

\* The elements are read one after the other.
ItemsTaken(f, r, count, keyed, inner) ==
  /\ TakeItems(r, count, keyed, inner) = f[count]
  /\ f[0] = WithVal(r, <<>>)
  /\ \A k \in 1 .. count : f[k] = IF f[k - 1].ok THEN TakeItem(f[k - 1], keyed, inner) ELSE f[k - 1]

LEMMA TakeItemsIs ==
  ASSUME NEW r, NEW count \in Nat, NEW keyed, NEW inner
  PROVE  \E f : ItemsTaken(f, r, count, keyed, inner)
<1> DEFINE First == WithVal(r, <<>>)
           Step(x, k) == IF x.ok THEN TakeItem(x, keyed, inner) ELSE x
           Turn(f, k) == IF k = 0 THEN First ELSE Step(f[k - 1], k)
           S == {m \in Nat : \E f : f = [k \in 0 .. m |-> Turn(f, k)]}
<1> HIDE DEF First, Step
<1>0. count \in Nat
  BY DepthIsNat
<1>1. 0 \in S
  <2> DEFINE f == [k \in 0 .. 0 |-> First]
  <2>1. f = [k \in 0 .. 0 |-> Turn(f, k)]
    OBVIOUS
  <2> QED
    BY <2>1
<1>2. ASSUME NEW m \in S PROVE m + 1 \in S
  <2>1. PICK f : f = [k \in 0 .. m |-> Turn(f, k)]
    OBVIOUS
  <2> DEFINE g == [k \in 0 .. (m + 1) |-> IF k = m + 1 THEN Turn(f, m + 1) ELSE f[k]]
  <2>2. \A k \in 0 .. (m + 1) : k # m + 1 => k \in 0 .. m
    OBVIOUS
  <2>3. \A k \in 0 .. m : f[k] = Turn(f, k)
    BY <2>1
  <2>4. ASSUME NEW k \in 0 .. (m + 1), k # 0 PROVE g[k - 1] = f[k - 1]
    <3>1. k - 1 \in 0 .. (m + 1) /\ k - 1 # m + 1
      BY <2>4
    <3> QED
      BY <3>1
  <2>5. ASSUME NEW k \in 0 .. (m + 1) PROVE g[k] = Turn(g, k)
    <3>1. g[k] = Turn(f, k)
      BY <2>2, <2>3
    <3>2. CASE k = 0
      BY <3>1, <3>2
    <3>3. CASE k # 0
      <4>1. g[k - 1] = f[k - 1]
        BY <2>4, <3>3
      <4> HIDE DEF g
      <4> QED
        BY <3>1, <3>3, <4>1
    <3> QED
      BY <3>2, <3>3
  <2>6. g = [k \in 0 .. (m + 1) |-> Turn(g, k)]
    BY <2>5
  <2> HIDE DEF g, Turn
  <2>7. \E h : h = [k \in 0 .. (m + 1) |-> Turn(h, k)]
    BY <2>6
  <2> QED
    BY <2>7
<1>3. S = Nat
  <2>1. S \in SUBSET Nat
    OBVIOUS
  <2> HIDE DEF S
  <2> QED
    BY <1>1, <1>2, <2>1, EveryNumber
<1>4. \E h : h = [k \in 0 .. count |-> Turn(h, k)]
  BY <1>0, <1>3
<1> HIDE DEF Turn, S
<1>5. PICK h : h = [k \in 0 .. count |-> Turn(h, k)] /\ TakeItems(r, count, keyed, inner) = h[count]
  <2>1. \E h : h = [k \in 0 .. count |-> IF k = 0 THEN WithVal(r, <<>>) ELSE IF h[k - 1].ok THEN TakeItem(h[k - 1], keyed, inner) ELSE h[k - 1]]
    BY <1>4 DEF Turn, First, Step
  <2>2. \E h : h = [k \in 0 .. count |-> IF k = 0 THEN WithVal(r, <<>>) ELSE IF h[k - 1].ok THEN TakeItem(h[k - 1], keyed, inner) ELSE h[k - 1]] /\ TakeItems(r, count, keyed, inner) = h[count]
    BY <2>1 DEF TakeItems
  <2> QED
    BY <2>2 DEF Turn, First, Step
<1>6. \A k \in 0 .. count : h[k] = Turn(h, k)
  BY <1>5
<1>7. h[0] = First
  BY <1>0, <1>6 DEF Turn
<1>8. \A k \in 1 .. count : h[k] = Step(h[k - 1], k)
  <2>1. \A k \in 1 .. count : k \in 0 .. count /\ k # 0
    BY <1>0
  <2> QED
    BY <1>6, <2>1 DEF Turn
<1> QED
  BY <1>5, <1>7, <1>8 DEF First, Step, ItemsTaken

\* What is asked of the elements S, of put, which encodes them, and of c[n], which
\* decodes them where at most n bytes are left.
KeysNamed(S) == \A x \in S : x.key \in Name \cup {Null}
InnerGrows(S, put) ==
  \A e \in S : \A w : Sound(w) =>
    /\ Grown(w, Called(put, w, e))
    /\ Called(put, w, e).ok => Len(Called(put, w, e).bytes) > Len(w.bytes)
InnerBack(S, put, arrived, long, c, N) ==
  \A e \in S : \A w, s : \A n \in 0 .. N :
    Sound(w) /\ Held(Called(put, w, e), s) /\ Len(s) - Len(w.bytes) <= n
    => Back(s, Called(put, w, e), c[n][Rest(s, Len(w.bytes))],
            Under(Null, arrived[e]), ~Called(put, w, e).lost /\ ~long[e])

LEMMA ContentsAre ==
  ASSUME NEW K, NEW S, NEW e \in ExtraIn(K, S), e.type \in Keyed \cup Unkeyed, KeysNamed(S)
  PROVE  /\ Len(e.val) \in Nat
         /\ \A k \in 1 .. Len(e.val) :
              /\ e.val[k] \in S
              /\ e.type \in Keyed => e.val[k].key \in Name /\ e.val[k].key # Null
<1>1. CASE e.type \in Keyed
  <2>1. e.val \in Seq(Named(S))
    BY <1>1, ElementIs
  <2>2. Len(e.val) \in Nat /\ \A k \in 1 .. Len(e.val) : e.val[k] \in Named(S)
    BY <2>1
  <2>3. \A k \in 1 .. Len(e.val) : e.val[k] \in S /\ e.val[k].key # Null
    BY <2>2 DEF Named
  <2>4. \A k \in 1 .. Len(e.val) : e.val[k].key \in Name
    BY <2>3 DEF KeysNamed
  <2> QED
    BY <2>2, <2>3, <2>4
<1>2. CASE e.type \in Unkeyed /\ e.type \notin Keyed
  <2>1. e.val \in Seq(S)
    BY <1>2, ElementIs
  <2>2. Len(e.val) \in Nat /\ \A k \in 1 .. Len(e.val) : e.val[k] \in S
    BY <2>1
  <2> QED
    BY <1>2, <2>2
<1> QED
  BY <1>1, <1>2

LEMMA KeyGrows ==
  ASSUME NEW w, Sound(w), NEW e, NEW k, e.type \in Keyed => e.val[k].key \in Name
  PROVE  Grown(w, KeyPut(w, e, k)) /\ Sound(KeyPut(w, e, k))
<1>1. CASE e.type \in Keyed
  BY <1>1, StringGrows DEF KeyPut, Grown
<1>2. CASE e.type \notin Keyed
  BY <1>2, GrownIsReflexive DEF KeyPut
<1> QED
  BY <1>1, <1>2

LEMMA ItemsGrow ==
  ASSUME NEW K, NEW S, NEW e \in ExtraIn(K, S), e.type \in Keyed \cup Unkeyed,
         KeysNamed(S), NEW put, InnerGrows(S, put),
         NEW f, \A k \in 1 .. Len(e.val) : f[k] = Called(put, KeyPut(f[k - 1], e, k), e.val[k])
  PROVE  Stepwise(f, Len(e.val))
<1> SUFFICES ASSUME NEW k \in 1 .. Len(e.val), Sound(f[k - 1])
             PROVE  /\ Grown(f[k - 1], f[k])
                    /\ f[k].ok => Len(f[k].bytes) > Len(f[k - 1].bytes)
  BY DEF Stepwise
<1> DEFINE a == f[k - 1]
           b == KeyPut(a, e, k)
           d == Called(put, b, e.val[k])
<1>1. e.val[k] \in S /\ (e.type \in Keyed => e.val[k].key \in Name)
  BY ContentsAre
<1>2. Grown(a, b) /\ Sound(b)
  <2> HIDE DEF a
  <2>1. Sound(a)
    BY DEF a
  <2> QED
    BY <1>1, <2>1, KeyGrows
<1> HIDE DEF a, b
<1>3. Grown(b, d) /\ (d.ok => Len(d.bytes) > Len(b.bytes))
  BY <1>1, <1>2 DEF InnerGrows
<1> HIDE DEF d
<1>4. Grown(a, d)
  BY <1>2, <1>3, GrownIsTransitive
<1>5. d.ok => Len(d.bytes) > Len(a.bytes)
  <2>1. Len(a.bytes) <= Len(b.bytes)
    BY <1>2 DEF Grown, Starts
  <2>2. a.bytes \in Seq(Byte) /\ b.bytes \in Seq(Byte) /\ d.bytes \in Seq(Byte)
    BY <1>2, <1>3 DEF Grown, Sound, WriterState
  <2>3. Len(a.bytes) \in Nat /\ Len(b.bytes) \in Nat /\ Len(d.bytes) \in Nat
    BY <2>2
  <2> QED
    BY <1>3, <2>1, <2>3
<1>6. f[k] = d
  BY DEF d, b, a
<1> QED
  BY <1>4, <1>5, <1>6 DEF a

\* Bytes behind each other, and writers that have come to the same place.
LEMMA ReachedNow ==
  ASSUME NEW s, NEW w, NEW r, Reached(s, w, r), NEW val
  PROVE  Reading(r.bytes, TRUE, r.past, val) = After(s, w, val)
BY DEF Reached, After, At

\* r has read what w2 wrote, and if all is well x has come behind list.
Longer(s, w2, r, list, x, well) ==
  r = After(s, w2, r.val) /\ (well => r.val = Append(list, x))

\* Reading an element of a list.
LEMMA ItemIsRead ==
  ASSUME NEW K, NEW S, NEW e \in ExtraIn(K, S), e.type \in Keyed \cup Unkeyed,
         KeysNamed(S), NEW put, NEW arrived, NEW long, NEW c, NEW N,
         InnerGrows(S, put), InnerBack(S, put, arrived, long, c, N),
         NEW k \in 1 .. Len(e.val), NEW w, Sound(w), NEW s,
         Held(Called(put, KeyPut(w, e, k), e.val[k]), s),
         NEW n \in 0 .. N, Len(s) - Len(w.bytes) <= n, NEW list
  PROVE  Longer(s, Called(put, KeyPut(w, e, k), e.val[k]),
                TakeItem(After(s, w, list), e.type \in Keyed, c[n]),
                list, Under(KeyIn(e, k), arrived[e.val[k]]),
                ~Called(put, KeyPut(w, e, k), e.val[k]).lost /\ ~long[e.val[k]])
<1> DEFINE x == e.val[k]
           u == KeyPut(w, e, k)
           w2 == Called(put, u, x)
           a == After(s, w, list)
           keyed == e.type \in Keyed
           r == TakeItem(a, keyed, c[n])
           kr == IF keyed THEN ReadString(a) ELSE WithVal(a, Null)
           b == After(s, u, KeyIn(e, k))
           t == c[n][Rest(s, Len(u.bytes))]
           i == TakeInner(b, c[n])
           well == ~w2.lost /\ ~long[x]
           arr == Under(Null, arrived[x])
<1>1. x \in S /\ (keyed => x.key \in Name /\ x.key # Null)
  BY ContentsAre
<1>2. Grown(w, u) /\ Sound(u)
  BY <1>1, KeyGrows
<1>3. Grown(u, w2)
  <2> HIDE DEF x, u
  <2> QED
    BY <1>1, <1>2 DEF InnerGrows
<1>4. Held(u, s)
  <2>1. Held(w2, s)
    OBVIOUS
  <2> HIDE DEF w2, u
  <2> QED
    BY <1>3, <2>1, HeldBefore
<1>5. kr = b
  <2>1. CASE keyed
    <3>1. u = WriteString(w, x.key)
      BY <2>1 DEF KeyPut
    <3>2. Held(WriteString(w, x.key), s)
      BY <1>4, <3>1
    <3> HIDE DEF x, u, a
    <3>3. Gives(ReadString(After(s, w, list)), After(s, WriteString(w, x.key), Text(x.key)))
      BY <1>1, <2>1, <3>2, StringIsRead
    <3>4. Text(x.key) = KeyIn(e, k)
      BY <1>1, <2>1 DEF Text, KeyIn, x
    <3> QED
      BY <2>1, <3>1, <3>3, <3>4 DEF Gives, a
  <2>2. CASE ~keyed
    <3>1. u = w /\ KeyIn(e, k) = Null
      BY <2>2 DEF KeyPut, KeyIn
    <3> HIDE DEF u
    <3>2. WithVal(After(s, w, list), Null) = After(s, w, Null)
      BY AfterWithVal
    <3> QED
      BY <2>2, <3>1, <3>2
  <2> QED
    BY <2>1, <2>2
<1>6. Back(s, w2, t, arr, well)
  <2>1. Len(s) - Len(u.bytes) <= n
    <3>1. Len(w.bytes) \in Nat /\ Len(u.bytes) \in Nat /\ Len(w.bytes) <= Len(u.bytes)
      <4> HIDE DEF u
      <4> QED
        BY <1>2, <1>4, HeldBefore
    <3>2. Len(s) \in Nat
      BY <1>4 DEF Held
    <3> DEFINE p == Len(w.bytes)
               q == Len(u.bytes)
               l == Len(s)
    <3>3. p \in Nat /\ q \in Nat /\ p <= q /\ l \in Nat /\ l - p <= n /\ n \in Int
      BY <3>1, <3>2
    <3> HIDE DEF p, q, l
    <3>4. l - q <= n
      BY <3>3
    <3> QED
      BY <3>4 DEF l, q
  <2>2. Held(Called(put, u, x), s)
    OBVIOUS
  <2> HIDE DEF u, x
  <2> QED
    BY <1>1, <1>2, <2>1, <2>2 DEF InnerBack
<1> HIDE DEF t, arr, well
<1>7. b.ok /\ b.past = FALSE /\ b.val = KeyIn(e, k) /\ b.bytes = Rest(s, Len(u.bytes))
      /\ a.val = list
  <2> HIDE DEF u
  <2> QED
    BY DEF After, At, Reading
<1> HIDE DEF a, b, u, x, w2, kr
<1>8. i = Reading(t.bytes, t.ok, t.past \/ b.past, t.val)
  BY <1>7 DEF TakeInner, t
<1>9. Reached(s, w2, t) /\ (well => Gives(t, After(s, w2, arr)))
  BY <1>6 DEF Back
<1>10. i.bytes = t.bytes /\ i.ok = t.ok /\ i.val = t.val /\ i.past = FALSE
  <2>1. i.bytes = t.bytes /\ i.ok = t.ok /\ i.val = t.val /\ i.past = (t.past \/ b.past)
    BY <1>8 DEF Reading
  <2>2. ~t.past
    BY <1>9 DEF Reached
  <2> QED
    BY <1>7, <2>1, <2>2
<1> HIDE DEF i
<1>11. Reached(s, w2, i)
  BY <1>9, <1>10 DEF Reached
<1> DEFINE new == Append(list, Under(KeyIn(e, k), i.val))
           val == IF i.ok THEN new ELSE list
<1>12. r = Reading(i.bytes, TRUE, i.past, val)
  <2>1. r = LET kk == kr
                ee == TakeInner(kk, c[n])
            IN IF kk.ok THEN Joined(a.val, ee, Append(a.val, Under(kk.val, ee.val))) ELSE kk
    BY DEF TakeItem, AtEnd, kr
  <2> HIDE DEF r
  <2>2. r = Joined(a.val, i, Append(a.val, Under(b.val, i.val)))
    BY <1>5, <1>7, <2>1 DEF i
  <2> QED
    BY <1>7, <2>2 DEF Joined
<1>13. r = After(s, w2, val)
  <2> HIDE DEF val, r
  <2> QED
    BY <1>10, <1>11, <1>12, ReachedNow
<1>14. r.val = val
  <2> HIDE DEF val, r
  <2> QED
    BY <1>13, AfterIs
<1>15. well => val = Append(list, Under(KeyIn(e, k), arrived[x]))
  <2>1. SUFFICES ASSUME well PROVE val = Append(list, Under(KeyIn(e, k), arrived[x]))
    OBVIOUS
  <2>2. t = After(s, w2, arr)
    BY <1>9, <2>1 DEF Gives
  <2>3. t.ok /\ t.val = arr
    BY <2>2, AfterIs
  <2>4. Under(KeyIn(e, k), arr) = Under(KeyIn(e, k), arrived[x])
    BY DEF arr, Under, Extra
  <2> QED
    BY <1>10, <2>3, <2>4
<1> HIDE DEF val, r
<1>16. ~w2.lost /\ ~long[x]
         => r.val = Append(list, Under(KeyIn(e, k), arrived[x]))
  BY <1>14, <1>15 DEF well
<1>17. r = After(s, w2, r.val)
  BY <1>13, <1>14
<1> QED
  BY <1>16, <1>17 DEF w2, u, x, a, r, Longer

LEMMA FrontGrows ==
  ASSUME NEW g, NEW k \in Nat \ {0}
  PROVE  Append([i \in 1 .. k - 1 |-> g[i]], g[k]) = [i \in 1 .. k |-> g[i]]
<1> DEFINE S == {g[i] : i \in 1 .. k}
           a == [i \in 1 .. k - 1 |-> g[i]]
           b == [i \in 1 .. k |-> g[i]]
<1>0. k \in Nat /\ k - 1 \in Nat /\ k \in 1 .. k /\ \A i \in 1 .. k - 1 : i \in 1 .. k
  OBVIOUS
<1>1. a \in Seq(S) /\ Len(a) = k - 1 /\ b \in Seq(S) /\ Len(b) = k /\ g[k] \in S
  <2>1. \A i \in 1 .. k : g[i] \in S
    OBVIOUS
  <2> HIDE DEF S
  <2> QED
    BY <1>0, <2>1
<1>2. /\ \A i \in 1 .. k - 1 : a[i] = g[i]
      /\ \A i \in 1 .. k : b[i] = g[i]
  OBVIOUS
<1> HIDE DEF a, b
<1> DEFINE d == Append(a, g[k])
<1>3. d \in Seq(S) /\ Len(d) = k /\ d[k] = g[k] /\ \A i \in 1 .. k - 1 : d[i] = a[i]
  <2> DEFINE y == g[k]
  <2>1. y \in S
    BY <1>1
  <2> HIDE DEF y, S
  <2>2. Append(a, y) \in Seq(S) /\ Len(Append(a, y)) = Len(a) + 1
        /\ Append(a, y)[Len(a) + 1] = y /\ \A i \in 1 .. Len(a) : Append(a, y)[i] = a[i]
    BY <1>1, <2>1, AppendProperties
  <2>3. (k - 1) + 1 = k
    BY <1>0
  <2> QED
    BY <1>1, <2>2, <2>3 DEF y
<1> HIDE DEF d, S
<1>4. \A i \in 1 .. Len(d) : d[i] = b[i]
  <2> TAKE i \in 1 .. Len(d)
  <2>1. i \in 1 .. k
    BY <1>3
  <2>2. i = k \/ i \in 1 .. k - 1
    BY <1>0, <2>1
  <2> QED
    BY <1>2, <1>3, <2>1, <2>2
<1>5. d = b
  BY <1>1, <1>3, <1>4, SameSequence
<1> QED
  BY <1>5 DEF d, a, b

\* What is in a container, as it arrives.
Contents(e, arrived) ==
  [i \in 1 .. Len(e.val) |-> Under(KeyIn(e, i), arrived[e.val[i]])]

\* r has read what w2 wrote without failing, and if all is well it has val.
Whole(s, w2, r, val, well) ==
  r = After(s, w2, r.val) /\ (well => r.val = val)

\* Reading the elements of a list, all of them.
LEMMA ItemsAreRead ==
  ASSUME NEW K, NEW S, NEW e \in ExtraIn(K, S), e.type \in Keyed \cup Unkeyed,
         KeysNamed(S), NEW put, NEW arrived, NEW long, NEW c, NEW N,
         InnerGrows(S, put), InnerBack(S, put, arrived, long, c, N),
         NEW w, Sound(w), NEW s, Held(PutItems(w, e, put), s),
         NEW n \in 0 .. N, Len(s) - Len(w.bytes) <= n, NEW v
  PROVE  /\ Held(w, s) /\ Len(w.bytes) + Len(e.val) <= Len(PutItems(w, e, put).bytes)
         /\ Grown(w, PutItems(w, e, put))
         /\ Whole(s, PutItems(w, e, put),
                  TakeItems(After(s, w, v), Len(e.val), e.type \in Keyed, c[n]),
                  Contents(e, arrived),
                  ~PutItems(w, e, put).lost /\ \A i \in 1 .. Len(e.val) : ~long[e.val[i]])
<1>l. Len(e.val) \in Nat
  BY ContentsAre
<1>f. PICK f : ItemsPut(f, w, e, put)
  BY <1>l, PutItemsIs
<1>p. /\ PutItems(w, e, put) = f[Len(e.val)] /\ f[0] = w
      /\ \A k \in 1 .. Len(e.val) : f[k] = Called(put, KeyPut(f[k - 1], e, k), e.val[k])
  BY <1>f DEF ItemsPut
<1>s. Sound(f[0]) /\ Held(f[Len(e.val)], s) /\ Len(s) - Len(f[0].bytes) <= n
  BY <1>p
<1> DEFINE L == Len(e.val)
           keyed == e.type \in Keyed
           r == TakeItems(After(s, f[0], v), L, keyed, c[n])
           well == ~f[L].lost /\ \A i \in 1 .. L : ~long[e.val[i]]
           g == Contents(e, arrived)
           Front(k) == [i \in 1 .. k |-> g[i]]
<1>1. L \in Nat
  BY <1>l
<1>2. Stepwise(f, L)
  BY <1>p, ItemsGrow
<1>a. PICK a : ItemsTaken(a, After(s, f[0], v), L, keyed, c[n])
  <2> HIDE DEF L, keyed
  <2> QED
    BY <1>1, TakeItemsIs
<1>3. /\ r = a[L]
      /\ a[0] = WithVal(After(s, f[0], v), <<>>)
      /\ \A k \in 1 .. L :
           a[k] = IF a[k - 1].ok THEN TakeItem(a[k - 1], keyed, c[n]) ELSE a[k - 1]
  BY <1>a DEF ItemsTaken
<1>4. \A i \in 1 .. L : g[i] = Under(KeyIn(e, i), arrived[e.val[i]])
  BY DEF Contents
<1>5. g = Front(L)
  BY DEF Contents
<1> HIDE DEF r, well, g
<1>6. \A i \in 0 .. L :
        /\ Sound(f[i]) /\ Grown(f[i], f[L]) /\ Held(f[i], s)
        /\ Len(f[i].bytes) \in Nat /\ Len(f[L].bytes) \in Nat
        /\ Len(f[i].bytes) + (L - i) <= Len(f[L].bytes)
  <2>1. Held(f[L], s) /\ Sound(f[0])
    BY <1>s
  <2> HIDE DEF L
  <2> QED
    BY <1>1, <1>2, <2>1, GrownToLast
<1> DEFINE P(k) == a[k] = After(s, f[k], a[k].val) /\ (well => a[k].val = Front(k))
<1>7. P(0)
  <2>1. a[0] = After(s, f[0], <<>>)
    BY <1>3, AfterWithVal
  <2>2. a[0].val = <<>>
    BY <2>1, AfterIs
  <2>3. Front(0) = <<>>
    OBVIOUS
  <2> QED
    BY <2>1, <2>2, <2>3
<1>8. ASSUME NEW k \in 1 .. L, P(k - 1) PROVE P(k)
  <2> DEFINE x == f[k - 1]
             w2 == Called(put, KeyPut(x, e, k), e.val[k])
             list == a[k - 1].val
             q == TakeItem(After(s, x, list), keyed, c[n])
  <2>1. k - 1 \in 0 .. L /\ k \in 0 .. L /\ k \in Nat \ {0} /\ 0 \in 0 .. L
    BY <1>1
  <2>2. f[k] = w2
    BY <1>p
  <2>3. a[k] = q
    <3>1. a[k - 1].ok
      BY <1>8, AfterIs
    <3> QED
      BY <1>3, <1>8, <3>1
  <2>4. Sound(x) /\ Held(w2, s) /\ Held(x, s)
    BY <1>6, <2>1, <2>2
  <2>5. Len(s) - Len(x.bytes) <= n
    <3>1. Len(f[0].bytes) <= Len(x.bytes)
      <4>1. Sound(f[0])
        BY <1>s
      <4>2. Grown(f[0], f[k - 1])
        <5> HIDE DEF L
        <5> QED
          BY <1>1, <1>2, <2>1, <4>1, GrownByOne
      <4> QED
        BY <4>2 DEF Grown, Starts
    <3>2. Len(f[0].bytes) \in Nat /\ Len(x.bytes) \in Nat
      BY <1>6, <2>1
    <3>3. Len(s) \in Nat
      BY <2>4 DEF Held
    <3> DEFINE z == Len(f[0].bytes)
               y == Len(x.bytes)
               l == Len(s)
    <3>4. z \in Nat /\ y \in Nat /\ z <= y /\ l \in Nat /\ l - z <= n /\ n \in Int
      BY <1>s, <3>1, <3>2, <3>3
    <3> HIDE DEF z, y, l
    <3>5. l - y <= n
      BY <3>4
    <3> QED
      BY <3>5 DEF l, y
  <2>6. /\ q = After(s, w2, q.val)
        /\ ~w2.lost /\ ~long[e.val[k]]
             => q.val = Append(list, Under(KeyIn(e, k), arrived[e.val[k]]))
    <3> HIDE DEF x, list
    <3>1. Longer(s, w2, q, list, Under(KeyIn(e, k), arrived[e.val[k]]),
                 ~w2.lost /\ ~long[e.val[k]])
      BY <2>4, <2>5, ItemIsRead
    <3> HIDE DEF q, w2
    <3> QED
      BY <3>1 DEF Longer
  <2> HIDE DEF q
  <2>7. ASSUME well PROVE a[k].val = Front(k)
    <3>1. ~w2.lost
      <4>1. Grown(f[k], f[L])
        BY <1>6, <2>1
      <4> QED
        BY <2>2, <2>7, <4>1 DEF Grown, well
    <3>2. ~long[e.val[k]]
      BY <2>7 DEF well
    <3>3. a[k].val = Append(list, Under(KeyIn(e, k), arrived[e.val[k]]))
      BY <2>3, <2>6, <3>1, <3>2
    <3>4. list = Front(k - 1) /\ g[k] = Under(KeyIn(e, k), arrived[e.val[k]])
      BY <1>4, <1>8, <2>7
    <3>5. Append(Front(k - 1), g[k]) = Front(k)
      BY <2>1, FrontGrows
    <3> QED
      BY <3>3, <3>4, <3>5
  <2>8. a[k] = After(s, f[k], a[k].val)
    BY <2>2, <2>3, <2>6
  <2> QED
    BY <2>7, <2>8
<1> DEFINE T == {k \in Nat : k <= L => P(k)}
<1> HIDE DEF P
<1>9. 0 \in T
  BY <1>7
<1>10. ASSUME NEW k \in T PROVE k + 1 \in T
  <2>1. SUFFICES ASSUME k + 1 <= L PROVE P(k + 1)
    OBVIOUS
  <2>2. k \in Nat /\ k <= L /\ k + 1 \in 1 .. L /\ (k + 1) - 1 = k
    BY <1>1, <2>1
  <2>3. P(k)
    BY <2>2
  <2> QED
    BY <1>8, <2>2, <2>3
<1>11. T = Nat
  <2>1. T \in SUBSET Nat
    OBVIOUS
  <2> HIDE DEF T
  <2> QED
    BY <1>9, <1>10, <2>1, EveryNumber
<1>12. P(L)
  <2>1. L \in T
    BY <1>1, <1>11
  <2>2. L <= L
    BY <1>1
  <2> QED
    BY <2>1, <2>2
<1>13. r = After(s, f[L], r.val) /\ (well => r.val = g)
  BY <1>3, <1>5, <1>12 DEF P
<1>14. Whole(s, f[L], r, g, well)
  BY <1>13 DEF Whole
<1>15. Held(f[0], s) /\ Grown(f[0], f[L]) /\ Len(f[0].bytes) + L <= Len(f[L].bytes)
  <2>1. 0 \in 0 .. L /\ L - 0 = L
    BY <1>1
  <2>2. Len(f[0].bytes) + (L - 0) <= Len(f[L].bytes)
    BY <1>6, <2>1
  <2> QED
    BY <1>6, <2>1, <2>2
<1> QED
  BY <1>p, <1>14, <1>15 DEF well, g, r

\* A container behind its type: the number of elements, and then each of them.
PutContents(p, e, inner) ==
  LET v == PutUnchecked(p, BigEnd(2, Len(e.val)))
  IN IF v.ok /\ ~v.lost THEN PutItems(v, e, inner) ELSE v

LEMMA ContentsGrow ==
  ASSUME NEW K, NEW S, NEW e \in ExtraIn(K, S), e.type \in Keyed \cup Unkeyed,
         KeysNamed(S), NEW put, InnerGrows(S, put), NEW p, Sound(p)
  PROVE  Grown(p, PutContents(p, e, put))
<1> DEFINE L == Len(e.val)
           l == BigEnd(2, L)
           v == PutUnchecked(p, l)
           w2 == PutContents(p, e, put)
<1>1. L \in Nat /\ l \in Seq(Byte) /\ Len(l) \in {1, 2}
  <2>1. L \in Nat
    BY ContentsAre
  <2>2. L \in Int /\ 2 \in {1, 2, 4, 8}
    BY <2>1
  <2> HIDE DEF L
  <2>3. l \in Seq(Byte) /\ Len(l) = 2
    BY <2>2, BigEndIs
  <2> QED
    BY <2>1, <2>3
<1> HIDE DEF l
<1>2. Grown(p, v) /\ Sound(v)
  BY <1>1, PutUncheckedGrows DEF Grown
<1>3. w2 = IF v.ok /\ ~v.lost THEN PutItems(v, e, put) ELSE v
  BY DEF PutContents, l
<1> HIDE DEF v, w2
<1>4. CASE v.ok /\ ~v.lost
  <2>1. PICK f : ItemsPut(f, v, e, put)
    BY <1>1, PutItemsIs
  <2>2. /\ f[0] = v /\ w2 = f[L]
        /\ \A k \in 1 .. L : f[k] = Called(put, KeyPut(f[k - 1], e, k), e.val[k])
    BY <1>3, <1>4, <2>1 DEF ItemsPut
  <2>3. Stepwise(f, L)
    BY <2>2, ItemsGrow
  <2>4. Sound(f[0])
    BY <1>2, <2>2
  <2>5. L \in 0 .. L
    BY <1>1
  <2> HIDE DEF L
  <2>6. Grown(f[0], f[L])
    BY <1>1, <2>3, <2>4, <2>5, GrownByOne
  <2> QED
    BY <1>2, <2>2, <2>6, GrownIsTransitive DEF w2
<1>5. CASE ~(v.ok /\ ~v.lost)
  BY <1>2, <1>3, <1>5 DEF w2
<1> QED
  BY <1>4, <1>5

\* What is read behind a type.
LEMMA TakeParamValIs ==
  ASSUME NEW r, NEW type, NEW inner
  PROVE  /\ type \in Keyed \cup Unkeyed =>
              TakeParamVal(r, type, inner)
                = LET n == TakeLen(r)
                  IN IF n.ok THEN TakeItems(n, n.val, type \in Keyed, inner) ELSE n
         /\ type = PREFIX_TYPE_STRINGG =>
              TakeParamVal(r, type, inner)
                = LET v == TakeString(r)
                  IN IF v.ok /\ v.val = Null THEN Failed(v) ELSE v
         /\ type \in Scalars \cup {PREFIX_TYPE_NULL, PREFIX_TYPE_FLOAT,
                               PREFIX_TYPE_DOUBLE, PREFIX_TYPE_BYTEBUFFER}
              => TakeParamVal(r, type, inner) = TakePlain(r, type)
<1>1. /\ type \in Keyed \cup Unkeyed =>
           /\ type # PREFIX_TYPE_STRINGG
           /\ type \notin Scalars \cup {PREFIX_TYPE_NULL, PREFIX_TYPE_FLOAT,
                                    PREFIX_TYPE_DOUBLE, PREFIX_TYPE_BYTEBUFFER}
      /\ PREFIX_TYPE_STRINGG \notin Scalars \cup {PREFIX_TYPE_NULL, PREFIX_TYPE_FLOAT,
                                    PREFIX_TYPE_DOUBLE, PREFIX_TYPE_BYTEBUFFER}
      /\ PREFIX_TYPE_STRINGG \notin Keyed \cup Unkeyed
  BY DEF Scalars, Keyed, Unkeyed, PREFIX_TYPE_NULL, PREFIX_TYPE_LIST,
         PREFIX_TYPE_SET, PREFIX_TYPE_MAP, PREFIX_TYPE_BYTE, PREFIX_TYPE_SHORTT,
         PREFIX_TYPE_INT, PREFIX_TYPE_LONG, PREFIX_TYPE_FLOAT, PREFIX_TYPE_DOUBLE,
         PREFIX_TYPE_CHAR, PREFIX_TYPE_BOOLEAN, PREFIX_TYPE_STRINGG,
         PREFIX_TYPE_BYTEBUFFER, PREFIX_TYPE_PROXY
<1>2. CASE type \in Keyed \cup Unkeyed
  BY <1>1, <1>2 DEF TakeParamVal
<1>3. CASE type = PREFIX_TYPE_STRINGG
  BY <1>1, <1>3 DEF TakeParamVal
<1>4. CASE type \in Scalars \cup {PREFIX_TYPE_NULL, PREFIX_TYPE_FLOAT,
                               PREFIX_TYPE_DOUBLE, PREFIX_TYPE_BYTEBUFFER}
  BY <1>1, <1>4 DEF TakeParamVal
<1> QED
  BY <1>2, <1>3, <1>4

LEMMA ContentsAreRead ==
  ASSUME NEW K, NEW S, NEW e \in ExtraIn(K, S), e.type \in Keyed \cup Unkeyed,
         KeysNamed(S), NEW put, NEW arrived, NEW long, NEW c, NEW N,
         InnerGrows(S, put), InnerBack(S, put, arrived, long, c, N),
         NEW p, Sound(p), p.lost => Len(p.bytes) + 2 > p.cap,
         NEW s, Held(PutContents(p, e, put), s),
         NEW n \in 0 .. N, Len(s) - Len(p.bytes) <= n, NEW u
  PROVE  Back(s, PutContents(p, e, put), TakeParamVal(After(s, p, u), e.type, c[n]),
              Contents(e, arrived),
              ~PutContents(p, e, put).lost /\ \A i \in 1 .. Len(e.val) : ~long[e.val[i]])
<1> DEFINE L == Len(e.val)
           l == BigEnd(2, L)
           v == PutUnchecked(p, l)
           w2 == PutContents(p, e, put)
           a == After(s, p, u)
           b == After(s, v, L)
           r == TakeParamVal(a, e.type, c[n])
           keyed == e.type \in Keyed
           well == ~w2.lost /\ \A i \in 1 .. L : ~long[e.val[i]]
<1>1. L \in Nat /\ l \in Seq(Byte) /\ Len(l) = 2 /\ Len(l) \in {1, 2} /\ Len(l) > 0
  <2>1. L \in Nat
    BY ContentsAre
  <2>2. L \in Int /\ 2 \in {1, 2, 4, 8}
    BY <2>1
  <2> HIDE DEF L
  <2>3. l \in Seq(Byte) /\ Len(l) = 2
    BY <2>2, BigEndIs
  <2> HIDE DEF l
  <2> QED
    BY <2>1, <2>3
<1>2. Grown(p, v) /\ Sound(v) /\ v.lost \in BOOLEAN
  <2> HIDE DEF l
  <2>1. Grown(p, v) /\ Sound(v)
    BY <1>1, PutUncheckedGrows DEF Grown
  <2> HIDE DEF v
  <2> QED
    BY <2>1 DEF Sound, WriterState
<1>3. w2 = IF v.ok /\ ~v.lost THEN PutItems(v, e, put) ELSE v
  BY DEF PutContents
<1>h. Held(w2, s) /\ w2.ok
  BY DEF Held
<1>4. r = LET m == TakeLen(a) IN IF m.ok THEN TakeItems(m, m.val, keyed, c[n]) ELSE m
  <2> HIDE DEF a, r
  <2> QED
    BY TakeParamValIs DEF r
<1>5. CASE v.ok /\ ~v.lost
  <2>2. w2 = PutItems(v, e, put)
    BY <1>3, <1>5
  <2> DEFINE W == PutItems(v, e, put)
             items == TakeItems(After(s, v, L), L, keyed, c[n])
             fine == ~W.lost /\ \A i \in 1 .. L : ~long[e.val[i]]
  <2>5. Held(v, s)
    <3>1. Held(W, s)
      BY <1>h, <2>2
    <3> HIDE DEF v
    <3>2. PICK f : ItemsPut(f, v, e, put)
      BY <1>1, PutItemsIs
    <3>3. /\ f[0] = v /\ W = f[L]
          /\ \A k \in 1 .. L : f[k] = Called(put, KeyPut(f[k - 1], e, k), e.val[k])
      BY <3>2 DEF ItemsPut
    <3>4. Stepwise(f, L) /\ Sound(f[0]) /\ Held(f[L], s) /\ 0 \in 0 .. L
      BY <1>1, <1>2, <3>1, <3>3, ItemsGrow
    <3> HIDE DEF L
    <3>5. Held(f[0], s)
      BY <1>1, <3>4, GrownToLast
    <3> QED
      BY <3>3, <3>5
  <2>12. Len(s) - Len(v.bytes) <= n
    <3>1. Len(p.bytes) \in Nat /\ Len(v.bytes) \in Nat /\ Len(p.bytes) <= Len(v.bytes)
      <4> HIDE DEF v
      <4> QED
        BY <1>2, <2>5, HeldBefore
    <3>2. Len(s) \in Nat
      BY <2>5 DEF Held
    <3> DEFINE x == Len(p.bytes)
               y == Len(v.bytes)
               z == Len(s)
    <3>3. x \in Nat /\ y \in Nat /\ x <= y /\ z \in Nat /\ z - x <= n /\ n \in Int
      BY <3>1, <3>2
    <3> HIDE DEF x, y, z
    <3>4. z - y <= n
      BY <3>3
    <3> QED
      BY <3>4 DEF y, z
  <2>6. /\ Len(v.bytes) + L <= Len(W.bytes) /\ Grown(v, W)
        /\ Whole(s, W, items, Contents(e, arrived), fine)
    <3>1. Held(W, s)
      BY <1>h, <2>2
    <3> HIDE DEF v
    <3> QED
      BY <1>2, <2>12, <3>1, ItemsAreRead
  <2> HIDE DEF v, W, w2, l, r, well, b, items, fine
  <2>7. L \in Between(0, 65535)
    <3>1. Len(W.bytes) <= W.cap /\ W.cap < 32768 /\ W.cap \in Nat /\ Len(W.bytes) \in Nat
      BY <2>6 DEF Grown, Sound, WriterState
    <3>2. Len(v.bytes) \in Nat
      BY <1>2 DEF Sound, WriterState
    <3> DEFINE x == Len(v.bytes)
               y == Len(W.bytes)
               z == W.cap
    <3> HIDE DEF L
    <3>3. x \in Nat /\ y \in Nat /\ x + L <= y /\ y <= z /\ z < 32768 /\ z \in Nat
      BY <2>6, <3>1, <3>2
    <3> HIDE DEF x, y, z
    <3>4. L \in Int /\ 0 <= L /\ L <= 65535
      BY <1>1, <3>3
    <3> QED
      BY <3>4 DEF Between
  <2>8. Carried(p, v, l, s)
    <3>1. IF Len(p.bytes) + Len(l) <= p.cap THEN Carried(p, v, l, s) ELSE v.lost
      <4>1. Held(PutUnchecked(p, l), s)
        BY <2>5 DEF v
      <4> QED
        BY <1>1, <4>1, UncheckedIsCarried DEF v
    <3> QED
      BY <1>5, <3>1
  <2>9. Gives(TakeLen(a), b)
    <3> HIDE DEF L
    <3>1. Carried(p, v, BigEnd(2, L), s)
      BY <2>8 DEF l
    <3>2. Gives(TakeLen(After(s, p, u)), After(s, v, L))
      BY <2>7, <3>1, LenIsRead
    <3> QED
      BY <3>2 DEF b
  <2>10. b.ok /\ b.val = L
    BY AfterIs DEF b
  <2>11. r = TakeItems(b, L, keyed, c[n])
    <3> HIDE DEF a, L
    <3> QED
      BY <1>4, <2>9, <2>10 DEF Gives
  <2>13. /\ r = After(s, w2, r.val)
         /\ well => r.val = Contents(e, arrived)
    <3>1. w2 = W /\ r = items
      BY <2>2, <2>11 DEF b, W, items
    <3>2. fine = well
      BY <3>1 DEF fine, well
    <3> QED
      BY <2>6, <3>1, <3>2 DEF Whole
  <2>14. Reached(s, w2, r)
    BY <2>13, AfterIsReached
  <2>15. Back(s, w2, r, Contents(e, arrived), well)
    BY <2>13, <2>14 DEF Back, Gives
  <2> QED
    BY <2>15 DEF w2, r, well
<1>6. CASE ~(v.ok /\ ~v.lost)
  <2>1. w2 = v /\ v.lost /\ Held(v, s)
    BY <1>3, <1>6, <1>h
  <2>2. v.bytes = p.bytes /\ Len(s) < Len(p.bytes) + 2
    <3>1. IF Len(p.bytes) + Len(l) <= p.cap THEN Carried(p, v, l, s)
          ELSE v.bytes = p.bytes /\ v.lost /\ Len(s) < Len(p.bytes) + Len(l)
      <4> HIDE DEF l
      <4> QED
        BY <1>1, <2>1, UncheckedIsCarried
    <3>2. ASSUME Len(p.bytes) + Len(l) <= p.cap PROVE FALSE
      <4>1. v.lost = p.lost
        BY <3>1, <3>2 DEF Carried, Added
      <4>2. Len(p.bytes) + 2 > p.cap /\ Len(p.bytes) \in Nat /\ p.cap \in Nat
        BY <2>1, <4>1 DEF Sound, WriterState
      <4>3. Len(p.bytes) + 2 <= p.cap
        BY <1>1, <3>2
      <4> QED
        BY <4>2, <4>3
    <3> QED
      BY <1>1, <3>1, <3>2
  <2>3. /\ s \in Seq(Byte) /\ Len(p.bytes) \in Nat /\ Len(p.bytes) <= Len(s) /\ 2 \in Nat
    <3> HIDE DEF v
    <3>1. Held(p, s) /\ Len(p.bytes) \in Nat /\ Len(p.bytes) <= Len(v.bytes)
          /\ Len(v.bytes) <= Len(s) /\ Len(v.bytes) \in Nat
      BY <1>2, <2>1, HeldBefore
    <3>2. s \in Seq(Byte)
      BY <3>1 DEF Held
    <3> QED
      BY <2>2, <3>1, <3>2
  <2>4. Gives(TakeLen(a), Failed(a))
    BY <2>2, <2>3, TooFewAreLeft
  <2>5. Reached(s, p, Failed(a)) /\ ~Failed(a).ok
    BY AfterIsReached
  <2> HIDE DEF a, v, r
  <2>6. r = Failed(a)
    BY <1>4, <2>4, <2>5 DEF Gives
  <2>7. Reached(s, w2, r)
    BY <2>1, <2>2, <2>5, <2>6 DEF Reached
  <2>8. w2.lost
    BY <2>1
  <2> HIDE DEF w2
  <2>9. Back(s, w2, r, Contents(e, arrived), well)
    BY <2>7, <2>8 DEF Back
  <2> QED
    BY <2>9 DEF w2, r, a
<1> QED
  BY <1>5, <1>6

\* What comes behind the byte with the type.
LEMMA TypeGrows ==
  ASSUME NEW w, Sound(w), NEW b \in Byte, NEW w2, Grown(Put(w, <<b>>), w2)
  PROVE  Grown(w, w2) /\ (w2.ok => Len(w2.bytes) > Len(w.bytes))
<1> DEFINE t == <<b>>
           p == Put(w, t)
<1>1. t \in Seq(Byte) /\ Len(t) = 1
  BY ByteAlone
<1> HIDE DEF t
<1>2. Grown(w, p) /\ (p.ok => Added(w, p, t))
  BY <1>1, PutGrows
<1>3. Grown(p, w2)
  BY DEF t
<1> HIDE DEF p
<1>4. Grown(w, w2)
  BY <1>2, <1>3, GrownIsTransitive
<1>5. ASSUME w2.ok PROVE Len(w2.bytes) > Len(w.bytes)
  <2>1. p.ok /\ Starts(w2.bytes, p.bytes)
    BY <1>3, <1>5 DEF Grown
  <2>2. Len(p.bytes) = Len(w.bytes) + Len(t)
    BY <1>2, <2>1 DEF Added
  <2>3. Len(p.bytes) <= Len(w2.bytes)
    BY <2>1 DEF Starts
  <2>4. w.bytes \in Seq(Byte) /\ p.bytes \in Seq(Byte) /\ w2.bytes \in Seq(Byte)
    BY <1>2, <1>4 DEF Grown, Sound, WriterState
  <2>5. Len(w.bytes) \in Nat /\ Len(p.bytes) \in Nat /\ Len(w2.bytes) \in Nat
    BY <2>4
  <2> QED
    BY <1>1, <2>2, <2>3, <2>5
<1> QED
  BY <1>4, <1>5

LEMMA ParamFrom ==
  ASSUME NEW w, Sound(w), NEW b \in Byte, NEW s, Held(Put(w, <<b>>), s),
         NEW inner, NEW x, NEW w2, NEW well, NEW v,
         Back(s, w2, TakeParamVal(After(s, Put(w, <<b>>), <<b>>), b, inner), x, well)
  PROVE  Back(s, w2, TakeParam(After(s, w, v), inner), Extra(Null, b, x), well)
<1> DEFINE t == <<b>>
           p == Put(w, t)
           a == After(s, w, v)
           c == After(s, p, t)
           y == TakeParamVal(c, b, inner)
           r == TakeParam(a, inner)
           z == Extra(Null, b, x)
<1>1. t \in Seq(Byte) /\ Len(t) = 1 /\ Len(t) > 0
  BY ByteAlone
<1>2. Carried(w, p, t, s)
  <2>1. Held(p, s)
    OBVIOUS
  <2> HIDE DEF t
  <2> QED
    BY <1>1, <2>1, PutIsCarried
<1>3. Gives(Unasked(a, Take(a, 1)), c) /\ c.val[1] = b
  <2> HIDE DEF p
  <2> QED
    BY <1>2, ByteIsRead
<1>4. c.ok
  BY AfterIs
<1>5. Back(s, w2, y, x, well)
  OBVIOUS
<1> HIDE DEF a, c
<1>6. r = IF ~y.ok THEN y ELSE WithVal(y, Extra(Null, b, y.val))
  BY <1>3, <1>4 DEF TakeParam, WithExtra, Gives
<1> HIDE DEF y, r, z
<1>7. Reached(s, w2, y) /\ (well => Gives(y, After(s, w2, x)))
  BY <1>5 DEF Back
<1>8. Reached(s, w2, r)
  BY <1>6, <1>7 DEF Reached, WithVal, Reading
<1>9. ASSUME well PROVE Gives(r, After(s, w2, z))
  <2>1. y = After(s, w2, x) /\ y.ok /\ y.val = x
    BY <1>7, <1>9, AfterIs DEF Gives
  <2>2. WithVal(y, z) = After(s, w2, z)
    BY <2>1, AfterWithVal
  <2> QED
    BY <1>6, <2>1, <2>2 DEF Gives, z
<1>10. Back(s, w2, r, z, well)
  BY <1>8, <1>9 DEF Back
<1> QED
  BY <1>10 DEF r, a, z

\* How PutParam goes on.
LEMMA PutParamIs ==
  ASSUME NEW w, NEW e, NEW inner
  PROVE  /\ NullPlain(e) \/ NullList(e) => PutParam(w, e, inner) = Put(w, <<PREFIX_TYPE_NULL>>)
         /\ ~NullPlain(e) /\ ~NullList(e) /\ e.type \in Keyed \cup Unkeyed
              => PutParam(w, e, inner) = PutContents(Put(w, <<e.type>>), e, inner)
         /\ ~NullPlain(e) /\ ~NullList(e) /\ e.type \notin Keyed \cup Unkeyed
              => PutParam(w, e, inner) = PutPlain(Put(w, <<e.type>>), e)
BY DEF PutParam, PutContainer, PutContents

\* An element, and whether it has too long a string, by its type.
LEMMA ValueArrivedIs ==
  ASSUME NEW e, NEW arrived, NEW long
  PROVE  /\ NullPlain(e) \/ NullList(e)
              => Under(Null, ValueArrived(e, arrived)) = Extra(Null, PREFIX_TYPE_NULL, Null)
         /\ ~NullPlain(e) /\ ~NullList(e) /\ e.type \in Keyed \cup Unkeyed
              => /\ Under(Null, ValueArrived(e, arrived))
                      = Extra(Null, e.type, Contents(e, arrived))
                 /\ LongIn(e, long) <=> \E i \in 1 .. Len(e.val) : long[e.val[i]]
         /\ ~NullPlain(e) /\ ~NullList(e) /\ e.type \notin Keyed \cup Unkeyed
              => /\ Under(Null, ValueArrived(e, arrived)) = Extra(Null, e.type, PlainVal(e))
                 /\ LongIn(e, long) <=> TooLong(e)
<1>1. /\ NullPlain(e) \/ NullList(e)
           => ValueArrived(e, arrived) = Extra(e.key, PREFIX_TYPE_NULL, Null)
      /\ ~NullPlain(e) /\ ~NullList(e) /\ e.type \in Keyed \cup Unkeyed
           => ValueArrived(e, arrived) = Extra(e.key, e.type, Contents(e, arrived))
      /\ ~NullPlain(e) /\ ~NullList(e) /\ e.type \notin Keyed \cup Unkeyed
           => ValueArrived(e, arrived) = Extra(e.key, e.type, PlainVal(e))
  BY DEF ValueArrived, Contents
<1>2. e.type \in Keyed \cup Unkeyed
        => (LongIn(e, long) <=> \E i \in 1 .. Len(e.val) : long[e.val[i]])
  BY TypesDiffer DEF LongIn
<1>3. e.type \notin Keyed \cup Unkeyed => (LongIn(e, long) <=> TooLong(e))
  BY TypesDiffer DEF LongIn, TooLong
<1>4. ASSUME NEW k, NEW t, NEW v PROVE Under(Null, Extra(k, t, v)) = Extra(Null, t, v)
  BY DEF Under, Extra
<1> QED
  BY <1>1, <1>2, <1>3, <1>4

LEMMA ParamGrows ==
  ASSUME NEW K, NEW S, NEW e \in ExtraIn(K, S), KeysNamed(S), NEW put, InnerGrows(S, put),
         NEW w, Sound(w)
  PROVE  /\ Grown(w, PutParam(w, e, put))
         /\ PutParam(w, e, put).ok => Len(PutParam(w, e, put).bytes) > Len(w.bytes)
<1> DEFINE w2 == PutParam(w, e, put)
           b == IF NullPlain(e) \/ NullList(e) THEN PREFIX_TYPE_NULL ELSE e.type
           p == Put(w, <<b>>)
<1>1. b \in Byte
  BY TypesDiffer, ElementIs
<1> HIDE DEF b
<1>2. Grown(w, p) /\ Sound(p)
  <2>1. <<b>> \in Seq(Byte)
    BY <1>1, ByteAlone
  <2> QED
    BY <2>1, PutGrows DEF Grown
<1>3. Grown(p, w2)
  <2>1. CASE NullPlain(e) \/ NullList(e)
    <3>1. w2 = p
      BY <2>1, PutParamIs DEF b
    <3> HIDE DEF p, w2
    <3> QED
      BY <1>2, <3>1, GrownIsReflexive
  <2>2. CASE ~NullPlain(e) /\ ~NullList(e) /\ e.type \in Keyed \cup Unkeyed
    <3>1. w2 = PutContents(p, e, put)
      BY <2>2, PutParamIs DEF b
    <3> HIDE DEF p, w2
    <3> QED
      BY <1>2, <2>2, <3>1, ContentsGrow
  <2>3. CASE ~NullPlain(e) /\ ~NullList(e) /\ e.type \notin Keyed \cup Unkeyed
    <3>1. w2 = PutPlain(p, e)
      BY <2>3, PutParamIs DEF b
    <3> HIDE DEF p, w2
    <3> QED
      BY <1>2, <2>3, <3>1, PlainGrows
  <2> QED
    BY <2>1, <2>2, <2>3
<1> HIDE DEF w2
<1>4. Grown(w, w2) /\ (w2.ok => Len(w2.bytes) > Len(w.bytes))
  BY <1>1, <1>3, TypeGrows
<1> QED
  BY <1>4 DEF w2

\* A parameter, with all that is in it, is read as it was written.
LEMMA ParamIsRead ==
  ASSUME NEW K, NEW S, NEW e \in ExtraIn(K, S), KeysNamed(S), NEW put, NEW arrived,
         NEW long, NEW c, NEW N, InnerGrows(S, put), InnerBack(S, put, arrived, long, c, N),
         NEW w, Sound(w), NEW s, Held(PutParam(w, e, put), s),
         NEW n \in 0 .. N, Len(s) - Len(w.bytes) <= n + 1, NEW u
  PROVE  Back(s, PutParam(w, e, put), TakeParam(After(s, w, u), c[n]),
              Under(Null, ValueArrived(e, arrived)),
              ~PutParam(w, e, put).lost /\ ~LongIn(e, long))
<1> DEFINE w2 == PutParam(w, e, put)
           b == IF NullPlain(e) \/ NullList(e) THEN PREFIX_TYPE_NULL ELSE e.type
           t == <<b>>
           p == Put(w, t)
           a == After(s, p, t)
           y == TakeParamVal(a, b, c[n])
           x == IF NullPlain(e) \/ NullList(e) THEN Null
                ELSE IF e.type \in Keyed \cup Unkeyed THEN Contents(e, arrived)
                ELSE PlainVal(e)
           well == ~w2.lost /\ ~LongIn(e, long)
<1>1. b \in Byte
  BY TypesDiffer, ElementIs
<1> HIDE DEF b
<1>2. Sound(p) /\ Grown(w, p)
  <2>1. t \in Seq(Byte)
    BY <1>1, ByteAlone
  <2> HIDE DEF t
  <2> QED
    BY <2>1, PutGrows DEF Grown
<1>h. Held(w2, s)
  OBVIOUS
<1>3. Under(Null, ValueArrived(e, arrived)) = Extra(Null, b, x)
  BY ValueArrivedIs DEF b
<1> HIDE DEF t
<1>4. Held(p, s) /\ Back(s, w2, y, x, well)
  <2>1. CASE NullPlain(e) \/ NullList(e)
    <3>1. w2 = p /\ b = PREFIX_TYPE_NULL /\ x = Null
      BY <2>1, PutParamIs DEF b, t
    <3> HIDE DEF p, w2, a, x
    <3>2. y = TakePlain(a, b)
      BY <3>1, TakeParamValIs
    <3>3. TakePlain(a, b) = WithVal(a, Null)
      BY <3>1, TakePlainIs, TypesDiffer
    <3>4. WithVal(a, Null) = After(s, p, Null)
      BY AfterWithVal DEF a
    <3>5. y = After(s, p, Null)
      BY <3>2, <3>3, <3>4
    <3>6. Reached(s, w2, y)
      BY <3>1, <3>5, AfterIsReached
    <3> QED
      BY <1>h, <3>1, <3>5, <3>6 DEF Back, Gives
  <2>2. CASE ~NullPlain(e) /\ ~NullList(e) /\ e.type \in Keyed \cup Unkeyed
    <3>1. b = e.type /\ x = Contents(e, arrived)
      BY <2>2 DEF b
    <3>2. w2 = PutContents(p, e, put)
      BY <2>2, <3>1, PutParamIs DEF t
    <3>3. Grown(p, w2)
      <4> HIDE DEF p, w2
      <4> QED
        BY <1>2, <2>2, <3>2, ContentsGrow
    <3>4. Held(p, s) /\ Len(p.bytes) \in Nat
      <4> HIDE DEF p, w2
      <4> QED
        BY <1>h, <3>3, HeldBefore
    <3>5. Len(s) - Len(p.bytes) <= n
      <4>1. Len(p.bytes) > Len(w.bytes)
        <5>1. p.ok
          BY <3>4 DEF Held
        <5>2. Grown(Put(w, <<b>>), p)
          BY <1>2, GrownIsReflexive DEF t
        <5> HIDE DEF p
        <5> QED
          BY <1>1, <5>1, <5>2, TypeGrows
      <4>2. Len(w.bytes) \in Nat /\ Len(s) \in Nat
        BY <3>4 DEF Sound, WriterState, Held
      <4> DEFINE i == Len(w.bytes)
                 j == Len(p.bytes)
                 k == Len(s)
      <4>3. i \in Nat /\ j \in Nat /\ k \in Nat /\ n \in Int /\ j > i /\ k - i <= n + 1
        <5>1. n \in Int
          OBVIOUS
        <5>2. k - i <= n + 1
          OBVIOUS
        <5> HIDE DEF i, j, k
        <5> QED
          BY <3>4, <4>1, <4>2, <5>1, <5>2 DEF i, j, k
      <4> HIDE DEF i, j, k
      <4>4. k - j <= n
        BY <4>3
      <4> QED
        BY <4>4 DEF k, j
    <3>6. Sound(p) /\ (p.lost => Len(p.bytes) + 2 > p.cap)
      <4> HIDE DEF p
      <4> QED
        BY <1>2 DEF Sound
    <3> DEFINE fine == ~PutContents(p, e, put).lost /\ \A i \in 1 .. Len(e.val) : ~long[e.val[i]]
    <3>7. fine = well
      <4> HIDE DEF p, w2
      <4>1. LongIn(e, long) <=> \E i \in 1 .. Len(e.val) : long[e.val[i]]
        BY <2>2, ValueArrivedIs
      <4> QED
        BY <3>2, <4>1
    <3>8. Back(s, PutContents(p, e, put), TakeParamVal(After(s, p, t), e.type, c[n]),
               Contents(e, arrived), fine)
      <4>1. Held(PutContents(p, e, put), s)
        BY <1>h, <3>2
      <4> HIDE DEF p
      <4> QED
        BY <2>2, <3>5, <3>6, <4>1, ContentsAreRead
    <3> HIDE DEF fine, well, p, w2
    <3> QED
      BY <3>1, <3>2, <3>4, <3>7, <3>8
  <2>3. CASE ~NullPlain(e) /\ ~NullList(e) /\ e.type \notin Keyed \cup Unkeyed
    <3>1. b = e.type /\ x = PlainVal(e)
      BY <2>3 DEF b
    <3>2. w2 = PutPlain(p, e)
      BY <2>3, <3>1, PutParamIs DEF t
    <3>3. Grown(p, w2)
      <4> HIDE DEF p, w2
      <4> QED
        BY <1>2, <2>3, <3>2, PlainGrows
    <3>4. Held(p, s)
      <4> HIDE DEF p, w2
      <4> QED
        BY <1>h, <3>3, HeldBefore
    <3> DEFINE z == TakePlain(a, e.type)
    <3>5. well <=> ~w2.lost /\ ~TooLong(e)
      BY <2>3, ValueArrivedIs
    <3>6. Reached(s, w2, z) /\ (well => Gives(z, After(s, w2, PlainVal(e))))
      <4>1. Held(PutPlain(p, e), s)
        BY <1>h, <3>2
      <4> HIDE DEF p, w2, well
      <4> QED
        BY <1>2, <2>3, <3>2, <3>5, <4>1, PlainIsRead
    <3>7. y = z \/ (y = Failed(z) /\ e.type = PREFIX_TYPE_STRINGG /\ z.val = Null)
      <4> HIDE DEF a
      <4>1. CASE e.type = PREFIX_TYPE_STRINGG
        <5>1. y = LET v == TakeString(a) IN IF v.ok /\ v.val = Null THEN Failed(v) ELSE v
          BY <3>1, <4>1, TakeParamValIs
        <5>2. z = TakeString(a)
          BY <4>1, TakePlainIs
        <5> QED
          BY <4>1, <5>1, <5>2
      <4>2. CASE e.type # PREFIX_TYPE_STRINGG
        <5>1. e.type \in Scalars \cup {PREFIX_TYPE_NULL, PREFIX_TYPE_FLOAT,
                               PREFIX_TYPE_DOUBLE, PREFIX_TYPE_BYTEBUFFER}
          BY <2>3, <4>2, ElementIs
        <5> QED
          BY <3>1, <5>1, TakeParamValIs
      <4> QED
        BY <4>1, <4>2
    <3> HIDE DEF well, w2, y, z
    <3>8. Reached(s, w2, y)
      BY <3>6, <3>7 DEF Reached, Failed, Reading
    <3>9. ASSUME well PROVE Gives(y, After(s, w2, x))
      <4>1. z = After(s, w2, PlainVal(e)) /\ z.val = PlainVal(e)
        BY <3>6, <3>9, AfterIs DEF Gives
      <4>2. ASSUME e.type = PREFIX_TYPE_STRINGG PROVE PlainVal(e) # Null
        <5>1. e.val # Null
          BY <2>3, <4>2 DEF NullPlain
        <5> QED
          BY <4>2, <5>1 DEF PlainVal
      <4> QED
        BY <3>1, <3>7, <4>1, <4>2 DEF Gives
    <3> QED
      BY <3>4, <3>8, <3>9 DEF Back
  <2> QED
    BY <2>1, <2>2, <2>3
<1> HIDE DEF x, well, w2
<1>5. Back(s, w2, TakeParam(After(s, w, u), c[n]), Extra(Null, b, x), well)
  <2>1. Held(Put(w, <<b>>), s)
    BY <1>4 DEF p, t
  <2>2. Back(s, w2, TakeParamVal(After(s, Put(w, <<b>>), <<b>>), b, c[n]), x, well)
    BY <1>4 DEF p, t
  <2> QED
    BY <1>1, <2>1, <2>2, ParamFrom
<1> QED
  BY <1>3, <1>5 DEF w2, well

\* The elements of lists, by how deep there are lists in them.
LEMMA TreeIs ==
  \A d \in 0 .. Depth : Tree[d] = IF d = 0 THEN {} ELSE ExtraIn(Name \cup {Null}, Tree[d - 1])
<1> DEFINE Body(y, k) == IF k = 0 THEN {} ELSE ExtraIn(Name \cup {Null}, y)
           Turn(f, k) == Body(IF k = 0 THEN <<>> ELSE f[k - 1], k)
           S == {m \in Nat : \E f : f = [k \in 0 .. m |-> Turn(f, k)]}
<1> HIDE DEF Body
<1>0. Depth \in Nat
  BY DepthIsNat
<1>1. 0 \in S
  <2> DEFINE f == [k \in 0 .. 0 |-> Body(<<>>, k)]
  <2>1. \A k \in 0 .. 0 : k = 0
    OBVIOUS
  <2>2. f = [k \in 0 .. 0 |-> Turn(f, k)]
    BY <2>1
  <2> HIDE DEF f, Turn
  <2>3. \E h : h = [k \in 0 .. 0 |-> Turn(h, k)]
    BY <2>2
  <2> QED
    BY <2>3
<1>2. ASSUME NEW m \in S PROVE m + 1 \in S
  <2>1. PICK f : f = [k \in 0 .. m |-> Turn(f, k)]
    OBVIOUS
  <2> DEFINE g == [k \in 0 .. (m + 1) |-> IF k = m + 1 THEN Turn(f, m + 1) ELSE f[k]]
  <2>2. \A k \in 0 .. (m + 1) : k # m + 1 => k \in 0 .. m
    OBVIOUS
  <2>3. \A k \in 0 .. m : f[k] = Turn(f, k)
    BY <2>1
  <2>4. ASSUME NEW k \in 0 .. (m + 1), k # 0 PROVE g[k - 1] = f[k - 1]
    <3>1. k - 1 \in 0 .. (m + 1) /\ k - 1 # m + 1
      BY <2>4
    <3> QED
      BY <3>1
  <2>5. ASSUME NEW k \in 0 .. (m + 1) PROVE g[k] = Turn(g, k)
    <3>1. g[k] = Turn(f, k)
      BY <2>2, <2>3
    <3>2. CASE k = 0
      BY <3>1, <3>2
    <3>3. CASE k # 0
      <4>1. g[k - 1] = f[k - 1]
        BY <2>4, <3>3
      <4> HIDE DEF g
      <4> QED
        BY <3>1, <3>3, <4>1
    <3> QED
      BY <3>2, <3>3
  <2>6. g = [k \in 0 .. (m + 1) |-> Turn(g, k)]
    BY <2>5
  <2> HIDE DEF g, Turn
  <2>7. \E h : h = [k \in 0 .. (m + 1) |-> Turn(h, k)]
    BY <2>6
  <2> QED
    BY <2>7
<1>3. S = Nat
  <2>1. S \in SUBSET Nat
    OBVIOUS
  <2> HIDE DEF S
  <2> QED
    BY <1>1, <1>2, <2>1, EveryNumber
<1>4. \E h : h = [k \in 0 .. Depth |-> Turn(h, k)]
  <2>1. Depth \in S
    BY <1>0, <1>3
  <2> HIDE DEF Turn
  <2> QED
    BY <2>1
<1>5. Tree = [k \in 0 .. Depth |-> Turn(Tree, k)]
  <2> DEFINE Plain(h, d) == IF d = 0 THEN {} ELSE ExtraIn(Name \cup {Null}, h[d - 1])
  <2>1. ASSUME NEW h, NEW d PROVE Plain(h, d) = Turn(h, d)
    BY DEF Turn, Body
  <2> HIDE DEF Plain, Turn
  <2>2. \E h : h = [d \in 0 .. Depth |-> Plain(h, d)]
    BY <1>4, <2>1
  <2>3. \E h : h = [d \in 0 .. Depth |-> IF d = 0 THEN {} ELSE ExtraIn(Name \cup {Null}, h[d - 1])]
    BY <2>2 DEF Plain
  <2>4. Tree = [d \in 0 .. Depth |-> IF d = 0 THEN {} ELSE ExtraIn(Name \cup {Null}, Tree[d - 1])]
    BY <2>3 DEF Tree
  <2>5. Tree = [d \in 0 .. Depth |-> Plain(Tree, d)]
    BY <2>4 DEF Plain
  <2> QED
    BY <2>1, <2>5
<1>6. ASSUME NEW d \in 0 .. Depth
      PROVE  Tree[d] = IF d = 0 THEN {} ELSE ExtraIn(Name \cup {Null}, Tree[d - 1])
  <2>1. Tree[d] = Turn(Tree, d)
    <3> HIDE DEF Turn
    <3> QED
      BY <1>5
  <2> QED
    BY <2>1 DEF Turn, Body
<1> QED
  BY <1>6

\* What a call one deeper writes.
LEMMA PutInnerIs ==
  \A d \in 0 .. Depth : PutInner[d] = [x \in WriterState \X Tree[d] |-> PutParam(x[1], x[2], IF d = 0 THEN <<>> ELSE PutInner[d - 1])]
<1> DEFINE Body(y, k) == [x \in WriterState \X Tree[k] |-> PutParam(x[1], x[2], y)]
           Turn(f, k) == Body(IF k = 0 THEN <<>> ELSE f[k - 1], k)
           S == {m \in Nat : \E f : f = [k \in 0 .. m |-> Turn(f, k)]}
<1> HIDE DEF Body
<1>0. Depth \in Nat
  BY DepthIsNat
<1>1. 0 \in S
  <2> DEFINE f == [k \in 0 .. 0 |-> Body(<<>>, k)]
  <2>1. \A k \in 0 .. 0 : k = 0
    OBVIOUS
  <2>2. f = [k \in 0 .. 0 |-> Turn(f, k)]
    BY <2>1
  <2> HIDE DEF f, Turn
  <2>3. \E h : h = [k \in 0 .. 0 |-> Turn(h, k)]
    BY <2>2
  <2> QED
    BY <2>3
<1>2. ASSUME NEW m \in S PROVE m + 1 \in S
  <2>1. PICK f : f = [k \in 0 .. m |-> Turn(f, k)]
    OBVIOUS
  <2> DEFINE g == [k \in 0 .. (m + 1) |-> IF k = m + 1 THEN Turn(f, m + 1) ELSE f[k]]
  <2>2. \A k \in 0 .. (m + 1) : k # m + 1 => k \in 0 .. m
    OBVIOUS
  <2>3. \A k \in 0 .. m : f[k] = Turn(f, k)
    BY <2>1
  <2>4. ASSUME NEW k \in 0 .. (m + 1), k # 0 PROVE g[k - 1] = f[k - 1]
    <3>1. k - 1 \in 0 .. (m + 1) /\ k - 1 # m + 1
      BY <2>4
    <3> QED
      BY <3>1
  <2>5. ASSUME NEW k \in 0 .. (m + 1) PROVE g[k] = Turn(g, k)
    <3>1. g[k] = Turn(f, k)
      BY <2>2, <2>3
    <3>2. CASE k = 0
      BY <3>1, <3>2
    <3>3. CASE k # 0
      <4>1. g[k - 1] = f[k - 1]
        BY <2>4, <3>3
      <4> HIDE DEF g
      <4> QED
        BY <3>1, <3>3, <4>1
    <3> QED
      BY <3>2, <3>3
  <2>6. g = [k \in 0 .. (m + 1) |-> Turn(g, k)]
    BY <2>5
  <2> HIDE DEF g, Turn
  <2>7. \E h : h = [k \in 0 .. (m + 1) |-> Turn(h, k)]
    BY <2>6
  <2> QED
    BY <2>7
<1>3. S = Nat
  <2>1. S \in SUBSET Nat
    OBVIOUS
  <2> HIDE DEF S
  <2> QED
    BY <1>1, <1>2, <2>1, EveryNumber
<1>4. \E h : h = [k \in 0 .. Depth |-> Turn(h, k)]
  <2>1. Depth \in S
    BY <1>0, <1>3
  <2> HIDE DEF Turn
  <2> QED
    BY <2>1
<1>5. PutInner = [k \in 0 .. Depth |-> Turn(PutInner, k)]
  <2>1. \E h : h = [d \in 0 .. Depth |-> [x \in WriterState \X Tree[d] |-> PutParam(x[1], x[2], IF d = 0 THEN <<>> ELSE h[d - 1])]]
    BY <1>4 DEF Turn, Body
  <2>2. PutInner = [d \in 0 .. Depth |-> [x \in WriterState \X Tree[d] |-> PutParam(x[1], x[2], IF d = 0 THEN <<>> ELSE PutInner[d - 1])]]
    BY <2>1 DEF PutInner
  <2> QED
    BY <2>2 DEF Turn, Body
<1> QED
  BY <1>5 DEF Turn, Body

\* What an element in a list arrives as.
LEMMA InnerArrivedIs ==
  \A d \in 0 .. Depth : InnerArrived[d] = [e \in Tree[d] |-> ValueArrived(e, IF d = 0 THEN <<>> ELSE InnerArrived[d - 1])]
<1> DEFINE Body(y, k) == [e \in Tree[k] |-> ValueArrived(e, y)]
           Turn(f, k) == Body(IF k = 0 THEN <<>> ELSE f[k - 1], k)
           S == {m \in Nat : \E f : f = [k \in 0 .. m |-> Turn(f, k)]}
<1> HIDE DEF Body
<1>0. Depth \in Nat
  BY DepthIsNat
<1>1. 0 \in S
  <2> DEFINE f == [k \in 0 .. 0 |-> Body(<<>>, k)]
  <2>1. \A k \in 0 .. 0 : k = 0
    OBVIOUS
  <2>2. f = [k \in 0 .. 0 |-> Turn(f, k)]
    BY <2>1
  <2> HIDE DEF f, Turn
  <2>3. \E h : h = [k \in 0 .. 0 |-> Turn(h, k)]
    BY <2>2
  <2> QED
    BY <2>3
<1>2. ASSUME NEW m \in S PROVE m + 1 \in S
  <2>1. PICK f : f = [k \in 0 .. m |-> Turn(f, k)]
    OBVIOUS
  <2> DEFINE g == [k \in 0 .. (m + 1) |-> IF k = m + 1 THEN Turn(f, m + 1) ELSE f[k]]
  <2>2. \A k \in 0 .. (m + 1) : k # m + 1 => k \in 0 .. m
    OBVIOUS
  <2>3. \A k \in 0 .. m : f[k] = Turn(f, k)
    BY <2>1
  <2>4. ASSUME NEW k \in 0 .. (m + 1), k # 0 PROVE g[k - 1] = f[k - 1]
    <3>1. k - 1 \in 0 .. (m + 1) /\ k - 1 # m + 1
      BY <2>4
    <3> QED
      BY <3>1
  <2>5. ASSUME NEW k \in 0 .. (m + 1) PROVE g[k] = Turn(g, k)
    <3>1. g[k] = Turn(f, k)
      BY <2>2, <2>3
    <3>2. CASE k = 0
      BY <3>1, <3>2
    <3>3. CASE k # 0
      <4>1. g[k - 1] = f[k - 1]
        BY <2>4, <3>3
      <4> HIDE DEF g
      <4> QED
        BY <3>1, <3>3, <4>1
    <3> QED
      BY <3>2, <3>3
  <2>6. g = [k \in 0 .. (m + 1) |-> Turn(g, k)]
    BY <2>5
  <2> HIDE DEF g, Turn
  <2>7. \E h : h = [k \in 0 .. (m + 1) |-> Turn(h, k)]
    BY <2>6
  <2> QED
    BY <2>7
<1>3. S = Nat
  <2>1. S \in SUBSET Nat
    OBVIOUS
  <2> HIDE DEF S
  <2> QED
    BY <1>1, <1>2, <2>1, EveryNumber
<1>4. \E h : h = [k \in 0 .. Depth |-> Turn(h, k)]
  <2>1. Depth \in S
    BY <1>0, <1>3
  <2> HIDE DEF Turn
  <2> QED
    BY <2>1
<1>5. InnerArrived = [k \in 0 .. Depth |-> Turn(InnerArrived, k)]
  <2>1. \E h : h = [d \in 0 .. Depth |-> [e \in Tree[d] |-> ValueArrived(e, IF d = 0 THEN <<>> ELSE h[d - 1])]]
    BY <1>4 DEF Turn, Body
  <2>2. InnerArrived = [d \in 0 .. Depth |-> [e \in Tree[d] |-> ValueArrived(e, IF d = 0 THEN <<>> ELSE InnerArrived[d - 1])]]
    BY <2>1 DEF InnerArrived
  <2> QED
    BY <2>2 DEF Turn, Body
<1> QED
  BY <1>5 DEF Turn, Body

\* Whether there is too long a string in an element.
LEMMA InnerLongIs ==
  \A d \in 0 .. Depth : InnerLong[d] = [e \in Tree[d] |-> LongIn(e, IF d = 0 THEN <<>> ELSE InnerLong[d - 1])]
<1> DEFINE Body(y, k) == [e \in Tree[k] |-> LongIn(e, y)]
           Turn(f, k) == Body(IF k = 0 THEN <<>> ELSE f[k - 1], k)
           S == {m \in Nat : \E f : f = [k \in 0 .. m |-> Turn(f, k)]}
<1> HIDE DEF Body
<1>0. Depth \in Nat
  BY DepthIsNat
<1>1. 0 \in S
  <2> DEFINE f == [k \in 0 .. 0 |-> Body(<<>>, k)]
  <2>1. \A k \in 0 .. 0 : k = 0
    OBVIOUS
  <2>2. f = [k \in 0 .. 0 |-> Turn(f, k)]
    BY <2>1
  <2> HIDE DEF f, Turn
  <2>3. \E h : h = [k \in 0 .. 0 |-> Turn(h, k)]
    BY <2>2
  <2> QED
    BY <2>3
<1>2. ASSUME NEW m \in S PROVE m + 1 \in S
  <2>1. PICK f : f = [k \in 0 .. m |-> Turn(f, k)]
    OBVIOUS
  <2> DEFINE g == [k \in 0 .. (m + 1) |-> IF k = m + 1 THEN Turn(f, m + 1) ELSE f[k]]
  <2>2. \A k \in 0 .. (m + 1) : k # m + 1 => k \in 0 .. m
    OBVIOUS
  <2>3. \A k \in 0 .. m : f[k] = Turn(f, k)
    BY <2>1
  <2>4. ASSUME NEW k \in 0 .. (m + 1), k # 0 PROVE g[k - 1] = f[k - 1]
    <3>1. k - 1 \in 0 .. (m + 1) /\ k - 1 # m + 1
      BY <2>4
    <3> QED
      BY <3>1
  <2>5. ASSUME NEW k \in 0 .. (m + 1) PROVE g[k] = Turn(g, k)
    <3>1. g[k] = Turn(f, k)
      BY <2>2, <2>3
    <3>2. CASE k = 0
      BY <3>1, <3>2
    <3>3. CASE k # 0
      <4>1. g[k - 1] = f[k - 1]
        BY <2>4, <3>3
      <4> HIDE DEF g
      <4> QED
        BY <3>1, <3>3, <4>1
    <3> QED
      BY <3>2, <3>3
  <2>6. g = [k \in 0 .. (m + 1) |-> Turn(g, k)]
    BY <2>5
  <2> HIDE DEF g, Turn
  <2>7. \E h : h = [k \in 0 .. (m + 1) |-> Turn(h, k)]
    BY <2>6
  <2> QED
    BY <2>7
<1>3. S = Nat
  <2>1. S \in SUBSET Nat
    OBVIOUS
  <2> HIDE DEF S
  <2> QED
    BY <1>1, <1>2, <2>1, EveryNumber
<1>4. \E h : h = [k \in 0 .. Depth |-> Turn(h, k)]
  <2>1. Depth \in S
    BY <1>0, <1>3
  <2> HIDE DEF Turn
  <2> QED
    BY <2>1
<1>5. InnerLong = [k \in 0 .. Depth |-> Turn(InnerLong, k)]
  <2>1. \E h : h = [d \in 0 .. Depth |-> [e \in Tree[d] |-> LongIn(e, IF d = 0 THEN <<>> ELSE h[d - 1])]]
    BY <1>4 DEF Turn, Body
  <2>2. InnerLong = [d \in 0 .. Depth |-> [e \in Tree[d] |-> LongIn(e, IF d = 0 THEN <<>> ELSE InnerLong[d - 1])]]
    BY <2>1 DEF InnerLong
  <2> QED
    BY <2>2 DEF Turn, Body
<1> QED
  BY <1>5 DEF Turn, Body

\* What the calls of client_decodeExtra inside each other read.
ParamCalls(c, N) ==
  \A n \in 0 .. N : c[n] = [s \in Seq(Byte) |-> TakeParam(Reader(s), IF n = 0 THEN <<>> ELSE c[n - 1])]

LEMMA DecodeExtraIs ==
  ASSUME NEW r, Len(r.bytes) \in Nat
  PROVE  \E c : ParamCalls(c, Len(r.bytes)) /\ Gives(DecodeExtra(r), TakeInner(r, c[Len(r.bytes)]))
<1> DEFINE Body(y, k) == [s \in Seq(Byte) |-> TakeParam(Reader(s), y)]
           Turn(f, k) == Body(IF k = 0 THEN <<>> ELSE f[k - 1], k)
           S == {m \in Nat : \E f : f = [k \in 0 .. m |-> Turn(f, k)]}
<1> HIDE DEF Body
<1>0. Len(r.bytes) \in Nat
  BY DepthIsNat
<1>1. 0 \in S
  <2> DEFINE f == [k \in 0 .. 0 |-> Body(<<>>, k)]
  <2>1. \A k \in 0 .. 0 : k = 0
    OBVIOUS
  <2>2. f = [k \in 0 .. 0 |-> Turn(f, k)]
    BY <2>1
  <2> HIDE DEF f, Turn
  <2>3. \E h : h = [k \in 0 .. 0 |-> Turn(h, k)]
    BY <2>2
  <2> QED
    BY <2>3
<1>2. ASSUME NEW m \in S PROVE m + 1 \in S
  <2>1. PICK f : f = [k \in 0 .. m |-> Turn(f, k)]
    OBVIOUS
  <2> DEFINE g == [k \in 0 .. (m + 1) |-> IF k = m + 1 THEN Turn(f, m + 1) ELSE f[k]]
  <2>2. \A k \in 0 .. (m + 1) : k # m + 1 => k \in 0 .. m
    OBVIOUS
  <2>3. \A k \in 0 .. m : f[k] = Turn(f, k)
    BY <2>1
  <2>4. ASSUME NEW k \in 0 .. (m + 1), k # 0 PROVE g[k - 1] = f[k - 1]
    <3>1. k - 1 \in 0 .. (m + 1) /\ k - 1 # m + 1
      BY <2>4
    <3> QED
      BY <3>1
  <2>5. ASSUME NEW k \in 0 .. (m + 1) PROVE g[k] = Turn(g, k)
    <3>1. g[k] = Turn(f, k)
      BY <2>2, <2>3
    <3>2. CASE k = 0
      BY <3>1, <3>2
    <3>3. CASE k # 0
      <4>1. g[k - 1] = f[k - 1]
        BY <2>4, <3>3
      <4> HIDE DEF g
      <4> QED
        BY <3>1, <3>3, <4>1
    <3> QED
      BY <3>2, <3>3
  <2>6. g = [k \in 0 .. (m + 1) |-> Turn(g, k)]
    BY <2>5
  <2> HIDE DEF g, Turn
  <2>7. \E h : h = [k \in 0 .. (m + 1) |-> Turn(h, k)]
    BY <2>6
  <2> QED
    BY <2>7
<1>3. S = Nat
  <2>1. S \in SUBSET Nat
    OBVIOUS
  <2> HIDE DEF S
  <2> QED
    BY <1>1, <1>2, <2>1, EveryNumber
<1>4. \E h : h = [k \in 0 .. Len(r.bytes) |-> Turn(h, k)]
  <2>1. Len(r.bytes) \in S
    BY <1>0, <1>3
  <2> HIDE DEF Turn
  <2> QED
    BY <2>1
<1>5. PICK h : h = [k \in 0 .. Len(r.bytes) |-> Turn(h, k)] /\ DecodeExtra(r) = TakeInner(r, h[Len(r.bytes)])
  <2>1. \E h : h = [n \in 0 .. Len(r.bytes) |-> [s \in Seq(Byte) |-> TakeParam(Reader(s), IF n = 0 THEN <<>> ELSE h[n - 1])]]
    BY <1>4 DEF Turn, Body
  <2>2. \E h : h = [n \in 0 .. Len(r.bytes) |-> [s \in Seq(Byte) |-> TakeParam(Reader(s), IF n = 0 THEN <<>> ELSE h[n - 1])]] /\ DecodeExtra(r) = TakeInner(r, h[Len(r.bytes)])
    BY <2>1 DEF DecodeExtra
  <2> QED
    BY <2>2 DEF Turn, Body
<1>6. \A n \in 0 .. Len(r.bytes) : h[n] = Turn(h, n)
  <2> HIDE DEF Turn
  <2> QED
    BY <1>5
<1>7. ParamCalls(h, Len(r.bytes))
  BY <1>6 DEF Turn, Body, ParamCalls
<1> QED
  BY <1>5, <1>7 DEF Gives

LEMMA TreesNamed ==
  \A d \in 0 .. Depth : KeysNamed(Tree[d])
<1> TAKE d \in 0 .. Depth
<1>1. CASE d = 0
  <2>1. Tree[d] = {}
    BY <1>1, TreeIs
  <2> QED
    BY <2>1 DEF KeysNamed
<1>2. CASE d # 0
  <2>1. Tree[d] = ExtraIn(Name \cup {Null}, Tree[d - 1])
    BY <1>2, TreeIs
  <2>2. ASSUME NEW e \in ExtraIn(Name \cup {Null}, Tree[d - 1]) PROVE e.key \in Name \cup {Null}
    BY <2>2, ElementIs
  <2> QED
    BY <2>1, <2>2 DEF KeysNamed
<1> QED
  BY <1>1, <1>2

\* By what lemmas about the depth above a list: the one below it exists.
LEMMA OneLess ==
  ASSUME NEW d \in 0 .. Depth, d # 0
  PROVE  /\ d - 1 \in 0 .. Depth /\ Tree[d] = ExtraIn(Name \cup {Null}, Tree[d - 1])
         /\ PutInner[d] = [x \in WriterState \X Tree[d] |-> PutParam(x[1], x[2], PutInner[d - 1])]
         /\ InnerArrived[d] = [e \in Tree[d] |-> ValueArrived(e, InnerArrived[d - 1])]
         /\ InnerLong[d] = [e \in Tree[d] |-> LongIn(e, InnerLong[d - 1])]
<1>1. d - 1 \in 0 .. Depth
  BY DepthIsNat
<1>2. Tree[d] = ExtraIn(Name \cup {Null}, Tree[d - 1])
  BY TreeIs
<1>3. PutInner[d] = [x \in WriterState \X Tree[d] |->
                       PutParam(x[1], x[2], IF d = 0 THEN <<>> ELSE PutInner[d - 1])]
  BY PutInnerIs
<1>4. InnerArrived[d]
        = [e \in Tree[d] |-> ValueArrived(e, IF d = 0 THEN <<>> ELSE InnerArrived[d - 1])]
  BY InnerArrivedIs
<1>5. InnerLong[d] = [e \in Tree[d] |-> LongIn(e, IF d = 0 THEN <<>> ELSE InnerLong[d - 1])]
  BY InnerLongIs
<1>6. (IF d = 0 THEN <<>> ELSE PutInner[d - 1]) = PutInner[d - 1]
      /\ (IF d = 0 THEN <<>> ELSE InnerArrived[d - 1]) = InnerArrived[d - 1]
      /\ (IF d = 0 THEN <<>> ELSE InnerLong[d - 1]) = InnerLong[d - 1]
  OBVIOUS
<1> QED
  BY <1>1, <1>2, <1>3, <1>4, <1>5, <1>6

LEMMA DepthInduction ==
  ASSUME NEW P, P \in SUBSET Nat, 0 \in P, \A d \in 1 .. Depth : d - 1 \in P => d \in P
  PROVE  \A d \in 0 .. Depth : d \in P
<1> DEFINE T == {d \in Nat : d <= Depth => d \in P}
<1>1. 0 \in T
  OBVIOUS
<1>2. ASSUME NEW d \in T PROVE d + 1 \in T
  <2>1. SUFFICES ASSUME d + 1 <= Depth PROVE d + 1 \in P
    OBVIOUS
  <2>2. d \in Nat /\ d <= Depth /\ d + 1 \in 1 .. Depth /\ (d + 1) - 1 = d
    BY <2>1, DepthIsNat
  <2> QED
    BY <2>2
<1>3. T = Nat
  <2>1. T \in SUBSET Nat
    OBVIOUS
  <2> HIDE DEF T
  <2> QED
    BY <1>1, <1>2, <2>1, EveryNumber
<1>4. ASSUME NEW d \in 0 .. Depth PROVE d \in P
  <2>1. d \in T /\ d <= Depth
    BY <1>3
  <2> QED
    BY <2>1
<1> QED
  BY <1>4

LEMMA PutInnerGrows ==
  \A d \in 0 .. Depth : InnerGrows(Tree[d], PutInner[d])
<1> DEFINE P == {d \in 0 .. Depth : InnerGrows(Tree[d], PutInner[d])}
<1>1. 0 \in P
  <2>1. Tree[0] = {} /\ 0 \in 0 .. Depth
    BY TreeIs, DepthIsNat
  <2> QED
    BY <2>1 DEF InnerGrows
<1>2. ASSUME NEW d \in 1 .. Depth, d - 1 \in P PROVE d \in P
  <2>1. d \in 0 .. Depth /\ d # 0 /\ d - 1 \in 0 .. Depth
    BY <1>2, DepthIsNat
  <2>2. InnerGrows(Tree[d - 1], PutInner[d - 1]) /\ KeysNamed(Tree[d - 1])
    BY <1>2, <2>1, TreesNamed
  <2>3. /\ Tree[d] = ExtraIn(Name \cup {Null}, Tree[d - 1])
        /\ PutInner[d] = [x \in WriterState \X Tree[d] |-> PutParam(x[1], x[2], PutInner[d - 1])]
    BY <2>1, OneLess
  <2>4. ASSUME NEW e \in Tree[d], NEW w, Sound(w)
        PROVE  /\ Grown(w, Called(PutInner[d], w, e))
               /\ Called(PutInner[d], w, e).ok
                    => Len(Called(PutInner[d], w, e).bytes) > Len(w.bytes)
    <3> DEFINE put == PutInner[d - 1]
               S == Tree[d - 1]
               K == Name \cup {Null}
    <3>1. Called(PutInner[d], w, e) = PutParam(w, e, put)
      <4>1. w \in WriterState
        BY <2>4 DEF Sound
      <4>2. <<w, e>> \in WriterState \X Tree[d] /\ <<w, e>>[1] = w /\ <<w, e>>[2] = e
        BY <4>1
      <4> QED
        BY <2>3, <4>2 DEF Called
    <3>2. e \in ExtraIn(K, S) /\ KeysNamed(S) /\ InnerGrows(S, put)
      BY <2>2, <2>3
    <3> HIDE DEF put, S, K
    <3>3. /\ Grown(w, PutParam(w, e, put))
          /\ PutParam(w, e, put).ok => Len(PutParam(w, e, put).bytes) > Len(w.bytes)
      BY <2>4, <3>2, ParamGrows
    <3> QED
      BY <3>1, <3>3
  <2>5. InnerGrows(Tree[d], PutInner[d])
    BY <2>4 DEF InnerGrows
  <2> QED
    BY <2>1, <2>5
<1>3. P \in SUBSET Nat
  OBVIOUS
<1>4. \A d \in 0 .. Depth : d \in P
  <2> HIDE DEF P
  <2> QED
    BY <1>1, <1>2, <1>3, DepthInduction
<1> QED
  BY <1>4

LEMMA AfterIsReader ==
  ASSUME NEW s, NEW w
  PROVE  Reader(Rest(s, Len(w.bytes))) = After(s, w, Null)
BY DEF Reader, After, At

LEMMA InnerIsBack ==
  ASSUME NEW c, NEW N \in Nat, ParamCalls(c, N)
  PROVE  \A d \in 0 .. Depth :
           InnerBack(Tree[d], PutInner[d], InnerArrived[d], InnerLong[d], c, N)
<1> DEFINE Good(d) == InnerBack(Tree[d], PutInner[d], InnerArrived[d], InnerLong[d], c, N)
           P == {d \in 0 .. Depth : Good(d)}
<1>1. 0 \in P
  <2>1. Tree[0] = {} /\ 0 \in 0 .. Depth
    BY TreeIs, DepthIsNat
  <2> QED
    BY <2>1 DEF InnerBack
<1>2. ASSUME NEW d \in 1 .. Depth, d - 1 \in P PROVE d \in P
  <2>1. d \in 0 .. Depth /\ d # 0 /\ d - 1 \in 0 .. Depth
    BY <1>2, DepthIsNat
  <2> DEFINE put == PutInner[d - 1]
             S == Tree[d - 1]
             K == Name \cup {Null}
             arrived == InnerArrived[d - 1]
             long == InnerLong[d - 1]
  <2>2. InnerGrows(S, put) /\ KeysNamed(S) /\ InnerBack(S, put, arrived, long, c, N)
    BY <1>2, <2>1, TreesNamed, PutInnerGrows
  <2>3. /\ Tree[d] = ExtraIn(K, S)
        /\ PutInner[d] = [x \in WriterState \X Tree[d] |-> PutParam(x[1], x[2], put)]
        /\ InnerArrived[d] = [e \in Tree[d] |-> ValueArrived(e, arrived)]
        /\ InnerLong[d] = [e \in Tree[d] |-> LongIn(e, long)]
    BY <2>1, OneLess
  <2> HIDE DEF put, S, K, arrived, long
  <2>4. ASSUME NEW e \in Tree[d], NEW w, NEW s, NEW n \in 0 .. N, Sound(w),
               Held(Called(PutInner[d], w, e), s), Len(s) - Len(w.bytes) <= n
        PROVE  Back(s, Called(PutInner[d], w, e), c[n][Rest(s, Len(w.bytes))],
                    Under(Null, InnerArrived[d][e]),
                    ~Called(PutInner[d], w, e).lost /\ ~InnerLong[d][e])
    <3> DEFINE w2 == PutParam(w, e, put)
               r == c[n][Rest(s, Len(w.bytes))]
    <3>1. Called(PutInner[d], w, e) = w2
      <4>1. w \in WriterState
        BY <2>4 DEF Sound
      <4>2. <<w, e>> \in WriterState \X Tree[d] /\ <<w, e>>[1] = w /\ <<w, e>>[2] = e
        BY <4>1
      <4> QED
        BY <2>3, <4>2 DEF Called
    <3>2. InnerArrived[d][e] = ValueArrived(e, arrived) /\ InnerLong[d][e] = LongIn(e, long)
      BY <2>3
    <3>3. e \in ExtraIn(K, S) /\ Held(w2, s)
      BY <2>3, <2>4, <3>1
    <3>4. Grown(w, w2) /\ (w2.ok => Len(w2.bytes) > Len(w.bytes))
      BY <2>2, <2>4, <3>3, ParamGrows
    <3>5. /\ Held(w, s) /\ Len(w.bytes) \in Nat /\ Len(w2.bytes) \in Nat
          /\ Len(w2.bytes) <= Len(s) /\ Len(w.bytes) < Len(w2.bytes)
      <4>1. w2.ok
        BY <3>3 DEF Held
      <4> HIDE DEF w2
      <4>2. Held(w, s) /\ Len(w.bytes) \in Nat /\ Len(w2.bytes) \in Nat
            /\ Len(w2.bytes) <= Len(s)
        BY <3>3, <3>4, HeldBefore
      <4> QED
        BY <3>4, <4>1, <4>2
    <3>6. s \in Seq(Byte) /\ Len(s) \in Nat
      BY <3>5 DEF Held
    <3>7. n # 0 /\ n - 1 \in 0 .. N /\ Len(s) - Len(w.bytes) <= (n - 1) + 1
      <4> DEFINE i == Len(w.bytes)
                 j == Len(w2.bytes)
                 k == Len(s)
      <4>1. i \in Nat /\ j \in Nat /\ k \in Nat /\ i < j /\ j <= k /\ k - i <= n
        BY <2>4, <3>5, <3>6
      <4> HIDE DEF i, j, k
      <4>2. n # 0 /\ n - 1 \in 0 .. N /\ k - i <= (n - 1) + 1
        BY <4>1
      <4> QED
        BY <4>2 DEF i, k
    <3>8. r = TakeParam(After(s, w, Null), c[n - 1])
      <4> DEFINE t == Rest(s, Len(w.bytes))
      <4>1. t \in Seq(Byte)
        <5>1. Len(w.bytes) \in Nat /\ Len(w.bytes) <= Len(s)
          BY <3>5, <3>6
        <5> QED
          BY <3>6, <5>1, RestIs
      <4>2. Reader(t) = After(s, w, Null)
        BY AfterIsReader
      <4>3. c[n] = [x \in Seq(Byte) |-> TakeParam(Reader(x), IF n = 0 THEN <<>> ELSE c[n - 1])]
        BY DEF ParamCalls
      <4> HIDE DEF t
      <4>4. c[n][t] = TakeParam(Reader(t), IF n = 0 THEN <<>> ELSE c[n - 1])
        BY <4>1, <4>3
      <4> QED
        BY <3>7, <4>2, <4>4 DEF t
    <3> DEFINE x == ValueArrived(e, arrived)
    <3>9. Back(s, w2, TakeParam(After(s, w, Null), c[n - 1]), Under(Null, x),
               ~w2.lost /\ ~LongIn(e, long))
      <4> DEFINE m == n - 1
      <4>1. m \in 0 .. N /\ Len(s) - Len(w.bytes) <= m + 1
        BY <3>7
      <4> HIDE DEF m
      <4>2. Back(s, PutParam(w, e, put), TakeParam(After(s, w, Null), c[m]),
                 Under(Null, ValueArrived(e, arrived)),
                 ~PutParam(w, e, put).lost /\ ~LongIn(e, long))
        BY <2>2, <2>4, <3>3, <4>1, ParamIsRead
      <4> QED
        BY <4>2 DEF m
    <3> HIDE DEF w2, r, x
    <3>10. Back(s, w2, r, Under(Null, x), ~w2.lost /\ ~LongIn(e, long))
      BY <3>8, <3>9
    <3> QED
      BY <3>1, <3>2, <3>10 DEF r, x
  <2>5. Good(d)
    BY <2>4 DEF InnerBack
  <2> QED
    BY <2>1, <2>5
<1>3. P \in SUBSET Nat
  OBVIOUS
<1>4. \A d \in 0 .. Depth : d \in P
  <2> HIDE DEF P
  <2> QED
    BY <1>1, <1>2, <1>3, DepthInduction
<1> QED
  BY <1>4

\* What a call inside another brings, the other goes on with.
LEMMA InnerBackIsBack ==
  ASSUME NEW s, NEW w2, NEW r, ~r.past, NEW inner, NEW val, NEW well,
         Back(s, w2, inner[r.bytes], val, well)
  PROVE  Back(s, w2, TakeInner(r, inner), val, well)
<1> DEFINE t == inner[r.bytes]
           x == TakeInner(r, inner)
<1>1. x = Reading(t.bytes, t.ok, t.past \/ r.past, t.val)
  BY DEF TakeInner
<1>2. Reached(s, w2, t) /\ (well => Gives(t, After(s, w2, val)))
  BY DEF Back
<1> HIDE DEF t, x
<1>3. x = Reading(t.bytes, t.ok, FALSE, t.val)
  <2>1. (t.past \/ r.past) = FALSE
    BY <1>2 DEF Reached
  <2> QED
    BY <1>1, <2>1
<1>4. Reached(s, w2, x)
  BY <1>2, <1>3 DEF Reached, Reading
<1>5. ASSUME well PROVE Gives(x, After(s, w2, val))
  <2>1. t = After(s, w2, val)
    BY <1>2, <1>5 DEF Gives
  <2>2. t.bytes = Rest(s, Len(w2.bytes)) /\ t.ok = TRUE /\ t.val = val
    BY <2>1 DEF After, At, Reading
  <2>3. x = Reading(Rest(s, Len(w2.bytes)), TRUE, FALSE, val)
    BY <1>3, <2>2
  <2> QED
    BY <2>3 DEF Gives, After, At
<1> QED
  BY <1>4, <1>5 DEF Back, x

\* A parameter comes out of client_decodeExtra as it went into
\* client_encodeExtra, and no reader is taken past the end.
LEMMA ParamComesBack ==
  ASSUME NEW K, NEW e \in ExtraIn(K, Tree[Depth]), NEW w, Sound(w), w.bytes = <<>>,
         NEW s, Held(EncodeExtra(w, e), s)
  PROVE  Back(s, EncodeExtra(w, e), DecodeExtra(Reader(s)), ParamArrived(e),
              ~EncodeExtra(w, e).lost /\ ~HasLong(e))
<1> DEFINE S == Tree[Depth]
           put == PutInner[Depth]
           arrived == InnerArrived[Depth]
           long == InnerLong[Depth]
           N == Len(s)
           w2 == PutParam(w, e, put)
           x == Under(Null, ValueArrived(e, arrived))
           well == ~w2.lost /\ ~LongIn(e, long)
<1>1. Depth \in 0 .. Depth
  BY DepthIsNat
<1>2. EncodeExtra(w, e) = w2 /\ ParamArrived(e) = x /\ HasLong(e) = LongIn(e, long)
  BY DEF EncodeExtra, ParamArrived, HasLong
<1>3. Held(w2, s) /\ w2.ok
  BY <1>2 DEF Held
<1>4. KeysNamed(S) /\ InnerGrows(S, put)
  BY <1>1, TreesNamed, PutInnerGrows
<1> HIDE DEF w2
<1>5. s \in Seq(Byte) /\ N \in Nat /\ Len(w.bytes) = 0
  BY <1>3 DEF Held
<1> DEFINE d == DecodeExtra(Reader(s))
<1>6. PICK c : ParamCalls(c, N) /\ d = TakeInner(Reader(s), c[N])
  <2> DEFINE r == Reader(s)
  <2>1. r.bytes = s
    BY DEF Reader, Reading
  <2>2. Len(r.bytes) \in Nat
    BY <1>5, <2>1
  <2> HIDE DEF r
  <2>3. \E c : ParamCalls(c, Len(r.bytes)) /\ Gives(DecodeExtra(r), TakeInner(r, c[Len(r.bytes)]))
    BY <2>2, DecodeExtraIs
  <2> QED
    BY <2>1, <2>3 DEF Gives, r
<1>7. InnerBack(S, put, arrived, long, c, N)
  <2> HIDE DEF N
  <2> QED
    BY <1>1, <1>5, <1>6, InnerIsBack
<1>8. N > 0
  <2> HIDE DEF S, put
  <2>1. Grown(w, w2) /\ (w2.ok => Len(w2.bytes) > Len(w.bytes))
    BY <1>4, ParamGrows DEF w2, S
  <2>2. Len(w2.bytes) \in Nat /\ Len(w2.bytes) <= Len(s)
    BY <1>3, <2>1, HeldBefore
  <2> QED
    BY <1>3, <1>5, <2>1, <2>2
<1> HIDE DEF S, put, arrived, long
<1>9. c[N][s] = TakeParam(After(s, w, Null), c[N - 1])
  <2>1. c[N] = [t \in Seq(Byte) |-> TakeParam(Reader(t), IF N = 0 THEN <<>> ELSE c[N - 1])]
    <3>1. N \in 0 .. N
      BY <1>5
    <3> HIDE DEF N
    <3> QED
      BY <1>6, <3>1 DEF ParamCalls
  <2>2. c[N][s] = TakeParam(Reader(s), IF N = 0 THEN <<>> ELSE c[N - 1])
    <3> HIDE DEF N
    <3> QED
      BY <1>5, <2>1
  <2>3. Rest(s, Len(w.bytes)) = s
    BY <1>5, RestOfAll
  <2>4. Reader(s) = After(s, w, Null)
    BY <2>3, AfterIsReader
  <2> QED
    BY <1>8, <2>2, <2>4
<1>10. Back(s, w2, TakeParam(After(s, w, Null), c[N - 1]), x, well)
  <2> DEFINE m == N - 1
  <2>1. m \in 0 .. N /\ Len(s) - Len(w.bytes) <= m + 1
    BY <1>5, <1>8
  <2> HIDE DEF m, N
  <2>2. e \in ExtraIn(K, S) /\ Held(PutParam(w, e, put), s)
    BY <1>3 DEF S, w2
  <2>3. Back(s, PutParam(w, e, put), TakeParam(After(s, w, Null), c[m]),
             Under(Null, ValueArrived(e, arrived)),
             ~PutParam(w, e, put).lost /\ ~LongIn(e, long))
    BY <1>4, <1>7, <2>1, <2>2, ParamIsRead
  <2> QED
    BY <2>3 DEF m, w2, x, well
<1>11. Reader(s).bytes = s /\ ~Reader(s).past
  BY DEF Reader, Reading
<1> HIDE DEF well, x, N
<1>12. Back(s, w2, TakeInner(Reader(s), c[N]), x, well)
  <2> DEFINE r == Reader(s)
             inner == c[N]
  <2>1. Back(s, w2, inner[r.bytes], x, well)
    BY <1>9, <1>10, <1>11
  <2>2. ~r.past
    BY <1>11
  <2> HIDE DEF r, inner
  <2>3. Back(s, w2, TakeInner(r, inner), x, well)
    BY <2>1, <2>2, InnerBackIsBack
  <2> QED
    BY <2>3 DEF r, inner
<1> HIDE DEF d
<1>13. Back(s, w2, d, x, well)
  BY <1>6, <1>12
<1> QED
  BY <1>2, <1>13 DEF d, well

-----------------------------------------------------------------------------
(* Lists of extras                                                         *)

\* The key of an element, which all elements of a list have of the same kind.
KeyFits(strKey, key) == IF strKey THEN key \in Name /\ key # Null ELSE key \in SmallInt
PutKey(w, key, strKey) == IF strKey THEN WriteString(w, key) ELSE Put(w, BigEnd(1, key))
TakeKey(r, strKey) == IF strKey THEN ReadString(r) ELSE TakeInt(r, 1)

LEMMA PutKeyGrows ==
  ASSUME NEW w, Sound(w), NEW strKey, NEW key, KeyFits(strKey, key)
  PROVE  /\ Grown(w, PutKey(w, key, strKey)) /\ Sound(PutKey(w, key, strKey))
         /\ PutKey(w, key, strKey).ok =>
              /\ PutKey(w, key, strKey).lost = w.lost
              /\ Len(PutKey(w, key, strKey).bytes) > Len(w.bytes)
<1> DEFINE u == PutKey(w, key, strKey)
<1>1. CASE strKey
  <2>1. key \in Name \cup {Null} /\ u = WriteString(w, key)
    BY <1>1 DEF KeyFits, PutKey
  <2>2. Grown(w, u) /\ (u.ok => u.lost = w.lost /\ Len(u.bytes) > Len(w.bytes))
    BY <2>1, StringGrows
  <2> HIDE DEF u
  <2> QED
    BY <2>2 DEF Grown, u
<1>2. CASE ~strKey
  <2> DEFINE t == BigEnd(1, key)
  <2>1. t \in Seq(Byte) /\ Len(t) = 1
    <3>1. key \in Int /\ 1 \in {1, 2, 4, 8}
      BY <1>2 DEF KeyFits, SmallInt, Between
    <3> QED
      BY <3>1, BigEndIs
  <2>2. u = Put(w, t)
    BY <1>2 DEF PutKey
  <2> HIDE DEF t, u
  <2>3. Grown(w, u) /\ (u.ok => Added(w, u, t))
    BY <2>1, <2>2, PutGrows
  <2>4. u.ok => u.lost = w.lost /\ Len(u.bytes) > Len(w.bytes)
    <3>1. w.bytes \in Seq(Byte)
      BY DEF Sound, WriterState
    <3>2. u.ok => u.lost = w.lost /\ Len(u.bytes) = Len(w.bytes) + 1
      BY <2>1, <2>3 DEF Added
    <3> QED
      BY <3>1, <3>2
  <2> QED
    BY <2>3, <2>4 DEF Grown, u
<1> QED
  BY <1>1, <1>2

LEMMA KeyIsRead ==
  ASSUME NEW w, Sound(w), NEW strKey, NEW key, KeyFits(strKey, key),
         NEW s, Held(PutKey(w, key, strKey), s), NEW v
  PROVE  Gives(TakeKey(After(s, w, v), strKey), After(s, PutKey(w, key, strKey), key))
<1> DEFINE u == PutKey(w, key, strKey)
           a == After(s, w, v)
<1>1. CASE strKey
  <2>1. key \in Name \cup {Null} /\ u = WriteString(w, key) /\ TakeKey(a, strKey) = ReadString(a)
        /\ Text(key) = key
    BY <1>1 DEF KeyFits, PutKey, TakeKey, Text
  <2>2. Held(WriteString(w, key), s)
    BY <2>1
  <2> HIDE DEF u
  <2>3. Gives(ReadString(After(s, w, v)), After(s, WriteString(w, key), Text(key)))
    BY <2>1, <2>2, StringIsRead
  <2> QED
    BY <2>1, <2>3 DEF u
<1>2. CASE ~strKey
  <2> DEFINE t == BigEnd(1, key)
  <2>1. t \in Seq(Byte) /\ Len(t) = 1 /\ key \in Int /\ 1 \in {1, 2, 4, 8}
    <3>1. key \in Int /\ 1 \in {1, 2, 4, 8}
      BY <1>2 DEF KeyFits, SmallInt, Between
    <3> QED
      BY <3>1, BigEndIs
  <2>2. u = Put(w, t) /\ TakeKey(a, strKey) = TakeInt(a, 1) /\ Held(u, s)
    BY <1>2 DEF PutKey, TakeKey
  <2>3. Signed(t) = key
    BY <1>2, ByteBack DEF KeyFits
  <2> HIDE DEF u, a
  <2>4. Carried(w, u, t, s)
    <3> HIDE DEF t
    <3> QED
      BY <2>1, <2>2, PutIsCarried
  <2>5. Gives(TakeInt(After(s, w, v), 1), After(s, u, Signed(t)))
    BY <2>1, <2>4, IntIsRead
  <2> QED
    BY <2>2, <2>3, <2>5 DEF u, a
<1> QED
  BY <1>1, <1>2

\* r has read what w2 wrote, and what it has has the key.
BackUnder(s, w2, r, key, val, well) ==
  Back(s, w2, r, val, well) /\ (r.ok => r.val.key = key)

LEMMA ExtraFrom ==
  ASSUME NEW w, Sound(w), NEW b \in Byte, NEW s, Held(Put(w, <<b>>), s),
         NEW inner, NEW x, NEW w2, NEW well, NEW key,
         Back(s, w2, TakeExtraVal(After(s, Put(w, <<b>>), <<b>>), b, inner), x, well)
  PROVE  BackUnder(s, w2, TakeExtra(After(s, w, key), inner), key, Extra(key, b, x), well)
<1> DEFINE t == <<b>>
           p == Put(w, t)
           a == After(s, w, key)
           c == After(s, p, t)
           y == TakeExtraVal(c, b, inner)
           r == TakeExtra(a, inner)
           z == Extra(key, b, x)
<1>1. t \in Seq(Byte) /\ Len(t) = 1 /\ Len(t) > 0
  BY ByteAlone
<1>2. Carried(w, p, t, s)
  <2>1. Held(p, s)
    OBVIOUS
  <2> HIDE DEF t
  <2> QED
    BY <1>1, <2>1, PutIsCarried
<1>3. Gives(Unasked(a, Take(a, 1)), c) /\ c.val[1] = b
  <2> HIDE DEF p
  <2> QED
    BY <1>2, ByteIsRead
<1>4. c.ok /\ a.val = key
  BY AfterIs
<1>5. Back(s, w2, y, x, well)
  OBVIOUS
<1> HIDE DEF a, c
<1>6. r = IF ~y.ok THEN y ELSE WithVal(y, Extra(key, b, y.val))
  BY <1>3, <1>4 DEF TakeExtra, WithExtra, Gives
<1> HIDE DEF y, r, z
<1>7. Reached(s, w2, y) /\ (well => Gives(y, After(s, w2, x)))
  BY <1>5 DEF Back
<1>8. Reached(s, w2, r)
  BY <1>6, <1>7 DEF Reached, WithVal, Reading
<1>9. ASSUME well PROVE Gives(r, After(s, w2, z))
  <2>1. y = After(s, w2, x) /\ y.ok /\ y.val = x
    BY <1>7, <1>9, AfterIs DEF Gives
  <2>2. WithVal(y, z) = After(s, w2, z)
    BY <2>1, AfterWithVal
  <2> QED
    BY <1>6, <2>1, <2>2 DEF Gives, z
<1>10. r.ok => r.val.key = key
  BY <1>6 DEF WithVal, Reading, Extra
<1>11. BackUnder(s, w2, r, key, z, well)
  BY <1>8, <1>9, <1>10 DEF Back, BackUnder
<1> QED
  BY <1>11 DEF r, a, z

\* r has read what w2 wrote.  It has list with an element in front that has the key
\* of x, unless that could not be read, and if all is well the element is x.
Kept(s, w2, r, list, x, well) ==
  /\ r = After(s, w2, r.val)
  /\ well => r.val = <<x>> \o list
  /\ r.val = list \/ \E y : y.key = x.key /\ r.val = <<y>> \o list

LEMMA ElementFrom ==
  ASSUME NEW w, NEW s, NEW strKey, NEW inner, NEW u, NEW list, NEW x, NEW w2, NEW well,
         Gives(TakeKey(After(s, w, list), strKey), After(s, u, x.key)),
         BackUnder(s, w2, TakeExtra(After(s, u, x.key), inner), x.key, x, well)
  PROVE  Kept(s, w2, TakeElement(After(s, w, list), strKey, inner), list, x, well)
<1> DEFINE a == After(s, w, list)
           k == After(s, u, x.key)
           i == TakeExtra(k, inner)
           r == TakeElement(a, strKey, inner)
           val == IF i.ok THEN <<i.val>> \o list ELSE list
<1>1. k.ok /\ a.val = list
  BY AfterIs
<1>2. TakeKey(a, strKey) = k
  BY DEF Gives
<1>3. Reached(s, w2, i) /\ (well => Gives(i, After(s, w2, x))) /\ (i.ok => i.val.key = x.key)
  BY DEF BackUnder, Back
<1> HIDE DEF a, k
<1>4. r = Joined(a.val, i, <<i.val>> \o a.val)
  BY <1>1, <1>2 DEF TakeElement, AtFront, TakeKey
<1> HIDE DEF i, r
<1>5. r = Reading(i.bytes, TRUE, i.past, val)
  BY <1>1, <1>4 DEF Joined
<1>6. r = After(s, w2, val)
  <2> HIDE DEF val
  <2> QED
    BY <1>3, <1>5, ReachedNow
<1>7. r.val = val
  <2> HIDE DEF val
  <2> QED
    BY <1>6, AfterIs
<1>8. well => val = <<x>> \o list
  <2>1. ASSUME well PROVE i.ok /\ i.val = x
    BY <1>3, <2>1, AfterIs DEF Gives
  <2> QED
    BY <2>1
<1>9. val = list \/ \E y : y.key = x.key /\ val = <<y>> \o list
  BY <1>3
<1> HIDE DEF val
<1>10. Kept(s, w2, r, list, x, well)
  BY <1>6, <1>7, <1>8, <1>9 DEF Kept
<1> QED
  BY <1>10 DEF r, a

\* What is asked of put, which encodes maps of elements of S, and of c[n], which
\* decodes them where at most n bytes are left.
MapsGrow(S, put) ==
  \A list \in Seq(Named(S)) : \A w : Sound(w) => Grown(w, Called(put, w, list))
MapsBack(S, put, arrived, long, c, N) ==
  \A list \in Seq(Named(S)) : \A w, s : \A n \in 0 .. N :
    Sound(w) /\ w.cap <= 513 /\ Held(Called(put, w, list), s) /\ Len(s) - Len(w.bytes) <= n
    => Whole(s, Called(put, w, list), c[n][Rest(s, Len(w.bytes))], arrived[list],
             ~Called(put, w, list).lost /\ \A i \in 1 .. Len(list) : ~long[list[i]])

TypeOf(e) == IF NullPlain(e) THEN PREFIX_TYPE_NULL ELSE e.type
LEMMA PutElementIs ==
  ASSUME NEW w, NEW e, NEW strKey, NEW put, NEW u, u = PutKey(w, e.key, strKey),
         NEW p, p = Put(u, <<TypeOf(e)>>)
  PROVE  PutElement(w, e, strKey, put)
           = IF ~p.ok \/ NullPlain(e) THEN p
             ELSE IF e.type = PREFIX_TYPE_MAP THEN Called(put, p, e.val)
             ELSE PutPlain(p, e)
<1>1. PutKeyAndType(w, e, strKey) = p
  BY DEF PutKeyAndType, PutKey, TypeOf
<1> QED
  BY <1>1 DEF PutElement

LEMMA TypeOfIs ==
  ASSUME NEW K, NEW S, NEW e \in ExtraIn(K, S)
  PROVE  TypeOf(e) \in Byte
BY ElementIs, TypesDiffer DEF TypeOf

LEMMA ElementGrows ==
  ASSUME NEW K, NEW S, NEW e \in ExtraIn(K, S), NEW strKey, KeyFits(strKey, e.key),
         NEW put, MapsGrow(S, put), NEW w, Sound(w)
  PROVE  /\ Grown(w, PutElement(w, e, strKey, put))
         /\ PutElement(w, e, strKey, put).ok
              => Len(PutElement(w, e, strKey, put).bytes) >= Len(w.bytes) + 2
<1> DEFINE w2 == PutElement(w, e, strKey, put)
           u == PutKey(w, e.key, strKey)
           b == TypeOf(e)
           p == Put(u, <<b>>)
<1>1. b \in Byte
  BY TypeOfIs
<1>2. /\ Grown(w, u) /\ Sound(u)
      /\ u.ok => Len(u.bytes) > Len(w.bytes)
  BY PutKeyGrows
<1>3. w2 = IF ~p.ok \/ NullPlain(e) THEN p
           ELSE IF e.type = PREFIX_TYPE_MAP THEN Called(put, p, e.val)
           ELSE PutPlain(p, e)
  BY PutElementIs
<1> HIDE DEF u, b
<1>4. Grown(u, p) /\ Sound(p)
  <2>1. <<b>> \in Seq(Byte)
    BY <1>1, ByteAlone
  <2> QED
    BY <1>2, <2>1, PutGrows DEF Grown
<1>5. Grown(p, w2)
  <2> HIDE DEF p, w2
  <2>1. CASE w2 = p
    BY <1>4, <2>1, GrownIsReflexive
  <2>2. CASE ~NullPlain(e) /\ e.type = PREFIX_TYPE_MAP /\ w2 = Called(put, p, e.val)
    <3>1. e.val \in Seq(Named(S))
      BY <2>2, ElementIs, TypesDiffer
    <3> QED
      BY <1>4, <2>2, <3>1 DEF MapsGrow
  <2>3. CASE ~NullPlain(e) /\ w2 = PutPlain(p, e)
    BY <1>4, <2>3, PlainGrows
  <2> QED
    BY <1>3, <2>1, <2>2, <2>3
<1> HIDE DEF w2
<1>6. Grown(u, w2) /\ (w2.ok => Len(w2.bytes) > Len(u.bytes))
  BY <1>1, <1>2, <1>5, TypeGrows
<1>7. Grown(w, w2)
  BY <1>2, <1>6, GrownIsTransitive
<1>8. w2.ok => Len(w2.bytes) >= Len(w.bytes) + 2
  <2>1. w2.ok => u.ok
    BY <1>6 DEF Grown
  <2>2. w.bytes \in Seq(Byte) /\ u.bytes \in Seq(Byte) /\ w2.bytes \in Seq(Byte)
    BY <1>2, <1>6 DEF Grown, Sound, WriterState
  <2>3. Len(w.bytes) \in Nat /\ Len(u.bytes) \in Nat /\ Len(w2.bytes) \in Nat
    BY <2>2
  <2> QED
    BY <1>2, <1>6, <2>1, <2>3
<1> QED
  BY <1>7, <1>8 DEF w2

LEMMA TakeExtraValIs ==
  ASSUME NEW t, NEW type, NEW inner
  PROVE  TakeExtraVal(t, type, inner)
           = IF type = PREFIX_TYPE_MAP THEN Unharmed(TakeInner(t, inner))
             ELSE TakePlain(t, type)
BY DEF TakeExtraVal

\* What an element has besides its key when it arrives, and whether it has too long
\* a string.
ValIn(e, arrived) ==
  IF NullPlain(e) THEN Null
  ELSE IF e.type = PREFIX_TYPE_MAP THEN arrived[e.val] ELSE PlainVal(e)

LEMMA ElementArrivedIs ==
  ASSUME NEW e, NEW arrived, NEW long
  PROVE  /\ ElementArrived(e, arrived) = Extra(e.key, TypeOf(e), ValIn(e, arrived))
         /\ ElementArrived(e, arrived).key = e.key
         /\ e.type = PREFIX_TYPE_MAP =>
              (LongIn(e, long) <=> \E i \in 1 .. Len(e.val) : long[e.val[i]])
         /\ TooLong(e) => LongIn(e, long)
<1>1. ElementArrived(e, arrived) = Extra(e.key, TypeOf(e), ValIn(e, arrived))
  BY DEF ElementArrived, TypeOf, ValIn
<1>2. Extra(e.key, TypeOf(e), ValIn(e, arrived)).key = e.key
  BY DEF Extra
<1>3. e.type = PREFIX_TYPE_MAP =>
        (LongIn(e, long) <=> \E i \in 1 .. Len(e.val) : long[e.val[i]])
  BY TypesDiffer DEF LongIn
<1>4. TooLong(e) => LongIn(e, long)
  BY TypesDiffer DEF LongIn, TooLong
<1> QED
  BY <1>1, <1>2, <1>3, <1>4

LEMMA WholeIsUnharmed ==
  ASSUME NEW s, NEW w2, NEW r, r.past = FALSE, NEW inner, NEW val, NEW well,
         Whole(s, w2, inner[r.bytes], val, well)
  PROVE  Back(s, w2, Unharmed(TakeInner(r, inner)), val, well)
<1> DEFINE t == inner[r.bytes]
           x == Unharmed(TakeInner(r, inner))
<1>1. t = After(s, w2, t.val) /\ (well => t.val = val)
  BY DEF Whole
<1>2. x = Reading(t.bytes, TRUE, t.past \/ r.past, t.val)
  BY DEF Unharmed, TakeInner, Reading
<1> HIDE DEF t, x
<1>3. t.bytes = Rest(s, Len(w2.bytes)) /\ t.past = FALSE
  BY <1>1 DEF After, At, Reading
<1>4. x = Reading(Rest(s, Len(w2.bytes)), TRUE, FALSE, t.val)
  <2>1. (t.past \/ r.past) = FALSE
    BY <1>3
  <2> QED
    BY <1>2, <1>3, <2>1
<1>5. x = After(s, w2, t.val)
  BY <1>4 DEF After, At
<1>6. Reached(s, w2, x)
  BY <1>5, AfterIsReached
<1>7. well => Gives(x, After(s, w2, val))
  BY <1>1, <1>5 DEF Gives
<1> QED
  BY <1>6, <1>7 DEF Back, x

\* An element of a list of extras is read as it was written, or left out.
LEMMA ElementIsRead ==
  ASSUME NEW K, NEW S, NEW e \in ExtraIn(K, S), NEW strKey, KeyFits(strKey, e.key),
         NEW put, NEW arrived, NEW long, NEW c, NEW N,
         MapsGrow(S, put), MapsBack(S, put, arrived, long, c, N),
         NEW w, Sound(w), w.cap <= 513, NEW s, Held(PutElement(w, e, strKey, put), s),
         NEW n \in 0 .. N, Len(s) - Len(w.bytes) <= n + 1, NEW list
  PROVE  Kept(s, PutElement(w, e, strKey, put),
              TakeElement(After(s, w, list), strKey, c[n]), list,
              ElementArrived(e, arrived),
              ~PutElement(w, e, strKey, put).lost /\ ~LongIn(e, long))
<1> DEFINE w2 == PutElement(w, e, strKey, put)
           u == PutKey(w, e.key, strKey)
           b == TypeOf(e)
           t == <<b>>
           p == Put(u, t)
           a == After(s, p, t)
           y == TakeExtraVal(a, b, c[n])
           v == ValIn(e, arrived)
           x == ElementArrived(e, arrived)
           well == ~w2.lost /\ ~LongIn(e, long)
<1>h. Held(w2, s) /\ w2.ok
  BY DEF Held
<1>1. b \in Byte
  BY TypeOfIs
<1>2. /\ Grown(w, u) /\ Sound(u)
      /\ u.ok => Len(u.bytes) > Len(w.bytes)
  BY PutKeyGrows
<1>3. w2 = IF ~p.ok \/ NullPlain(e) THEN p
           ELSE IF e.type = PREFIX_TYPE_MAP THEN Called(put, p, e.val)
           ELSE PutPlain(p, e)
  BY PutElementIs
<1>4. x = Extra(e.key, b, v) /\ x.key = e.key
  BY ElementArrivedIs
<1> HIDE DEF u, t
<1>5. Grown(u, p) /\ Sound(p)
  <2>1. t \in Seq(Byte)
    BY <1>1, ByteAlone DEF t
  <2> QED
    BY <1>2, <2>1, PutGrows DEF Grown
<1>6. Held(p, s) /\ Back(s, w2, y, v, well)
  <2>1. CASE w2 = p /\ NullPlain(e)
    <3>1. b = PREFIX_TYPE_NULL /\ v = Null
      BY <2>1 DEF TypeOf, ValIn
    <3> HIDE DEF p, w2, a, v, b
    <3>2. y = TakePlain(a, b)
      BY <3>1, TakeExtraValIs, TypesDiffer
    <3>3. TakePlain(a, b) = WithVal(a, Null)
      BY <3>1, TakePlainIs, TypesDiffer
    <3>4. WithVal(a, Null) = After(s, p, Null)
      BY AfterWithVal DEF a
    <3>5. y = After(s, p, Null)
      BY <3>2, <3>3, <3>4
    <3>6. Reached(s, w2, y)
      BY <2>1, <3>5, AfterIsReached
    <3> QED
      BY <1>h, <2>1, <3>1, <3>5, <3>6 DEF Back, Gives
  <2>2. CASE ~NullPlain(e) /\ e.type = PREFIX_TYPE_MAP /\ w2 = Called(put, p, e.val)
    <3>1. b = e.type /\ v = arrived[e.val]
      BY <2>2 DEF TypeOf, ValIn
    <3>2. e.val \in Seq(Named(S))
      BY <2>2, ElementIs, TypesDiffer
    <3>3. Grown(p, w2)
      <4> HIDE DEF p, w2
      <4> QED
        BY <1>5, <2>2, <3>2 DEF MapsGrow
    <3>4. Held(p, s) /\ Len(p.bytes) \in Nat
      <4> HIDE DEF p, w2
      <4> QED
        BY <1>h, <3>3, HeldBefore
    <3>5. p.cap <= 513
      BY <1>2, <1>5 DEF Grown
    <3>6. Len(s) - Len(p.bytes) <= n
      <4>1. Len(p.bytes) > Len(u.bytes) /\ Len(u.bytes) >= Len(w.bytes)
        <5>1. p.ok
          BY <3>4 DEF Held
        <5>2. Grown(Put(u, <<b>>), p)
          BY <1>5, GrownIsReflexive DEF t
        <5>3. Len(u.bytes) >= Len(w.bytes)
          BY <1>2 DEF Grown, Starts
        <5> HIDE DEF p, b
        <5> QED
          BY <1>1, <1>2, <5>1, <5>2, <5>3, TypeGrows
      <4>2. Len(w.bytes) \in Nat /\ Len(u.bytes) \in Nat /\ Len(s) \in Nat
        BY <1>2, <3>4 DEF Sound, WriterState, Held
      <4> DEFINE i == Len(w.bytes)
                 j == Len(u.bytes)
                 k == Len(p.bytes)
                 l == Len(s)
      <4>3. n \in Int
        OBVIOUS
      <4>4. l - i <= n + 1
        OBVIOUS
      <4>5. i \in Nat /\ j \in Nat /\ k \in Nat /\ l \in Nat /\ k > j /\ j >= i
        BY <3>4, <4>1, <4>2
      <4> HIDE DEF i, j, k, l
      <4>6. l - k <= n
        BY <4>3, <4>4, <4>5
      <4> QED
        BY <4>6 DEF l, k
    <3> DEFINE z == c[n][Rest(s, Len(p.bytes))]
               fine == ~w2.lost /\ \A i \in 1 .. Len(e.val) : ~long[e.val[i]]
    <3>7. Whole(s, w2, z, arrived[e.val], fine)
      <4> HIDE DEF p, w2
      <4>1. Held(Called(put, p, e.val), s)
        BY <1>h, <2>2
      <4>2. Whole(s, Called(put, p, e.val), c[n][Rest(s, Len(p.bytes))], arrived[e.val],
                  ~Called(put, p, e.val).lost /\ \A i \in 1 .. Len(e.val) : ~long[e.val[i]])
        BY <1>5, <3>2, <3>5, <3>6, <4>1 DEF MapsBack
      <4> QED
        BY <2>2, <4>2
    <3>8. fine = well
      <4>1. LongIn(e, long) <=> \E i \in 1 .. Len(e.val) : long[e.val[i]]
        BY <2>2, ElementArrivedIs
      <4> HIDE DEF w2
      <4> QED
        BY <4>1
    <3>9. a.bytes = Rest(s, Len(p.bytes)) /\ a.past = FALSE
      <4> HIDE DEF p, t
      <4> QED
        BY DEF After, At, Reading
    <3>10. y = Unharmed(TakeInner(a, c[n]))
      BY <2>2, <3>1, TakeExtraValIs
    <3> HIDE DEF fine, well, a, w2, p, y
    <3>11. Back(s, w2, Unharmed(TakeInner(a, c[n])), arrived[e.val], fine)
      <4> DEFINE inner == c[n]
      <4>1. Whole(s, w2, inner[a.bytes], arrived[e.val], fine)
        BY <3>7, <3>9
      <4> HIDE DEF inner
      <4>2. Back(s, w2, Unharmed(TakeInner(a, inner)), arrived[e.val], fine)
        BY <3>9, <4>1, WholeIsUnharmed
      <4> QED
        BY <4>2 DEF inner
    <3> QED
      BY <3>1, <3>4, <3>8, <3>10, <3>11
  <2>3. CASE ~NullPlain(e) /\ e.type # PREFIX_TYPE_MAP /\ w2 = PutPlain(p, e)
    <3>1. b = e.type /\ v = PlainVal(e)
      BY <2>3 DEF TypeOf, ValIn
    <3>2. Grown(p, w2)
      <4> HIDE DEF p, w2
      <4> QED
        BY <1>5, <2>3, PlainGrows
    <3>3. Held(p, s)
      <4> HIDE DEF p, w2
      <4> QED
        BY <1>h, <3>2, HeldBefore
    <3>4. y = TakePlain(a, e.type)
      BY <2>3, <3>1, TakeExtraValIs
    <3>5. well => ~w2.lost /\ ~TooLong(e)
      BY ElementArrivedIs
    <3>6. /\ Reached(s, w2, TakePlain(a, e.type))
          /\ well => Gives(TakePlain(a, e.type), After(s, w2, PlainVal(e)))
      <4>1. Held(PutPlain(p, e), s)
        BY <1>h, <2>3
      <4> HIDE DEF p, w2, well
      <4> QED
        BY <1>5, <2>3, <3>5, <4>1, PlainIsRead
    <3> HIDE DEF a, w2, p, y, v, well
    <3> QED
      BY <3>1, <3>3, <3>4, <3>6 DEF Back
  <2>4. p.ok
    <3>1. ~p.ok => w2 = p
      BY <1>3
    <3> HIDE DEF p, w2
    <3> QED
      BY <1>h, <3>1
  <2> QED
    BY <1>3, <2>1, <2>2, <2>3, <2>4
<1> HIDE DEF well, w2, v
<1>7. Held(u, s)
  <2> HIDE DEF p
  <2> QED
    BY <1>5, <1>6, HeldBefore
<1>8. BackUnder(s, w2, TakeExtra(After(s, u, e.key), c[n]), e.key, x, well)
  <2> DEFINE key == e.key
             inner == c[n]
  <2>1. Held(Put(u, <<b>>), s)
    BY <1>6 DEF t
  <2>2. Back(s, w2, TakeExtraVal(After(s, Put(u, <<b>>), <<b>>), b, inner), v, well)
    BY <1>6 DEF t
  <2> HIDE DEF key, inner, b
  <2>3. BackUnder(s, w2, TakeExtra(After(s, u, key), inner), key, Extra(key, b, v), well)
    BY <1>1, <1>2, <2>1, <2>2, ExtraFrom
  <2>4. x = Extra(key, b, v)
    BY <1>4 DEF key, b
  <2> QED
    BY <2>3, <2>4 DEF key, inner
<1>9. Gives(TakeKey(After(s, w, list), strKey), After(s, u, e.key))
  <2>1. Held(PutKey(w, e.key, strKey), s)
    BY <1>7 DEF u
  <2>2. Gives(TakeKey(After(s, w, list), strKey), After(s, PutKey(w, e.key, strKey), e.key))
    BY <2>1, KeyIsRead
  <2> QED
    BY <2>2 DEF u
<1> HIDE DEF x
<1>10. Kept(s, w2, TakeElement(After(s, w, list), strKey, c[n]), list, x, well)
  <2> DEFINE inner == c[n]
  <2>1. /\ Gives(TakeKey(After(s, w, list), strKey), After(s, u, x.key))
        /\ BackUnder(s, w2, TakeExtra(After(s, u, x.key), inner), x.key, x, well)
    BY <1>4, <1>8, <1>9
  <2> HIDE DEF inner
  <2>2. Kept(s, w2, TakeElement(After(s, w, list), strKey, inner), list, x, well)
    BY <2>1, ElementFrom
  <2> QED
    BY <2>2 DEF inner
<1> QED
  BY <1>10 DEF w2, x, well

\* The elements are written one after the other.
ElementsPut(f, w, list, strKey, inner) ==
  /\ PutElements(w, list, strKey, inner) = f[Len(list)]
  /\ f[0] = w
  /\ \A k \in 1 .. Len(list) : f[k] = PutElement(f[k - 1], list[k], strKey, inner)

LEMMA PutElementsIs ==
  ASSUME NEW w, NEW list, Len(list) \in Nat, NEW strKey, NEW inner
  PROVE  \E f : ElementsPut(f, w, list, strKey, inner)
<1> DEFINE First == w
           Step(x, k) == PutElement(x, list[k], strKey, inner)
           Turn(f, k) == IF k = 0 THEN First ELSE Step(f[k - 1], k)
           S == {m \in Nat : \E f : f = [k \in 0 .. m |-> Turn(f, k)]}
<1> HIDE DEF First, Step
<1>0. Len(list) \in Nat
  BY DepthIsNat
<1>1. 0 \in S
  <2> DEFINE f == [k \in 0 .. 0 |-> First]
  <2>1. f = [k \in 0 .. 0 |-> Turn(f, k)]
    OBVIOUS
  <2> QED
    BY <2>1
<1>2. ASSUME NEW m \in S PROVE m + 1 \in S
  <2>1. PICK f : f = [k \in 0 .. m |-> Turn(f, k)]
    OBVIOUS
  <2> DEFINE g == [k \in 0 .. (m + 1) |-> IF k = m + 1 THEN Turn(f, m + 1) ELSE f[k]]
  <2>2. \A k \in 0 .. (m + 1) : k # m + 1 => k \in 0 .. m
    OBVIOUS
  <2>3. \A k \in 0 .. m : f[k] = Turn(f, k)
    BY <2>1
  <2>4. ASSUME NEW k \in 0 .. (m + 1), k # 0 PROVE g[k - 1] = f[k - 1]
    <3>1. k - 1 \in 0 .. (m + 1) /\ k - 1 # m + 1
      BY <2>4
    <3> QED
      BY <3>1
  <2>5. ASSUME NEW k \in 0 .. (m + 1) PROVE g[k] = Turn(g, k)
    <3>1. g[k] = Turn(f, k)
      BY <2>2, <2>3
    <3>2. CASE k = 0
      BY <3>1, <3>2
    <3>3. CASE k # 0
      <4>1. g[k - 1] = f[k - 1]
        BY <2>4, <3>3
      <4> HIDE DEF g
      <4> QED
        BY <3>1, <3>3, <4>1
    <3> QED
      BY <3>2, <3>3
  <2>6. g = [k \in 0 .. (m + 1) |-> Turn(g, k)]
    BY <2>5
  <2> HIDE DEF g, Turn
  <2>7. \E h : h = [k \in 0 .. (m + 1) |-> Turn(h, k)]
    BY <2>6
  <2> QED
    BY <2>7
<1>3. S = Nat
  <2>1. S \in SUBSET Nat
    OBVIOUS
  <2> HIDE DEF S
  <2> QED
    BY <1>1, <1>2, <2>1, EveryNumber
<1>4. \E h : h = [k \in 0 .. Len(list) |-> Turn(h, k)]
  BY <1>0, <1>3
<1> HIDE DEF Turn, S
<1>5. PICK h : h = [k \in 0 .. Len(list) |-> Turn(h, k)] /\ PutElements(w, list, strKey, inner) = h[Len(list)]
  <2>1. \E h : h = [k \in 0 .. Len(list) |-> IF k = 0 THEN w ELSE PutElement(h[k - 1], list[k], strKey, inner)]
    BY <1>4 DEF Turn, First, Step
  <2>2. \E h : h = [k \in 0 .. Len(list) |-> IF k = 0 THEN w ELSE PutElement(h[k - 1], list[k], strKey, inner)] /\ PutElements(w, list, strKey, inner) = h[Len(list)]
    BY <2>1 DEF PutElements
  <2> QED
    BY <2>2 DEF Turn, First, Step
<1>6. \A k \in 0 .. Len(list) : h[k] = Turn(h, k)
  BY <1>5
<1>7. h[0] = First
  BY <1>0, <1>6 DEF Turn
<1>8. \A k \in 1 .. Len(list) : h[k] = Step(h[k - 1], k)
  <2>1. \A k \in 1 .. Len(list) : k \in 0 .. Len(list) /\ k # 0
    BY <1>0
  <2> QED
    BY <1>6, <2>1 DEF Turn
<1> QED
  BY <1>5, <1>7, <1>8 DEF First, Step, ElementsPut

\* The elements are read one after the other.
ElementsTaken(f, r, count, strKey, inner) ==
  /\ TakeElements(r, count, strKey, inner) = f[count]
  /\ f[0] = WithVal(r, <<>>)
  /\ \A k \in 1 .. count : f[k] = IF f[k - 1].ok THEN TakeElement(f[k - 1], strKey, inner) ELSE f[k - 1]

LEMMA TakeElementsIs ==
  ASSUME NEW r, NEW count \in Nat, NEW strKey, NEW inner
  PROVE  \E f : ElementsTaken(f, r, count, strKey, inner)
<1> DEFINE First == WithVal(r, <<>>)
           Step(x, k) == IF x.ok THEN TakeElement(x, strKey, inner) ELSE x
           Turn(f, k) == IF k = 0 THEN First ELSE Step(f[k - 1], k)
           S == {m \in Nat : \E f : f = [k \in 0 .. m |-> Turn(f, k)]}
<1> HIDE DEF First, Step
<1>0. count \in Nat
  BY DepthIsNat
<1>1. 0 \in S
  <2> DEFINE f == [k \in 0 .. 0 |-> First]
  <2>1. f = [k \in 0 .. 0 |-> Turn(f, k)]
    OBVIOUS
  <2> QED
    BY <2>1
<1>2. ASSUME NEW m \in S PROVE m + 1 \in S
  <2>1. PICK f : f = [k \in 0 .. m |-> Turn(f, k)]
    OBVIOUS
  <2> DEFINE g == [k \in 0 .. (m + 1) |-> IF k = m + 1 THEN Turn(f, m + 1) ELSE f[k]]
  <2>2. \A k \in 0 .. (m + 1) : k # m + 1 => k \in 0 .. m
    OBVIOUS
  <2>3. \A k \in 0 .. m : f[k] = Turn(f, k)
    BY <2>1
  <2>4. ASSUME NEW k \in 0 .. (m + 1), k # 0 PROVE g[k - 1] = f[k - 1]
    <3>1. k - 1 \in 0 .. (m + 1) /\ k - 1 # m + 1
      BY <2>4
    <3> QED
      BY <3>1
  <2>5. ASSUME NEW k \in 0 .. (m + 1) PROVE g[k] = Turn(g, k)
    <3>1. g[k] = Turn(f, k)
      BY <2>2, <2>3
    <3>2. CASE k = 0
      BY <3>1, <3>2
    <3>3. CASE k # 0
      <4>1. g[k - 1] = f[k - 1]
        BY <2>4, <3>3
      <4> HIDE DEF g
      <4> QED
        BY <3>1, <3>3, <4>1
    <3> QED
      BY <3>2, <3>3
  <2>6. g = [k \in 0 .. (m + 1) |-> Turn(g, k)]
    BY <2>5
  <2> HIDE DEF g, Turn
  <2>7. \E h : h = [k \in 0 .. (m + 1) |-> Turn(h, k)]
    BY <2>6
  <2> QED
    BY <2>7
<1>3. S = Nat
  <2>1. S \in SUBSET Nat
    OBVIOUS
  <2> HIDE DEF S
  <2> QED
    BY <1>1, <1>2, <2>1, EveryNumber
<1>4. \E h : h = [k \in 0 .. count |-> Turn(h, k)]
  BY <1>0, <1>3
<1> HIDE DEF Turn, S
<1>5. PICK h : h = [k \in 0 .. count |-> Turn(h, k)] /\ TakeElements(r, count, strKey, inner) = h[count]
  <2>1. \E h : h = [k \in 0 .. count |-> IF k = 0 THEN WithVal(r, <<>>) ELSE IF h[k - 1].ok THEN TakeElement(h[k - 1], strKey, inner) ELSE h[k - 1]]
    BY <1>4 DEF Turn, First, Step
  <2>2. \E h : h = [k \in 0 .. count |-> IF k = 0 THEN WithVal(r, <<>>) ELSE IF h[k - 1].ok THEN TakeElement(h[k - 1], strKey, inner) ELSE h[k - 1]] /\ TakeElements(r, count, strKey, inner) = h[count]
    BY <2>1 DEF TakeElements
  <2> QED
    BY <2>2 DEF Turn, First, Step
<1>6. \A k \in 0 .. count : h[k] = Turn(h, k)
  BY <1>5
<1>7. h[0] = First
  BY <1>0, <1>6 DEF Turn
<1>8. \A k \in 1 .. count : h[k] = Step(h[k - 1], k)
  <2>1. \A k \in 1 .. count : k \in 0 .. count /\ k # 0
    BY <1>0
  <2> QED
    BY <1>6, <2>1 DEF Turn
<1> QED
  BY <1>5, <1>7, <1>8 DEF First, Step, ElementsTaken

\* Elements are left out from the last to the first.
PartsLeft(f, list, keys) ==
  /\ Without(list, keys) = f[Len(list)]
  /\ f[0] = <<>>
  /\ \A k \in 1 .. Len(list) : f[k] = IF list[Len(list) + 1 - k].key \in keys THEN f[k - 1] ELSE <<list[Len(list) + 1 - k]>> \o f[k - 1]

LEMMA WithoutIs ==
  ASSUME NEW list, Len(list) \in Nat, NEW keys
  PROVE  \E f : PartsLeft(f, list, keys)
<1> DEFINE First == <<>>
           Step(x, k) == IF list[Len(list) + 1 - k].key \in keys THEN x ELSE <<list[Len(list) + 1 - k]>> \o x
           Turn(f, k) == IF k = 0 THEN First ELSE Step(f[k - 1], k)
           S == {m \in Nat : \E f : f = [k \in 0 .. m |-> Turn(f, k)]}
<1> HIDE DEF First, Step
<1>0. Len(list) \in Nat
  BY DepthIsNat
<1>1. 0 \in S
  <2> DEFINE f == [k \in 0 .. 0 |-> First]
  <2>1. f = [k \in 0 .. 0 |-> Turn(f, k)]
    OBVIOUS
  <2> QED
    BY <2>1
<1>2. ASSUME NEW m \in S PROVE m + 1 \in S
  <2>1. PICK f : f = [k \in 0 .. m |-> Turn(f, k)]
    OBVIOUS
  <2> DEFINE g == [k \in 0 .. (m + 1) |-> IF k = m + 1 THEN Turn(f, m + 1) ELSE f[k]]
  <2>2. \A k \in 0 .. (m + 1) : k # m + 1 => k \in 0 .. m
    OBVIOUS
  <2>3. \A k \in 0 .. m : f[k] = Turn(f, k)
    BY <2>1
  <2>4. ASSUME NEW k \in 0 .. (m + 1), k # 0 PROVE g[k - 1] = f[k - 1]
    <3>1. k - 1 \in 0 .. (m + 1) /\ k - 1 # m + 1
      BY <2>4
    <3> QED
      BY <3>1
  <2>5. ASSUME NEW k \in 0 .. (m + 1) PROVE g[k] = Turn(g, k)
    <3>1. g[k] = Turn(f, k)
      BY <2>2, <2>3
    <3>2. CASE k = 0
      BY <3>1, <3>2
    <3>3. CASE k # 0
      <4>1. g[k - 1] = f[k - 1]
        BY <2>4, <3>3
      <4> HIDE DEF g
      <4> QED
        BY <3>1, <3>3, <4>1
    <3> QED
      BY <3>2, <3>3
  <2>6. g = [k \in 0 .. (m + 1) |-> Turn(g, k)]
    BY <2>5
  <2> HIDE DEF g, Turn
  <2>7. \E h : h = [k \in 0 .. (m + 1) |-> Turn(h, k)]
    BY <2>6
  <2> QED
    BY <2>7
<1>3. S = Nat
  <2>1. S \in SUBSET Nat
    OBVIOUS
  <2> HIDE DEF S
  <2> QED
    BY <1>1, <1>2, <2>1, EveryNumber
<1>4. \E h : h = [k \in 0 .. Len(list) |-> Turn(h, k)]
  BY <1>0, <1>3
<1> HIDE DEF Turn, S
<1>5. PICK h : h = [k \in 0 .. Len(list) |-> Turn(h, k)] /\ Without(list, keys) = h[Len(list)]
  <2>1. \E h : h = [k \in 0 .. Len(list) |-> IF k = 0 THEN <<>> ELSE IF list[Len(list) + 1 - k].key \in keys THEN h[k - 1] ELSE <<list[Len(list) + 1 - k]>> \o h[k - 1]]
    BY <1>4 DEF Turn, First, Step
  <2>2. \E h : h = [k \in 0 .. Len(list) |-> IF k = 0 THEN <<>> ELSE IF list[Len(list) + 1 - k].key \in keys THEN h[k - 1] ELSE <<list[Len(list) + 1 - k]>> \o h[k - 1]] /\ Without(list, keys) = h[Len(list)]
    BY <2>1 DEF Without
  <2> QED
    BY <2>2 DEF Turn, First, Step
<1>6. \A k \in 0 .. Len(list) : h[k] = Turn(h, k)
  BY <1>5
<1>7. h[0] = First
  BY <1>0, <1>6 DEF Turn
<1>8. \A k \in 1 .. Len(list) : h[k] = Step(h[k - 1], k)
  <2>1. \A k \in 1 .. Len(list) : k \in 0 .. Len(list) /\ k # 0
    BY <1>0
  <2> QED
    BY <1>6, <2>1 DEF Turn
<1> QED
  BY <1>5, <1>7, <1>8 DEF First, Step, PartsLeft

IsSeq(l) == \E S : l \in Seq(S)

LEMMA InFront ==
  ASSUME NEW l, IsSeq(l), NEW e
  PROVE  /\ IsSeq(<<e>> \o l) /\ Len(l) \in Nat /\ Len(<<e>> \o l) = Len(l) + 1
         /\ (<<e>> \o l)[1] = e /\ \A i \in 1 .. Len(l) : (<<e>> \o l)[i + 1] = l[i]
<1>1. PICK S : l \in Seq(S)
  BY DEF IsSeq
<1> DEFINE T == S \cup {e}
           m == <<e>> \o l
<1>2. <<e>> \in Seq(T) /\ l \in Seq(T) /\ Len(<<e>>) = 1 /\ <<e>>[1] = e
  BY <1>1
<1> DEFINE x == <<e>>
<1>3. x \in Seq(T) /\ Len(x) = 1 /\ x[1] = e
  BY <1>2
<1> HIDE DEF x, T
<1>4. /\ x \o l \in Seq(T) /\ Len(x \o l) = Len(x) + Len(l) /\ Len(l) \in Nat
      /\ \A i \in 1 .. Len(x) : (x \o l)[i] = x[i]
      /\ \A i \in 1 .. Len(l) : (x \o l)[Len(x) + i] = l[i]
  <2>1. x \in Seq(T) /\ l \in Seq(T)
    BY <1>2, <1>3
  <2> HIDE DEF x, T
  <2> QED
    BY <2>1
<1> DEFINE y == x \o l
<1>5. y \in Seq(T) /\ Len(y) = Len(l) + 1 /\ y[1] = e /\ Len(l) \in Nat
      /\ \A i \in 1 .. Len(l) : y[i + 1] = l[i]
  <2> HIDE DEF y
  <2>1. Len(y) = 1 + Len(l) /\ (\A i \in 1 .. 1 : y[i] = e) /\ Len(l) \in Nat
    BY <1>3, <1>4 DEF y
  <2>2. \A i \in 1 .. Len(l) : y[1 + i] = l[i]
    BY <1>3, <1>4 DEF y
  <2>3. \A i \in 1 .. Len(l) : 1 + i = i + 1
    OBVIOUS
  <2>4. y \in Seq(T)
    BY <1>4 DEF y
  <2>5. y[1] = e
    BY <2>1
  <2> QED
    BY <2>1, <2>2, <2>3, <2>4, <2>5
<1> QED
  BY <1>5 DEF x, y, IsSeq

\* What is left of a list with one element more in front.
LEMMA WithoutInFront ==
  ASSUME NEW l, IsSeq(l), NEW e, NEW keys
  PROVE  Gives(Without(<<e>> \o l, keys),
               IF e.key \in keys THEN Without(l, keys) ELSE <<e>> \o Without(l, keys))
<1> DEFINE m == <<e>> \o l
           L == Len(l)
<1>1. L \in Nat /\ Len(m) = L + 1 /\ m[1] = e /\ \A i \in 1 .. L : m[i + 1] = l[i]
  BY InFront
<1> HIDE DEF m
<1>2. PICK f : PartsLeft(f, l, keys)
  BY <1>1, WithoutIs
<1>3. PICK g : PartsLeft(g, m, keys)
  <2>1. Len(m) \in Nat
    BY <1>1
  <2> QED
    BY <2>1, WithoutIs
<1>4. /\ Without(l, keys) = f[L] /\ f[0] = <<>>
      /\ \A k \in 1 .. L : f[k] = IF l[L + 1 - k].key \in keys THEN f[k - 1]
                                  ELSE <<l[L + 1 - k]>> \o f[k - 1]
  BY <1>2 DEF PartsLeft
<1>5. /\ Without(m, keys) = g[L + 1] /\ g[0] = <<>>
      /\ \A k \in 1 .. L + 1 : g[k] = IF m[(L + 1) + 1 - k].key \in keys THEN g[k - 1]
                                      ELSE <<m[(L + 1) + 1 - k]>> \o g[k - 1]
  BY <1>1, <1>3 DEF PartsLeft
<1> HIDE DEF L
<1> DEFINE T == {k \in Nat : k <= L => f[k] = g[k]}
<1>6. 0 \in T
  BY <1>4, <1>5
<1>7. ASSUME NEW k \in T PROVE k + 1 \in T
  <2>1. SUFFICES ASSUME k + 1 <= L PROVE f[k + 1] = g[k + 1]
    OBVIOUS
  <2> DEFINE j == k + 1
  <2>2. j \in 1 .. L /\ j \in 1 .. L + 1 /\ j - 1 = k /\ f[k] = g[k]
    BY <1>1, <2>1
  <2>3. L + 1 - j \in 1 .. L /\ (L + 1) + 1 - j = (L + 1 - j) + 1
    BY <1>1, <2>2
  <2> HIDE DEF j
  <2>4. m[(L + 1) + 1 - j] = l[L + 1 - j]
    BY <1>1, <2>3
  <2>5. f[j] = g[j]
    BY <1>4, <1>5, <2>2, <2>4
  <2> QED
    BY <2>5 DEF j
<1>8. T = Nat
  <2>1. T \in SUBSET Nat
    OBVIOUS
  <2> HIDE DEF T
  <2> QED
    BY <1>6, <1>7, <2>1, EveryNumber
<1>9. f[L] = g[L]
  <2>1. L \in T /\ L <= L
    BY <1>1, <1>8
  <2> QED
    BY <2>1
<1>10. g[L + 1] = IF e.key \in keys THEN g[L] ELSE <<e>> \o g[L]
  <2> DEFINE j == L + 1
  <2>1. j \in 1 .. L + 1 /\ j - 1 = L /\ (L + 1) + 1 - j = 1
    BY <1>1
  <2> HIDE DEF j
  <2>2. g[j] = IF m[1].key \in keys THEN g[L] ELSE <<m[1]>> \o g[L]
    BY <1>5, <2>1
  <2> QED
    BY <1>1, <2>2 DEF j
<1> QED
  BY <1>4, <1>5, <1>9, <1>10 DEF Gives, m

\* The first element with a key, if there is one.
LEMMA FoundIs ==
  ASSUME NEW l, IsSeq(l), NEW key
  PROVE  /\ Found(l, key) = {} <=> \A i \in 1 .. Len(l) : l[i].key # key
         /\ \A i \in 1 .. Len(l) :
              l[i].key = key /\ (\A j \in 1 .. i - 1 : l[j].key # key)
                => Gives(ValueOf(l, key), l[i].val)
<1>1. PICK S : l \in Seq(S)
  BY DEF IsSeq
<1>2. DOMAIN l = 1 .. Len(l) /\ Len(l) \in Nat
  BY <1>1
<1>3. ASSUME NEW i \in 1 .. Len(l), l[i].key = key, \A j \in 1 .. i - 1 : l[j].key # key
      PROVE  Gives(ValueOf(l, key), l[i].val)
  <2>1. i \in Found(l, key)
    BY <1>2, <1>3 DEF Found
  <2>2. ASSUME NEW k \in Found(l, key) PROVE k = i
    <3>1. k \in 1 .. Len(l) /\ l[k].key = key /\ \A j \in 1 .. k - 1 : l[j].key # key
      BY <1>2 DEF Found
    <3>2. ~(k < i) /\ ~(i < k)
      <4>1. k < i => k \in 1 .. i - 1
        BY <3>1
      <4>2. i < k => i \in 1 .. k - 1
        BY <3>1
      <4> QED
        BY <1>3, <3>1, <4>1, <4>2
    <3> QED
      BY <3>1, <3>2
  <2>3. Found(l, key) = {i}
    BY <2>1, <2>2
  <2>4. (CHOOSE k \in {i} : TRUE) = i
    OBVIOUS
  <2> QED
    BY <2>3, <2>4 DEF ValueOf, Gives
<1>4. ASSUME \E i \in 1 .. Len(l) : l[i].key = key PROVE Found(l, key) # {}
  <2> DEFINE T == {i \in Nat : \A j \in 1 .. i : j <= Len(l) => l[j].key # key}
  <2>1. SUFFICES ASSUME Found(l, key) = {} PROVE FALSE
    OBVIOUS
  <2>2. 0 \in T
    OBVIOUS
  <2>3. ASSUME NEW i \in T PROVE i + 1 \in T
    <3> DEFINE k == i + 1
    <3>1. k \in Nat /\ \A j \in 1 .. k : j = k \/ j \in 1 .. i
      OBVIOUS
    <3>2. ASSUME k <= Len(l), l[k].key = key PROVE FALSE
      <4>1. k \in DOMAIN l
        BY <1>2, <3>2
      <4>2. \A j \in 1 .. (k - 1) : l[j].key # key
        <5>1. \A j \in 1 .. (k - 1) : j \in 1 .. i /\ j <= Len(l)
          BY <1>2, <3>2
        <5> QED
          BY <5>1
      <4> HIDE DEF k
      <4>3. k \in Found(l, key)
        BY <3>2, <4>1, <4>2 DEF Found
      <4> QED
        BY <2>1, <4>3
    <3> QED
      BY <3>1, <3>2
  <2>4. T = Nat
    <3>1. T \in SUBSET Nat
      OBVIOUS
    <3> HIDE DEF T
    <3> QED
      BY <2>2, <2>3, <3>1, EveryNumber
  <2>5. PICK i \in 1 .. Len(l) : l[i].key = key
    BY <1>4
  <2>6. i \in T /\ i \in 1 .. i /\ i <= Len(l)
    BY <1>2, <2>4
  <2> QED
    BY <2>5, <2>6
<1>5. ASSUME \A i \in 1 .. Len(l) : l[i].key # key PROVE Found(l, key) = {}
  BY <1>2, <1>5 DEF Found
<1> QED
  BY <1>3, <1>4, <1>5

LEMMA ValueInFront ==
  ASSUME NEW l, IsSeq(l), NEW e, NEW key
  PROVE  Gives(ValueOf(<<e>> \o l, key), IF e.key = key THEN e.val ELSE ValueOf(l, key))
<1> DEFINE m == <<e>> \o l
<1>1. /\ IsSeq(m) /\ Len(l) \in Nat /\ Len(m) = Len(l) + 1
      /\ m[1] = e /\ \A i \in 1 .. Len(l) : m[i + 1] = l[i]
  BY InFront
<1> HIDE DEF m
<1>2. CASE e.key = key
  <2>1. 1 \in 1 .. Len(m) /\ m[1].key = key /\ \A j \in 1 .. 1 - 1 : m[j].key # key
    BY <1>1, <1>2
  <2>2. Gives(ValueOf(m, key), m[1].val)
    BY <1>1, <2>1, FoundIs
  <2> QED
    BY <1>1, <1>2, <2>2 DEF Gives, m
<1>3. CASE e.key # key /\ Found(l, key) = {}
  <2>1. \A i \in 1 .. Len(l) : l[i].key # key
    BY <1>3, FoundIs
  <2>2. ASSUME NEW i \in 1 .. Len(m) PROVE m[i].key # key
    <3>1. i = 1 \/ (i - 1 \in 1 .. Len(l) /\ (i - 1) + 1 = i)
      BY <1>1
    <3> QED
      BY <1>1, <1>3, <2>1, <3>1
  <2>3. Found(m, key) = {}
    BY <1>1, <2>2, FoundIs
  <2>4. ValueOf(m, key) = ValueOf(l, key)
    BY <1>3, <2>3 DEF ValueOf
  <2> QED
    BY <1>3, <2>4 DEF Gives, m
<1>4. CASE e.key # key /\ Found(l, key) # {}
  <2>1. PICK i : i \in Found(l, key)
    BY <1>4
  <2>2. i \in 1 .. Len(l) /\ l[i].key = key /\ \A j \in 1 .. i - 1 : l[j].key # key
    <3>1. DOMAIN l = 1 .. Len(l)
      BY DEF IsSeq
    <3> QED
      BY <2>1, <3>1 DEF Found
  <2>3. Gives(ValueOf(l, key), l[i].val)
    BY <2>2, FoundIs
  <2> DEFINE k == i + 1
  <2>4. k \in 1 .. Len(m) /\ m[k] = l[i]
    BY <1>1, <2>2
  <2>5. ASSUME NEW j \in 1 .. k - 1 PROVE m[j].key # key
    <3>1. j = 1 \/ (j - 1 \in 1 .. i - 1 /\ j - 1 \in 1 .. Len(l) /\ (j - 1) + 1 = j)
      BY <1>1, <2>2
    <3> QED
      BY <1>1, <1>4, <2>2, <3>1
  <2> HIDE DEF k
  <2>6. Gives(ValueOf(m, key), m[k].val)
    BY <1>1, <2>2, <2>4, <2>5, FoundIs
  <2> QED
    BY <1>4, <2>3, <2>4, <2>6 DEF Gives, m
<1> QED
  BY <1>2, <1>3, <1>4

\* Two lists with the same elements, in order, under all but some keys.
Same(l1, l2, keys) ==
  /\ IsSeq(l1) /\ IsSeq(l2)
  /\ Without(l1, keys) = Without(l2, keys)
  /\ \A key : key \notin keys => ValueOf(l1, key) = ValueOf(l2, key)

LEMMA SameInFront ==
  ASSUME NEW l1, NEW l2, NEW keys, Same(l1, l2, keys), NEW x
  PROVE  /\ Same(<<x>> \o l1, <<x>> \o l2, keys)
         /\ x.key \in keys => Same(l1, <<x>> \o l2, keys)
         /\ \A y : y.key = x.key /\ x.key \in keys => Same(<<y>> \o l1, <<x>> \o l2, keys)
<1>1. /\ IsSeq(l1) /\ IsSeq(l2) /\ Without(l1, keys) = Without(l2, keys)
      /\ \A key : key \notin keys => ValueOf(l1, key) = ValueOf(l2, key)
  BY DEF Same
<1> DEFINE M(l, e) == <<e>> \o l
<1>2. ASSUME NEW l, IsSeq(l), NEW e
      PROVE  /\ IsSeq(M(l, e))
             /\ Without(M(l, e), keys) = IF e.key \in keys THEN Without(l, keys)
                                         ELSE <<e>> \o Without(l, keys)
  <2>1. IsSeq(<<e>> \o l)
    BY <1>2, InFront
  <2>2. Gives(Without(<<e>> \o l, keys), IF e.key \in keys THEN Without(l, keys)
                                         ELSE <<e>> \o Without(l, keys))
    BY <1>2, WithoutInFront
  <2>4. Without(<<e>> \o l, keys) = IF e.key \in keys THEN Without(l, keys)
                                    ELSE <<e>> \o Without(l, keys)
    BY <2>2 DEF Gives
  <2> QED
    BY <2>1, <2>4
<1>v. ASSUME NEW l, IsSeq(l), NEW e, NEW key
      PROVE  ValueOf(M(l, e), key) = IF e.key = key THEN e.val ELSE ValueOf(l, key)
  <2>1. Gives(ValueOf(<<e>> \o l, key), IF e.key = key THEN e.val ELSE ValueOf(l, key))
    BY <1>v, ValueInFront
  <2> QED
    BY <2>1 DEF Gives
<1> HIDE DEF M
<1>3. Same(M(l1, x), M(l2, x), keys)
  <2>1. IsSeq(M(l1, x)) /\ IsSeq(M(l2, x))
    BY <1>1, <1>2
  <2>2. Without(M(l1, x), keys) = Without(M(l2, x), keys)
    BY <1>1, <1>2
  <2>3. ASSUME NEW key, key \notin keys PROVE ValueOf(M(l1, x), key) = ValueOf(M(l2, x), key)
    <3>1. ValueOf(l1, key) = ValueOf(l2, key)
      BY <1>1, <2>3
    <3> QED
      BY <1>1, <1>v, <3>1
  <2> QED
    BY <2>1, <2>2, <2>3 DEF Same
<1>4. ASSUME x.key \in keys PROVE Same(l1, M(l2, x), keys)
  <2>1. IsSeq(l1) /\ IsSeq(M(l2, x)) /\ Without(l1, keys) = Without(M(l2, x), keys)
    BY <1>1, <1>2, <1>4
  <2>2. ASSUME NEW key, key \notin keys PROVE ValueOf(l1, key) = ValueOf(M(l2, x), key)
    <3>1. ValueOf(l1, key) = ValueOf(l2, key) /\ x.key # key
      BY <1>1, <1>4, <2>2
    <3> QED
      BY <1>1, <1>v, <3>1
  <2> QED
    BY <2>1, <2>2 DEF Same
<1>5. ASSUME NEW y, y.key = x.key, x.key \in keys PROVE Same(M(l1, y), M(l2, x), keys)
  <2>1. IsSeq(M(l1, y)) /\ IsSeq(M(l2, x))
    BY <1>1, <1>2
  <2>2. Without(M(l1, y), keys) = Without(M(l2, x), keys)
    BY <1>1, <1>2, <1>5
  <2>3. ASSUME NEW key, key \notin keys PROVE ValueOf(M(l1, y), key) = ValueOf(M(l2, x), key)
    <3>1. ValueOf(l1, key) = ValueOf(l2, key) /\ x.key # key
      BY <1>1, <1>5, <2>3
    <3> QED
      BY <1>1, <1>5, <1>v, <3>1
  <2> QED
    BY <2>1, <2>2, <2>3 DEF Same
<1> QED
  BY <1>3, <1>4, <1>5 DEF M

\* The first k elements of g, the last one first.
Reversed(g, k) == [i \in 1 .. k |-> g[k + 1 - i]]

LEMMA ReversedGrows ==
  ASSUME NEW g, NEW k \in Nat
  PROVE  /\ IsSeq(Reversed(g, k))
         /\ k # 0 => Gives(<<g[k]>> \o Reversed(g, k - 1), Reversed(g, k))
<1> DEFINE S == {g[i] : i \in 1 .. k}
<1>1. ASSUME NEW n \in Nat, n <= k
      PROVE  /\ Reversed(g, n) \in Seq(S) /\ Len(Reversed(g, n)) = n
             /\ \A i \in 1 .. n : Reversed(g, n)[i] = g[n + 1 - i]
  <2>1. \A i \in 1 .. n : g[n + 1 - i] \in S
    <3> TAKE i \in 1 .. n
    <3>1. n + 1 - i \in 1 .. k
      BY <1>1
    <3> QED
      BY <3>1
  <2> HIDE DEF S
  <2> QED
    BY <1>1, <2>1 DEF Reversed
<1>2. IsSeq(Reversed(g, k))
  <2>1. Reversed(g, k) \in Seq(S)
    <3>1. k <= k
      OBVIOUS
    <3> HIDE DEF S
    <3> QED
      BY <1>1, <3>1
  <2> QED
    BY <2>1 DEF IsSeq
<1>3. ASSUME k # 0 PROVE <<g[k]>> \o Reversed(g, k - 1) = Reversed(g, k)
  <2> DEFINE a == Reversed(g, k - 1)
             b == Reversed(g, k)
             x == g[k]
             m == <<x>> \o a
  <2>1. k - 1 \in Nat /\ k - 1 <= k /\ k <= k /\ k \in 1 .. k
    BY <1>3
  <2>2. /\ a \in Seq(S) /\ Len(a) = k - 1 /\ \A i \in 1 .. k - 1 : a[i] = g[(k - 1) + 1 - i]
        /\ b \in Seq(S) /\ Len(b) = k /\ \A i \in 1 .. k : b[i] = g[k + 1 - i]
    <3> HIDE DEF S
    <3> QED
      BY <1>1, <2>1
  <2>3. x \in S
    BY <2>1
  <2> HIDE DEF a, b, x
  <2>4. IsSeq(a)
    BY <2>2 DEF IsSeq
  <2>5. /\ Len(m) = Len(a) + 1 /\ m[1] = x /\ \A i \in 1 .. Len(a) : m[i + 1] = a[i]
    <3> HIDE DEF S
    <3> QED
      BY <2>4, InFront
  <2>6. m \in Seq(S)
    <3> HIDE DEF S
    <3> QED
      BY <2>2, <2>3
  <2> HIDE DEF m, S
  <2>7. Len(m) = Len(b)
    BY <2>1, <2>2, <2>5
  <2>8. ASSUME NEW i \in 1 .. Len(m) PROVE m[i] = b[i]
    <3>1. i \in 1 .. k
      BY <2>2, <2>7
    <3>2. CASE i = 1
      <4>1. k + 1 - 1 = k
        OBVIOUS
      <4> QED
        BY <2>2, <2>5, <3>1, <3>2, <4>1 DEF x
    <3>3. CASE i # 1
      <4> DEFINE j == i - 1
      <4>1. j \in 1 .. k - 1 /\ j + 1 = i /\ (k - 1) + 1 - j = k + 1 - i
        BY <3>1, <3>3
      <4> HIDE DEF j
      <4>2. m[j + 1] = a[j] /\ a[j] = g[(k - 1) + 1 - j] /\ b[i] = g[k + 1 - i]
        BY <2>2, <2>5, <3>1, <4>1
      <4> QED
        BY <4>1, <4>2
    <3> QED
      BY <3>2, <3>3
  <2>9. m = b
    BY <2>2, <2>6, <2>7, <2>8, SameSequence
  <2> QED
    BY <2>9 DEF m, a, b, x
<1> QED
  BY <1>2, <1>3 DEF Gives

ListFits(list, K, S, strKey) ==
  /\ IsSeq(list) /\ Len(list) \in Nat
  /\ \A i \in 1 .. Len(list) :
       list[i] \in ExtraIn(K, S) /\ KeyFits(strKey, list[i].key)

LEMMA ElementsGrow ==
  ASSUME NEW K, NEW S, NEW list, NEW strKey, ListFits(list, K, S, strKey),
         NEW put, MapsGrow(S, put), NEW w, NEW f, ElementsPut(f, w, list, strKey, put)
  PROVE  /\ Stepwise(f, Len(list))
         /\ \A k \in 1 .. Len(list) : Sound(f[k - 1]) /\ f[k].ok
              => Len(f[k].bytes) >= Len(f[k - 1].bytes) + 2
<1> SUFFICES ASSUME NEW k \in 1 .. Len(list), Sound(f[k - 1])
             PROVE  /\ Grown(f[k - 1], f[k])
                    /\ f[k].ok => Len(f[k].bytes) > Len(f[k - 1].bytes)
                    /\ f[k].ok => Len(f[k].bytes) >= Len(f[k - 1].bytes) + 2
  BY DEF Stepwise
<1> DEFINE a == f[k - 1]
           e == list[k]
<1>1. e \in ExtraIn(K, S) /\ KeyFits(strKey, e.key) /\ Sound(a)
  BY DEF ListFits
<1>2. f[k] = PutElement(a, e, strKey, put)
  BY DEF ElementsPut
<1> HIDE DEF a, e
<1>3. /\ Grown(a, PutElement(a, e, strKey, put))
      /\ PutElement(a, e, strKey, put).ok
           => Len(PutElement(a, e, strKey, put).bytes) >= Len(a.bytes) + 2
  BY <1>1, ElementGrows
<1>4. a.bytes \in Seq(Byte) /\ f[k].bytes \in Seq(Byte)
  BY <1>2, <1>3 DEF Grown, Sound, WriterState
<1>5. Len(a.bytes) \in Nat /\ Len(f[k].bytes) \in Nat
  BY <1>4
<1>6. f[k].ok => Len(f[k].bytes) >= Len(a.bytes) + 2
  BY <1>2, <1>3
<1>7. f[k].ok => Len(f[k].bytes) > Len(a.bytes)
  BY <1>5, <1>6
<1> QED
  BY <1>2, <1>3, <1>6, <1>7 DEF a

\* Elements of two bytes each.
LEMMA GrownByTwo ==
  ASSUME NEW n \in Nat, NEW f, Sound(f[0]), Stepwise(f, n), f[n].ok,
         \A k \in 1 .. n : Sound(f[k - 1]) /\ f[k].ok
              => Len(f[k].bytes) >= Len(f[k - 1].bytes) + 2
  PROVE  Len(f[0].bytes) + 2 * n <= Len(f[n].bytes)
<1>1. \A i \in 0 .. n : Sound(f[i]) /\ Grown(f[0], f[i])
  BY GrownByOne
<1> DEFINE Good(i) == f[i].ok => Len(f[0].bytes) + 2 * i <= Len(f[i].bytes)
           T == {i \in Nat : i <= n => Good(i)}
<1>2. \A i \in 0 .. n : Len(f[i].bytes) \in Nat
  <2>1. \A i \in 0 .. n : f[i].bytes \in Seq(Byte)
    BY <1>1 DEF Sound, WriterState
  <2> QED
    BY <2>1
<1>3. 0 \in T
  <2>1. 0 \in 0 .. n
    OBVIOUS
  <2>2. Len(f[0].bytes) \in Nat
    BY <1>2, <2>1
  <2>3. Good(0)
    BY <2>2
  <2> HIDE DEF Good
  <2> QED
    BY <2>3
<1>4. ASSUME NEW i \in T PROVE i + 1 \in T
  <2> DEFINE k == i + 1
  <2> HIDE DEF Good
  <2>0. SUFFICES ASSUME k <= n PROVE Good(k)
    OBVIOUS
  <2>1. SUFFICES ASSUME f[k].ok PROVE Len(f[0].bytes) + 2 * k <= Len(f[k].bytes)
    BY DEF Good
  <2>2. i \in Nat /\ i <= n /\ k \in 1 .. n /\ k - 1 = i /\ i \in 0 .. n /\ k \in 0 .. n
        /\ 0 \in 0 .. n /\ Good(i)
    BY <2>0
  <2> HIDE DEF k
  <2>3. Sound(f[i]) /\ Grown(f[i], f[k])
    BY <1>1, <2>2 DEF Stepwise
  <2>4. f[i].ok
    BY <2>1, <2>3 DEF Grown
  <2>5. Len(f[0].bytes) + 2 * i <= Len(f[i].bytes)
    BY <2>2, <2>4 DEF Good
  <2>6. Len(f[k].bytes) >= Len(f[i].bytes) + 2
    BY <2>1, <2>2, <2>3
  <2>7. Len(f[0].bytes) \in Nat /\ Len(f[i].bytes) \in Nat /\ Len(f[k].bytes) \in Nat
    BY <1>2, <2>2
  <2> DEFINE x == Len(f[0].bytes)
             y == Len(f[i].bytes)
             z == Len(f[k].bytes)
  <2>8. x \in Nat /\ y \in Nat /\ z \in Nat /\ x + 2 * i <= y /\ z >= y + 2 /\ k = i + 1 /\ i \in Nat
    BY <2>2, <2>5, <2>6, <2>7 DEF k
  <2> HIDE DEF x, y, z
  <2>9. x + 2 * k <= z
    BY <2>8
  <2> QED
    BY <2>9 DEF x, z
<1>5. T = Nat
  <2>1. T \in SUBSET Nat
    OBVIOUS
  <2> HIDE DEF T
  <2> QED
    BY <1>3, <1>4, <2>1, EveryNumber
<1> HIDE DEF Good
<1>6. Good(n)
  <2>1. n \in T
    <3> HIDE DEF T
    <3> QED
      BY <1>5
  <2> QED
    BY <2>1
<1> QED
  BY <1>6 DEF Good

\* r has read what w2 wrote: all that was in list if all is well, and what is under
\* other keys if all under those was fine.
Listed(s, w2, r, list, well, keys, fine) ==
  /\ r = After(s, w2, r.val)
  /\ well => r.val = list
  /\ IsSeq(r.val)
  /\ fine => Same(r.val, list, keys)

\* What a list arrives as.
Arrivals(list, arrived) == [i \in 1 .. Len(list) |-> ElementArrived(list[i], arrived)]
LEMMA ListArrivedIs ==
  ASSUME NEW list, Len(list) \in Nat, NEW arrived
  PROVE  ListArrived(list, arrived) = Reversed(Arrivals(list, arrived), Len(list))
<1>1. \A i \in 1 .. Len(list) :
        ElementArrived(list[Len(list) + 1 - i], arrived) = Arrivals(list, arrived)[Len(list) + 1 - i]
  <2> TAKE i \in 1 .. Len(list)
  <2>1. Len(list) + 1 - i \in 1 .. Len(list)
    OBVIOUS
  <2> QED
    BY <2>1 DEF Arrivals
<1>2. ListArrived(list, arrived)
        = [i \in 1 .. Len(list) |-> ElementArrived(list[Len(list) + 1 - i], arrived)]
  BY DEF ListArrived
<1>3. Reversed(Arrivals(list, arrived), Len(list))
        = [i \in 1 .. Len(list) |-> Arrivals(list, arrived)[Len(list) + 1 - i]]
  BY DEF Reversed
<1> QED
  BY <1>1, <1>2, <1>3

\* Nothing is too long in list, or only what has one of the keys.
AllShort(list, long) == \A i \in 1 .. Len(list) : ~LongIn(list[i], long)
ShortOr(list, long, keys) ==
  \A i \in 1 .. Len(list) : LongIn(list[i], long) => list[i].key \in keys

\* The elements of a list, read as they were written.
LEMMA ElementsAreRead ==
  ASSUME NEW K, NEW S, NEW list, NEW strKey, ListFits(list, K, S, strKey),
         NEW put, NEW arrived, NEW long, NEW c, NEW N,
         MapsGrow(S, put), MapsBack(S, put, arrived, long, c, N),
         NEW w, Sound(w), w.cap <= 513, NEW s, Held(PutElements(w, list, strKey, put), s),
         NEW n \in 0 .. N, Len(s) - Len(w.bytes) <= n + 1, NEW v, NEW keys
  PROVE  /\ Held(w, s) /\ Grown(w, PutElements(w, list, strKey, put))
         /\ Len(w.bytes) + 2 * Len(list) <= Len(PutElements(w, list, strKey, put).bytes)
         /\ Listed(s, PutElements(w, list, strKey, put),
                   TakeElements(After(s, w, v), Len(list), strKey, c[n]),
                   ListArrived(list, arrived),
                   ~PutElements(w, list, strKey, put).lost /\ AllShort(list, long), keys,
                   ~PutElements(w, list, strKey, put).lost /\ ShortOr(list, long, keys))
<1> DEFINE L == Len(list)
           r == TakeElements(After(s, w, v), L, strKey, c[n])
           g == Arrivals(list, arrived)
<1>1. L \in Nat
  BY DEF ListFits
<1>f. PICK f : ElementsPut(f, w, list, strKey, put)
  BY <1>1, PutElementsIs
<1>p. /\ PutElements(w, list, strKey, put) = f[L] /\ f[0] = w
      /\ \A k \in 1 .. L : f[k] = PutElement(f[k - 1], list[k], strKey, put)
  BY <1>f DEF ElementsPut
<1> DEFINE well == ~f[L].lost /\ AllShort(list, long)
           fine == ~f[L].lost /\ ShortOr(list, long, keys)
<1>2. /\ Stepwise(f, L)
      /\ \A k \in 1 .. L : Sound(f[k - 1]) /\ f[k].ok
           => Len(f[k].bytes) >= Len(f[k - 1].bytes) + 2
  BY <1>f, ElementsGrow
<1>s. Sound(f[0]) /\ Held(f[L], s) /\ f[L].ok
  BY <1>p DEF Held
<1>a. PICK a : ElementsTaken(a, After(s, w, v), L, strKey, c[n])
  <2> HIDE DEF L
  <2> QED
    BY <1>1, TakeElementsIs
<1>3. /\ r = a[L]
      /\ a[0] = WithVal(After(s, w, v), <<>>)
      /\ \A k \in 1 .. L :
           a[k] = IF a[k - 1].ok THEN TakeElement(a[k - 1], strKey, c[n]) ELSE a[k - 1]
  BY <1>a DEF ElementsTaken
<1>4. \A k \in 1 .. L : g[k] = ElementArrived(list[k], arrived) /\ g[k].key = list[k].key
  BY ElementArrivedIs DEF Arrivals
<1> HIDE DEF r, well, fine, g
<1>6. \A i \in 0 .. L :
        /\ Sound(f[i]) /\ Grown(f[i], f[L]) /\ Held(f[i], s)
        /\ Len(f[i].bytes) \in Nat /\ Len(f[L].bytes) \in Nat
        /\ Len(f[i].bytes) + (L - i) <= Len(f[L].bytes)
  <2>1. Held(f[L], s) /\ Sound(f[0])
    BY <1>s
  <2> HIDE DEF L
  <2> QED
    BY <1>1, <1>2, <2>1, GrownToLast
<1>0. \A i \in 0 .. L : Grown(w, f[i])
  <2> HIDE DEF L
  <2> QED
    BY <1>1, <1>2, <1>p, <1>s, GrownByOne
<1> DEFINE P(k) == /\ a[k] = After(s, f[k], a[k].val) /\ IsSeq(a[k].val)
                   /\ well => a[k].val = Reversed(g, k)
                   /\ fine => Same(a[k].val, Reversed(g, k), keys)
<1>7. P(0)
  <2>1. a[0] = After(s, f[0], <<>>)
    BY <1>3, <1>p, AfterWithVal
  <2>2. a[0].val = <<>>
    BY <2>1, AfterIs
  <2>3. Reversed(g, 0) = <<>>
    BY DEF Reversed
  <2>4. IsSeq(<<>>)
    <3>1. <<>> \in Seq({})
      OBVIOUS
    <3> QED
      BY <3>1 DEF IsSeq
  <2>5. Same(<<>>, <<>>, keys)
    BY <2>4 DEF Same
  <2> QED
    BY <2>1, <2>2, <2>3, <2>4, <2>5
<1>8. ASSUME NEW k \in 1 .. L, P(k - 1) PROVE P(k)
  <2> DEFINE x == f[k - 1]
             e == list[k]
             w2 == PutElement(x, e, strKey, put)
             l == a[k - 1].val
             q == TakeElement(After(s, x, l), strKey, c[n])
             y == ElementArrived(e, arrived)
             good == ~w2.lost /\ ~LongIn(e, long)
  <2>1. k - 1 \in 0 .. L /\ k \in 0 .. L /\ k \in Nat /\ k # 0
    BY <1>1
  <2>2. f[k] = w2
    BY <1>p
  <2>3. a[k] = q
    <3>1. a[k - 1].ok
      BY <1>8, AfterIs
    <3> QED
      BY <1>3, <1>8, <3>1
  <2>4. Sound(x) /\ Held(w2, s) /\ Held(x, s) /\ Grown(w, x) /\ Len(x.bytes) \in Nat
    BY <1>0, <1>6, <2>1, <2>2
  <2>5. Len(s) - Len(x.bytes) <= n + 1 /\ x.cap <= 513
    <3>1. Len(w.bytes) <= Len(x.bytes) /\ x.cap = w.cap
      BY <2>4 DEF Grown, Starts
    <3>2. Len(w.bytes) \in Nat /\ Len(s) \in Nat
      <4>1. w \in WriterState /\ s \in Seq(Byte)
        BY <2>4 DEF Held, Sound
      <4>2. w.bytes \in Seq(Byte)
        BY <4>1 DEF WriterState
      <4> QED
        BY <4>1, <4>2
    <3> DEFINE i == Len(w.bytes)
               j == Len(x.bytes)
               m == Len(s)
    <3>3. n \in Int
      OBVIOUS
    <3>4. m - i <= n + 1
      OBVIOUS
    <3>5. i \in Nat /\ j \in Nat /\ i <= j /\ m \in Nat
      BY <2>4, <3>1, <3>2
    <3> HIDE DEF i, j, m
    <3>6. m - j <= n + 1
      BY <3>3, <3>4, <3>5
    <3> QED
      BY <3>1, <3>6 DEF m, j
  <2>6. e \in ExtraIn(K, S) /\ KeyFits(strKey, e.key)
    BY DEF ListFits
  <2>7. Kept(s, w2, q, l, y, good)
    <3> HIDE DEF x, l, e
    <3>1. Held(PutElement(x, e, strKey, put), s)
      BY <2>4
    <3>2. Kept(s, PutElement(x, e, strKey, put), TakeElement(After(s, x, l), strKey, c[n]),
               l, ElementArrived(e, arrived),
               ~PutElement(x, e, strKey, put).lost /\ ~LongIn(e, long))
      BY <2>4, <2>5, <2>6, <3>1, ElementIsRead
    <3> QED
      BY <3>2
  <2>8. g[k] = y /\ y.key = e.key
    BY <1>4
  <2>9. IsSeq(Reversed(g, k)) /\ Gives(<<g[k]>> \o Reversed(g, k - 1), Reversed(g, k))
    BY <2>1, ReversedGrows
  <2>10. /\ well => good
         /\ fine => good \/ e.key \in keys
    <3>1. ~f[L].lost => ~w2.lost
      <4>1. Grown(f[k], f[L])
        BY <1>6, <2>1
      <4> QED
        BY <2>2, <4>1 DEF Grown
    <3>2. AllShort(list, long) => ~LongIn(e, long)
      BY DEF AllShort
    <3>3. ShortOr(list, long, keys) => (LongIn(e, long) => e.key \in keys)
      BY DEF ShortOr
    <3> HIDE DEF w2, e
    <3> QED
      BY <3>1, <3>2, <3>3 DEF well, fine
  <2>11. a[k - 1] = After(s, f[k - 1], l) /\ IsSeq(l)
         /\ (well => l = Reversed(g, k - 1)) /\ (fine => Same(l, Reversed(g, k - 1), keys))
    BY <1>8
  <2> HIDE DEF x, w2, q, good, y, l, e
  <2>12. /\ q = After(s, w2, q.val)
         /\ good => q.val = <<y>> \o l
         /\ q.val = l \/ \E z : z.key = y.key /\ q.val = <<z>> \o l
    BY <2>7 DEF Kept
  <2>13. a[k] = After(s, f[k], a[k].val)
    BY <2>2, <2>3, <2>12
  <2>14. IsSeq(q.val)
    <3>1. CASE q.val = l
      BY <2>11, <3>1
    <3>2. ASSUME NEW z, q.val = <<z>> \o l PROVE IsSeq(q.val)
      <4>1. IsSeq(<<z>> \o l)
        BY <2>11, InFront
      <4> QED
        BY <3>2, <4>1
    <3> QED
      BY <2>12, <3>1, <3>2
  <2>15. well => q.val = Reversed(g, k)
    BY <2>8, <2>9, <2>10, <2>11, <2>12 DEF Gives
  <2>16. ASSUME fine PROVE Same(q.val, Reversed(g, k), keys)
    <3> DEFINE h == Reversed(g, k - 1)
               h2 == Reversed(g, k)
    <3>1. Same(l, h, keys) /\ h2 = <<y>> \o h
      BY <2>8, <2>9, <2>11, <2>16 DEF Gives
    <3> HIDE DEF h, h2
    <3>2. /\ Same(<<y>> \o l, <<y>> \o h, keys)
          /\ y.key \in keys => Same(l, <<y>> \o h, keys)
          /\ \A z : z.key = y.key /\ y.key \in keys => Same(<<z>> \o l, <<y>> \o h, keys)
      BY <3>1, SameInFront
    <3>3. CASE good
      BY <2>12, <3>1, <3>2, <3>3 DEF h2
    <3>4. CASE ~good
      <4>1. y.key \in keys
        BY <2>8, <2>10, <2>16, <3>4
      <4>2. CASE q.val = l
        BY <3>1, <3>2, <4>1, <4>2 DEF h2
      <4>3. ASSUME NEW z, z.key = y.key, q.val = <<z>> \o l PROVE Same(q.val, h2, keys)
        <5>1. Same(<<z>> \o l, <<y>> \o h, keys)
          BY <3>2, <4>1, <4>3
        <5> QED
          BY <3>1, <4>3, <5>1
      <4> QED
        BY <2>12, <4>2, <4>3 DEF h2
    <3> QED
      BY <3>3, <3>4
  <2> QED
    BY <2>3, <2>13, <2>14, <2>15, <2>16
<1> DEFINE T == {k \in Nat : k <= L => P(k)}
<1> HIDE DEF P
<1>9. 0 \in T
  BY <1>7
<1>10. ASSUME NEW k \in T PROVE k + 1 \in T
  <2>1. SUFFICES ASSUME k + 1 <= L PROVE P(k + 1)
    OBVIOUS
  <2>2. k \in Nat /\ k <= L /\ k + 1 \in 1 .. L /\ (k + 1) - 1 = k
    BY <1>1, <2>1
  <2>3. P(k)
    BY <2>2
  <2> QED
    BY <1>8, <2>2, <2>3
<1>11. T = Nat
  <2>1. T \in SUBSET Nat
    OBVIOUS
  <2> HIDE DEF T
  <2> QED
    BY <1>9, <1>10, <2>1, EveryNumber
<1>12. P(L)
  <2>1. L \in T /\ L <= L
    BY <1>1, <1>11
  <2> QED
    BY <2>1
<1>13. Listed(s, f[L], r, Reversed(g, L), well, keys, fine)
  BY <1>3, <1>12 DEF P, Listed
<1>14. Reversed(g, L) = ListArrived(list, arrived)
  BY <1>1, ListArrivedIs DEF g
<1>15. Held(w, s) /\ Grown(w, f[L]) /\ Len(w.bytes) + 2 * L <= Len(f[L].bytes)
  <2>1. 0 \in 0 .. L
    BY <1>1
  <2>2. Held(f[0], s) /\ Grown(f[0], f[L])
    BY <1>6, <2>1
  <2>3. Len(f[0].bytes) + 2 * L <= Len(f[L].bytes)
    <3> HIDE DEF L
    <3> QED
      BY <1>1, <1>2, <1>s, GrownByTwo
  <2> QED
    BY <1>p, <2>2, <2>3
<1> QED
  BY <1>p, <1>13, <1>14, <1>15 DEF well, fine, r

\* How PutList and TakeList begin.
PutHead(w, list, strKey) ==
  Put(PutUnchecked(w, <<Len(list) % 256>>), <<IF strKey THEN 1 ELSE 0>>)

LEMMA HeadGrows ==
  ASSUME NEW w, Sound(w), NEW list, Len(list) \in Nat, NEW strKey
  PROVE  /\ Grown(w, PutHead(w, list, strKey)) /\ Sound(PutHead(w, list, strKey))
         /\ PutHead(w, list, strKey).ok
              => /\ Len(PutHead(w, list, strKey).bytes) = Len(w.bytes) + 2
                 /\ PutUnchecked(w, <<Len(list) % 256>>).ok
                 /\ Len(w.bytes) + 1 <= w.cap
<1> DEFINE b == Len(list) % 256
           k == IF strKey THEN 1 ELSE 0
           t == <<b>>
           t2 == <<k>>
           p == PutUnchecked(w, t)
           q == Put(p, t2)
<1>1. b \in Byte /\ k \in Byte
  <2>1. b \in Int /\ 0 <= b /\ b <= 255
    OBVIOUS
  <2>2. b \in Byte
    BY <2>1, SmallIsByte
  <2>3. k \in Byte
    BY SmallIsByte
  <2> QED
    BY <2>2, <2>3
<1>2. t \in Seq(Byte) /\ Len(t) = 1 /\ Len(t) \in {1, 2} /\ t2 \in Seq(Byte) /\ Len(t2) = 1
  <2> HIDE DEF b, k
  <2> QED
    BY <1>1, ByteAlone
<1> HIDE DEF t, t2
<1>3. /\ Grown(w, p) /\ Sound(p) /\ p.ok = w.ok
      /\ w.ok => IF Len(w.bytes) + Len(t) <= w.cap THEN Added(w, p, t)
                 ELSE p.lost /\ p.bytes = w.bytes
  BY <1>2, PutUncheckedGrows DEF Grown
<1> HIDE DEF p
<1>4. /\ Grown(p, q) /\ Sound(q)
      /\ q.ok => Added(p, q, t2) /\ Len(p.bytes) < p.cap
  BY <1>2, <1>3, PutGrows DEF Grown
<1>5. Grown(w, q)
  <2> HIDE DEF q
  <2> QED
    BY <1>3, <1>4, GrownIsTransitive
<1> HIDE DEF q
<1>6. ASSUME q.ok PROVE p.ok /\ Len(q.bytes) = Len(w.bytes) + 2 /\ Len(w.bytes) + 1 <= w.cap
  <2>1. p.ok /\ w.ok
    BY <1>3, <1>4, <1>6 DEF Grown
  <2>2. Len(w.bytes) \in Nat /\ w.cap \in Nat
    BY DEF Sound, WriterState
  <2>3. CASE Len(w.bytes) + Len(t) <= w.cap
    <3>1. Len(p.bytes) = Len(w.bytes) + Len(t) /\ Len(q.bytes) = Len(p.bytes) + Len(t2)
      BY <1>3, <1>4, <1>6, <2>1, <2>3 DEF Added
    <3> QED
      BY <1>2, <2>1, <2>2, <2>3, <3>1
  <2>4. CASE ~(Len(w.bytes) + Len(t) <= w.cap)
    <3>1. p.bytes = w.bytes /\ Len(p.bytes) < p.cap /\ p.cap = w.cap
      BY <1>3, <1>4, <1>6, <2>1, <2>4 DEF Grown
    <3>2. Len(w.bytes) < w.cap
      BY <3>1
    <3> QED
      BY <1>2, <2>2, <2>4, <3>2
  <2> QED
    BY <2>3, <2>4
<1>7. PutHead(w, list, strKey) = q
  BY DEF PutHead, q, p, t, t2
<1> QED
  BY <1>4, <1>5, <1>6, <1>7 DEF p, t

LEMMA PutListIs ==
  ASSUME NEW w, NEW list, NEW strKey, NEW put
  PROVE  /\ list = <<>> => PutList(w, list, strKey, put) = Refused(w)
         /\ list # <<>> => PutList(w, list, strKey, put)
                             = PutElements(PutHead(w, list, strKey), list, strKey, put)
BY DEF PutList, PutHead

LEMMA ListGrows ==
  ASSUME NEW K, NEW S, NEW list, NEW strKey, ListFits(list, K, S, strKey),
         NEW put, MapsGrow(S, put), NEW w, Sound(w)
  PROVE  Grown(w, PutList(w, list, strKey, put))
<1> DEFINE L == Len(list)
           q == PutHead(w, list, strKey)
           w2 == PutElements(q, list, strKey, put)
<1>1. L \in Nat
  BY DEF ListFits
<1>2. Grown(w, q) /\ Sound(q)
  BY <1>1, HeadGrows
<1> HIDE DEF q
<1>3. PICK f : ElementsPut(f, q, list, strKey, put)
  BY <1>1, PutElementsIs
<1>4. f[0] = q /\ w2 = f[L] /\ Stepwise(f, L)
  BY <1>3, ElementsGrow DEF ElementsPut
<1>5. Grown(f[0], f[L])
  <2>1. L \in 0 .. L /\ Sound(f[0])
    BY <1>1, <1>2, <1>4
  <2> HIDE DEF L
  <2> QED
    BY <1>1, <1>4, <2>1, GrownByOne
<1> HIDE DEF w2
<1>6. Grown(w, w2)
  BY <1>2, <1>4, <1>5, GrownIsTransitive
<1>7. Grown(w, Refused(w))
  BY GrownIsReflexive, RefusedGrows
<1> QED
  BY <1>6, <1>7, PutListIs DEF w2, q

\* A list of extras is read as it was written, from the last element to the first.
LEMMA ListIsRead ==
  ASSUME NEW K, NEW S, NEW list, NEW strKey \in BOOLEAN, ListFits(list, K, S, strKey),
         NEW put, NEW arrived, NEW long, NEW c, NEW N,
         MapsGrow(S, put), MapsBack(S, put, arrived, long, c, N),
         NEW w, Sound(w), w.cap <= 513, NEW s, Held(PutList(w, list, strKey, put), s),
         NEW n \in 0 .. N, Len(s) - Len(w.bytes) <= n + 1, NEW u, NEW keys
  PROVE  Listed(s, PutList(w, list, strKey, put), TakeList(After(s, w, u), c[n]),
                ListArrived(list, arrived),
                ~PutList(w, list, strKey, put).lost /\ AllShort(list, long), keys,
                ~PutList(w, list, strKey, put).lost /\ ShortOr(list, long, keys))
<1> DEFINE L == Len(list)
           b == L % 256
           k == IF strKey THEN 1 ELSE 0
           p == PutUnchecked(w, <<b>>)
           q == PutHead(w, list, strKey)
           w2 == PutElements(q, list, strKey, put)
           a == After(s, w, u)
           m == After(s, p, <<b>>)
           d == After(s, q, <<k>>)
           x == ListArrived(list, arrived)
           well == ~w2.lost /\ AllShort(list, long)
           fine == ~w2.lost /\ ShortOr(list, long, keys)
           r == TakeElements(d, L, strKey, c[n])
<1>1. L \in Nat /\ b \in Byte /\ k \in Byte
  <2>1. L \in Nat
    BY DEF ListFits
  <2>2. b \in Int /\ 0 <= b /\ b <= 255
    BY <2>1
  <2>3. b \in Byte /\ k \in Byte
    <3> HIDE DEF b
    <3>1. k \in Int /\ 0 <= k /\ k <= 255
      OBVIOUS
    <3> HIDE DEF k
    <3> QED
      BY <2>2, <3>1, SmallIsByte
  <2> QED
    BY <2>1, <2>3
<1>2. list # <<>> /\ PutList(w, list, strKey, put) = w2
  <2>1. ASSUME list = <<>> PROVE FALSE
    <3>1. PutList(w, list, strKey, put) = Refused(w)
      BY <2>1, PutListIs
    <3>2. ~Refused(w).ok
      BY DEF Refused, Writing
    <3> QED
      BY <3>1, <3>2 DEF Held
  <2>2. PutList(w, list, strKey, put) = w2
    BY <2>1, PutListIs
  <2> QED
    BY <2>1, <2>2
<1>3. Held(w2, s)
  BY <1>2
<1>4. L # 0
  <2>1. PICK S2 : list \in Seq(S2)
    BY DEF ListFits, IsSeq
  <2> QED
    BY <1>2, <2>1
<1>5. /\ Grown(w, q) /\ Sound(q)
      /\ q.ok => Len(q.bytes) = Len(w.bytes) + 2 /\ p.ok /\ Len(w.bytes) + 1 <= w.cap
  BY <1>1, HeadGrows
<1>6. q.cap <= 513
  BY <1>5 DEF Grown
<1>7. Held(q, s) /\ Grown(q, w2)
  <2> HIDE DEF q, L
  <2>1. PICK f : ElementsPut(f, q, list, strKey, put)
    BY <1>1, PutElementsIs DEF L
  <2>2. f[0] = q /\ w2 = f[L] /\ Stepwise(f, L)
    BY <2>1, ElementsGrow DEF ElementsPut, L
  <2>3. L \in 0 .. L /\ Sound(f[0])
    BY <1>1, <1>5, <2>2
  <2>4. Grown(f[0], f[L])
    BY <1>1, <2>2, <2>3, GrownByOne
  <2>5. Grown(q, w2)
    BY <2>2, <2>4
  <2> HIDE DEF w2
  <2> QED
    BY <1>3, <2>5, HeldBefore
<1>8. q.ok
  BY <1>7 DEF Held
<1>9. Len(q.bytes) = Len(w.bytes) + 2 /\ Len(w.bytes) \in Nat /\ Len(s) \in Nat
  <2>1. s \in Seq(Byte) /\ w.bytes \in Seq(Byte)
    BY <1>7 DEF Held, Sound, WriterState
  <2> QED
    BY <1>5, <1>8, <2>1
<1>10. Len(s) - Len(q.bytes) <= n + 1
  <2> DEFINE i == Len(w.bytes)
             j == Len(q.bytes)
             l == Len(s)
  <2>1. n \in Int
    OBVIOUS
  <2>2. l - i <= n + 1
    OBVIOUS
  <2>3. i \in Nat /\ j = i + 2 /\ l \in Nat
    BY <1>9
  <2> HIDE DEF i, j, l
  <2>4. l - j <= n + 1
    BY <2>1, <2>2, <2>3
  <2> QED
    BY <2>4 DEF l, j
<1> HIDE DEF q
<1>11. /\ Len(q.bytes) + 2 * L <= Len(w2.bytes)
       /\ Listed(s, w2, TakeElements(After(s, q, <<k>>), L, strKey, c[n]), x, well, keys, fine)
  <2> DEFINE t == <<k>>
  <2> HIDE DEF t, k
  <2>1. Held(PutElements(q, list, strKey, put), s)
    BY <1>3
  <2>2. /\ Len(q.bytes) + 2 * L <= Len(w2.bytes)
        /\ Listed(s, PutElements(q, list, strKey, put),
                  TakeElements(After(s, q, t), Len(list), strKey, c[n]),
                  ListArrived(list, arrived),
                  ~PutElements(q, list, strKey, put).lost /\ AllShort(list, long), keys,
                  ~PutElements(q, list, strKey, put).lost /\ ShortOr(list, long, keys))
    BY <1>5, <1>6, <1>10, <2>1, ElementsAreRead
  <2> QED
    BY <2>2 DEF t
<1> HIDE DEF x, well, fine, w2
<1>12. L < 256 /\ b = L
  <2>1. w2.cap = q.cap /\ Len(w2.bytes) <= w2.cap /\ w2.bytes \in Seq(Byte) /\ w2.cap \in Nat
    BY <1>7 DEF Grown, Sound, WriterState
  <2> DEFINE i == Len(w.bytes)
             j == Len(q.bytes)
             l == Len(w2.bytes)
  <2>2. i \in Nat /\ j = i + 2 /\ l \in Nat /\ j + 2 * L <= l /\ l <= w2.cap /\ w2.cap <= 513
        /\ w2.cap \in Nat
    <3>1. w2.cap <= 513 /\ l \in Nat
      BY <1>6, <2>1
    <3> QED
      BY <1>9, <1>11, <2>1, <3>1
  <2> HIDE DEF i, j, l, L
  <2>3. L < 256
    BY <1>1, <2>2
  <2> QED
    BY <1>1, <2>3
<1>13. Carried(w, p, <<b>>, s) /\ Carried(p, q, <<k>>, s)
  <2> DEFINE t == <<b>>
             t2 == <<k>>
  <2> HIDE DEF b, k, L
  <2>1. t \in Seq(Byte) /\ Len(t) = 1 /\ Len(t) \in {1, 2} /\ t2 \in Seq(Byte) /\ Len(t2) = 1
        /\ Len(t2) > 0
    BY <1>1, ByteAlone
  <2>2. q = Put(p, t2) /\ p = PutUnchecked(w, t)
    BY DEF q, PutHead, k, b, L
  <2> HIDE DEF t, t2, p
  <2>3. Grown(w, p) /\ Sound(p)
    BY <2>1, <2>2, PutUncheckedGrows DEF Grown
  <2>4. Grown(p, q)
    BY <2>1, <2>2, <2>3, PutGrows
  <2>5. Held(p, s)
    BY <1>7, <2>4, HeldBefore
  <2>6. Carried(p, q, t2, s)
    BY <1>7, <2>1, <2>2, <2>3, PutIsCarried
  <2>7. Carried(w, p, t, s)
    <3>1. IF Len(w.bytes) + Len(t) <= w.cap THEN Carried(w, p, t, s) ELSE p.lost
      BY <2>1, <2>2, <2>5, UncheckedIsCarried
    <3>2. Len(w.bytes) + Len(t) <= w.cap
      BY <1>5, <1>8, <2>1
    <3> QED
      BY <3>1, <3>2
  <2> QED
    BY <2>6, <2>7 DEF t, t2
<1> HIDE DEF L, p
<1>14. /\ Gives(Take(a, 1), m) /\ m.val[1] = b /\ m.ok
       /\ Gives(Take(m, 1), d) /\ d.val[1] = k /\ d.ok
  <2> HIDE DEF b, k
  <2>1. Gives(Take(a, 1), m) /\ m.val[1] = b
    BY <1>1, <1>13, ByteIsRead
  <2>2. m.ok /\ d.ok
    BY AfterIs
  <2>3. Gives(Take(m, 1), d) /\ d.val[1] = k
    <3> DEFINE v == <<b>>
    <3> HIDE DEF v
    <3>1. k \in Byte /\ Carried(p, q, <<k>>, s)
      BY <1>1, <1>13
    <3> HIDE DEF q
    <3>2. Gives(Take(After(s, p, v), 1), d) /\ d.val[1] = k
      BY <3>1, ByteIsRead
    <3> QED
      BY <3>2 DEF v
  <2> QED
    BY <2>1, <2>2, <2>3
<1>15. (k = 1) = strKey
  OBVIOUS
<1> HIDE DEF a, m, d, b, k
<1>16. TakeList(a, c[n]) = IfFailed(TakeElements(d, b, (k = 1), c[n]), <<>>)
  <2>1. b # 0
    BY <1>4, <1>12
  <2> QED
    BY <1>14, <2>1 DEF TakeList, Gives
<1>17. TakeList(a, c[n]) = IfFailed(r, <<>>)
  BY <1>12, <1>15, <1>16
<1>18. Listed(s, w2, r, x, well, keys, fine)
  BY <1>11 DEF d
<1>19. r.ok
  <2>1. r = After(s, w2, r.val)
    BY <1>18 DEF Listed
  <2> HIDE DEF r
  <2> QED
    BY <2>1, AfterIs
<1>20. TakeList(a, c[n]) = r
  BY <1>17, <1>19 DEF IfFailed
<1> HIDE DEF r
<1> QED
  BY <1>2, <1>18, <1>20 DEF a, x, well, fine

-----------------------------------------------------------------------------
(* Maps inside maps                                                        *)

\* What a call one deeper writes of a map.
LEMMA PutMapIs ==
  \A d \in 0 .. Depth : PutMap[d] = [x \in WriterState \X Seq(Named(Tree[d])) |-> PutList(x[1], x[2], TRUE, IF d = 0 THEN <<>> ELSE PutMap[d - 1])]
<1> DEFINE Body(y, k) == [x \in WriterState \X Seq(Named(Tree[k])) |-> PutList(x[1], x[2], TRUE, y)]
           Turn(f, k) == Body(IF k = 0 THEN <<>> ELSE f[k - 1], k)
           S == {m \in Nat : \E f : f = [k \in 0 .. m |-> Turn(f, k)]}
<1> HIDE DEF Body
<1>0. Depth \in Nat
  BY DepthIsNat
<1>1. 0 \in S
  <2> DEFINE f == [k \in 0 .. 0 |-> Body(<<>>, k)]
  <2>1. \A k \in 0 .. 0 : k = 0
    OBVIOUS
  <2>2. f = [k \in 0 .. 0 |-> Turn(f, k)]
    BY <2>1
  <2> HIDE DEF f, Turn
  <2>3. \E h : h = [k \in 0 .. 0 |-> Turn(h, k)]
    BY <2>2
  <2> QED
    BY <2>3
<1>2. ASSUME NEW m \in S PROVE m + 1 \in S
  <2>1. PICK f : f = [k \in 0 .. m |-> Turn(f, k)]
    OBVIOUS
  <2> DEFINE g == [k \in 0 .. (m + 1) |-> IF k = m + 1 THEN Turn(f, m + 1) ELSE f[k]]
  <2>2. \A k \in 0 .. (m + 1) : k # m + 1 => k \in 0 .. m
    OBVIOUS
  <2>3. \A k \in 0 .. m : f[k] = Turn(f, k)
    BY <2>1
  <2>4. ASSUME NEW k \in 0 .. (m + 1), k # 0 PROVE g[k - 1] = f[k - 1]
    <3>1. k - 1 \in 0 .. (m + 1) /\ k - 1 # m + 1
      BY <2>4
    <3> QED
      BY <3>1
  <2>5. ASSUME NEW k \in 0 .. (m + 1) PROVE g[k] = Turn(g, k)
    <3>1. g[k] = Turn(f, k)
      BY <2>2, <2>3
    <3>2. CASE k = 0
      BY <3>1, <3>2
    <3>3. CASE k # 0
      <4>1. g[k - 1] = f[k - 1]
        BY <2>4, <3>3
      <4> HIDE DEF g
      <4> QED
        BY <3>1, <3>3, <4>1
    <3> QED
      BY <3>2, <3>3
  <2>6. g = [k \in 0 .. (m + 1) |-> Turn(g, k)]
    BY <2>5
  <2> HIDE DEF g, Turn
  <2>7. \E h : h = [k \in 0 .. (m + 1) |-> Turn(h, k)]
    BY <2>6
  <2> QED
    BY <2>7
<1>3. S = Nat
  <2>1. S \in SUBSET Nat
    OBVIOUS
  <2> HIDE DEF S
  <2> QED
    BY <1>1, <1>2, <2>1, EveryNumber
<1>4. \E h : h = [k \in 0 .. Depth |-> Turn(h, k)]
  <2>1. Depth \in S
    BY <1>0, <1>3
  <2> HIDE DEF Turn
  <2> QED
    BY <2>1
<1>5. PutMap = [k \in 0 .. Depth |-> Turn(PutMap, k)]
  <2>1. \E h : h = [d \in 0 .. Depth |-> [x \in WriterState \X Seq(Named(Tree[d])) |-> PutList(x[1], x[2], TRUE, IF d = 0 THEN <<>> ELSE h[d - 1])]]
    BY <1>4 DEF Turn, Body
  <2>2. PutMap = [d \in 0 .. Depth |-> [x \in WriterState \X Seq(Named(Tree[d])) |-> PutList(x[1], x[2], TRUE, IF d = 0 THEN <<>> ELSE PutMap[d - 1])]]
    BY <2>1 DEF PutMap
  <2> QED
    BY <2>2 DEF Turn, Body
<1> QED
  BY <1>5 DEF Turn, Body

\* What a map arrives as.
LEMMA MapArrivedIs ==
  \A d \in 0 .. Depth : MapArrived[d] = [list \in Seq(Named(Tree[d])) |-> ListArrived(list, IF d = 0 THEN <<>> ELSE MapArrived[d - 1])]
<1> DEFINE Body(y, k) == [list \in Seq(Named(Tree[k])) |-> ListArrived(list, y)]
           Turn(f, k) == Body(IF k = 0 THEN <<>> ELSE f[k - 1], k)
           S == {m \in Nat : \E f : f = [k \in 0 .. m |-> Turn(f, k)]}
<1> HIDE DEF Body
<1>0. Depth \in Nat
  BY DepthIsNat
<1>1. 0 \in S
  <2> DEFINE f == [k \in 0 .. 0 |-> Body(<<>>, k)]
  <2>1. \A k \in 0 .. 0 : k = 0
    OBVIOUS
  <2>2. f = [k \in 0 .. 0 |-> Turn(f, k)]
    BY <2>1
  <2> HIDE DEF f, Turn
  <2>3. \E h : h = [k \in 0 .. 0 |-> Turn(h, k)]
    BY <2>2
  <2> QED
    BY <2>3
<1>2. ASSUME NEW m \in S PROVE m + 1 \in S
  <2>1. PICK f : f = [k \in 0 .. m |-> Turn(f, k)]
    OBVIOUS
  <2> DEFINE g == [k \in 0 .. (m + 1) |-> IF k = m + 1 THEN Turn(f, m + 1) ELSE f[k]]
  <2>2. \A k \in 0 .. (m + 1) : k # m + 1 => k \in 0 .. m
    OBVIOUS
  <2>3. \A k \in 0 .. m : f[k] = Turn(f, k)
    BY <2>1
  <2>4. ASSUME NEW k \in 0 .. (m + 1), k # 0 PROVE g[k - 1] = f[k - 1]
    <3>1. k - 1 \in 0 .. (m + 1) /\ k - 1 # m + 1
      BY <2>4
    <3> QED
      BY <3>1
  <2>5. ASSUME NEW k \in 0 .. (m + 1) PROVE g[k] = Turn(g, k)
    <3>1. g[k] = Turn(f, k)
      BY <2>2, <2>3
    <3>2. CASE k = 0
      BY <3>1, <3>2
    <3>3. CASE k # 0
      <4>1. g[k - 1] = f[k - 1]
        BY <2>4, <3>3
      <4> HIDE DEF g
      <4> QED
        BY <3>1, <3>3, <4>1
    <3> QED
      BY <3>2, <3>3
  <2>6. g = [k \in 0 .. (m + 1) |-> Turn(g, k)]
    BY <2>5
  <2> HIDE DEF g, Turn
  <2>7. \E h : h = [k \in 0 .. (m + 1) |-> Turn(h, k)]
    BY <2>6
  <2> QED
    BY <2>7
<1>3. S = Nat
  <2>1. S \in SUBSET Nat
    OBVIOUS
  <2> HIDE DEF S
  <2> QED
    BY <1>1, <1>2, <2>1, EveryNumber
<1>4. \E h : h = [k \in 0 .. Depth |-> Turn(h, k)]
  <2>1. Depth \in S
    BY <1>0, <1>3
  <2> HIDE DEF Turn
  <2> QED
    BY <2>1
<1>5. MapArrived = [k \in 0 .. Depth |-> Turn(MapArrived, k)]
  <2>1. \E h : h = [d \in 0 .. Depth |-> [list \in Seq(Named(Tree[d])) |-> ListArrived(list, IF d = 0 THEN <<>> ELSE h[d - 1])]]
    BY <1>4 DEF Turn, Body
  <2>2. MapArrived = [d \in 0 .. Depth |-> [list \in Seq(Named(Tree[d])) |-> ListArrived(list, IF d = 0 THEN <<>> ELSE MapArrived[d - 1])]]
    BY <2>1 DEF MapArrived
  <2> QED
    BY <2>2 DEF Turn, Body
<1> QED
  BY <1>5 DEF Turn, Body

\* What the calls of extra_decode inside each other read.
ListCalls(c, N) ==
  \A n \in 0 .. N : c[n] = [s \in Seq(Byte) |-> TakeList(Reader(s), IF n = 0 THEN <<>> ELSE c[n - 1])]

LEMMA DecodeExtrasIs ==
  ASSUME NEW r, Len(r.bytes) \in Nat
  PROVE  \E c : ListCalls(c, Len(r.bytes)) /\ Gives(DecodeExtras(r), TakeInner(r, c[Len(r.bytes)]))
<1> DEFINE Body(y, k) == [s \in Seq(Byte) |-> TakeList(Reader(s), y)]
           Turn(f, k) == Body(IF k = 0 THEN <<>> ELSE f[k - 1], k)
           S == {m \in Nat : \E f : f = [k \in 0 .. m |-> Turn(f, k)]}
<1> HIDE DEF Body
<1>0. Len(r.bytes) \in Nat
  BY DepthIsNat
<1>1. 0 \in S
  <2> DEFINE f == [k \in 0 .. 0 |-> Body(<<>>, k)]
  <2>1. \A k \in 0 .. 0 : k = 0
    OBVIOUS
  <2>2. f = [k \in 0 .. 0 |-> Turn(f, k)]
    BY <2>1
  <2> HIDE DEF f, Turn
  <2>3. \E h : h = [k \in 0 .. 0 |-> Turn(h, k)]
    BY <2>2
  <2> QED
    BY <2>3
<1>2. ASSUME NEW m \in S PROVE m + 1 \in S
  <2>1. PICK f : f = [k \in 0 .. m |-> Turn(f, k)]
    OBVIOUS
  <2> DEFINE g == [k \in 0 .. (m + 1) |-> IF k = m + 1 THEN Turn(f, m + 1) ELSE f[k]]
  <2>2. \A k \in 0 .. (m + 1) : k # m + 1 => k \in 0 .. m
    OBVIOUS
  <2>3. \A k \in 0 .. m : f[k] = Turn(f, k)
    BY <2>1
  <2>4. ASSUME NEW k \in 0 .. (m + 1), k # 0 PROVE g[k - 1] = f[k - 1]
    <3>1. k - 1 \in 0 .. (m + 1) /\ k - 1 # m + 1
      BY <2>4
    <3> QED
      BY <3>1
  <2>5. ASSUME NEW k \in 0 .. (m + 1) PROVE g[k] = Turn(g, k)
    <3>1. g[k] = Turn(f, k)
      BY <2>2, <2>3
    <3>2. CASE k = 0
      BY <3>1, <3>2
    <3>3. CASE k # 0
      <4>1. g[k - 1] = f[k - 1]
        BY <2>4, <3>3
      <4> HIDE DEF g
      <4> QED
        BY <3>1, <3>3, <4>1
    <3> QED
      BY <3>2, <3>3
  <2>6. g = [k \in 0 .. (m + 1) |-> Turn(g, k)]
    BY <2>5
  <2> HIDE DEF g, Turn
  <2>7. \E h : h = [k \in 0 .. (m + 1) |-> Turn(h, k)]
    BY <2>6
  <2> QED
    BY <2>7
<1>3. S = Nat
  <2>1. S \in SUBSET Nat
    OBVIOUS
  <2> HIDE DEF S
  <2> QED
    BY <1>1, <1>2, <2>1, EveryNumber
<1>4. \E h : h = [k \in 0 .. Len(r.bytes) |-> Turn(h, k)]
  <2>1. Len(r.bytes) \in S
    BY <1>0, <1>3
  <2> HIDE DEF Turn
  <2> QED
    BY <2>1
<1>5. PICK h : h = [k \in 0 .. Len(r.bytes) |-> Turn(h, k)] /\ DecodeExtras(r) = TakeInner(r, h[Len(r.bytes)])
  <2>1. \E h : h = [n \in 0 .. Len(r.bytes) |-> [s \in Seq(Byte) |-> TakeList(Reader(s), IF n = 0 THEN <<>> ELSE h[n - 1])]]
    BY <1>4 DEF Turn, Body
  <2>2. \E h : h = [n \in 0 .. Len(r.bytes) |-> [s \in Seq(Byte) |-> TakeList(Reader(s), IF n = 0 THEN <<>> ELSE h[n - 1])]] /\ DecodeExtras(r) = TakeInner(r, h[Len(r.bytes)])
    BY <2>1 DEF DecodeExtras
  <2> QED
    BY <2>2 DEF Turn, Body
<1>6. \A n \in 0 .. Len(r.bytes) : h[n] = Turn(h, n)
  <2> HIDE DEF Turn
  <2> QED
    BY <1>5
<1>7. ListCalls(h, Len(r.bytes))
  BY <1>6 DEF Turn, Body, ListCalls
<1> QED
  BY <1>5, <1>7 DEF Gives

LEMMA OneMapLess ==
  ASSUME NEW d \in 0 .. Depth, d # 0
  PROVE  /\ d - 1 \in 0 .. Depth /\ Tree[d] = ExtraIn(Name \cup {Null}, Tree[d - 1])
         /\ PutMap[d] = [x \in WriterState \X Seq(Named(Tree[d])) |->
                           PutList(x[1], x[2], TRUE, PutMap[d - 1])]
         /\ MapArrived[d] = [list \in Seq(Named(Tree[d])) |-> ListArrived(list, MapArrived[d - 1])]
         /\ InnerLong[d] = [e \in Tree[d] |-> LongIn(e, InnerLong[d - 1])]
<1>1. d - 1 \in 0 .. Depth /\ Tree[d] = ExtraIn(Name \cup {Null}, Tree[d - 1])
  BY OneLess
<1>2. InnerLong[d] = [e \in Tree[d] |-> LongIn(e, InnerLong[d - 1])]
  BY OneLess
<1>3. PutMap[d] = [x \in WriterState \X Seq(Named(Tree[d])) |->
                     PutList(x[1], x[2], TRUE, IF d = 0 THEN <<>> ELSE PutMap[d - 1])]
  BY PutMapIs
<1>4. MapArrived[d]
        = [list \in Seq(Named(Tree[d])) |->
             ListArrived(list, IF d = 0 THEN <<>> ELSE MapArrived[d - 1])]
  BY MapArrivedIs
<1>5. (IF d = 0 THEN <<>> ELSE PutMap[d - 1]) = PutMap[d - 1]
      /\ (IF d = 0 THEN <<>> ELSE MapArrived[d - 1]) = MapArrived[d - 1]
  OBVIOUS
<1> QED
  BY <1>1, <1>2, <1>3, <1>4, <1>5

\* There is nothing in a map where nothing may be.
LEMMA NothingInside ==
  ASSUME NEW list \in Seq(Named({}))
  PROVE  list = <<>>
<1>1. Named({}) = {}
  BY DEF Named
<1>2. list \in Seq({})
  BY <1>1
<1> HIDE DEF Named
<1>3. Len(list) = 0
  <2>1. Len(list) \in Nat /\ DOMAIN list = 1 .. Len(list)
    BY <1>2
  <2>2. \A i \in 1 .. Len(list) : list[i] \in {}
    BY <1>2
  <2>3. 1 \notin 1 .. Len(list)
    BY <2>2
  <2> QED
    BY <2>1, <2>3
<1> QED
  BY <1>2, <1>3

\* The elements of a map.
LEMMA MapFits ==
  ASSUME NEW K, NEW S, NEW T, T = ExtraIn(K, S), K \subseteq Name \cup {Null},
         NEW list \in Seq(Named(T))
  PROVE  ListFits(list, K, S, TRUE) /\ \A i \in 1 .. Len(list) : list[i] \in T
<1>1. Named(T) \subseteq T /\ \A e \in Named(T) : e.key # Null
  BY DEF Named
<1>2. IsSeq(list) /\ Len(list) \in Nat
  <2> DEFINE N == Named(T)
  <2> HIDE DEF N
  <2> QED
    BY DEF IsSeq, N
<1>3. \A i \in 1 .. Len(list) : list[i] \in Named(T)
  <2> DEFINE N == Named(T)
  <2> HIDE DEF N
  <2>1. list \in Seq(N)
    BY DEF N
  <2>2. \A i \in 1 .. Len(list) : list[i] \in N
    BY <2>1
  <2> QED
    BY <2>2 DEF N
<1>4. ASSUME NEW e \in Named(T) PROVE e \in ExtraIn(K, S) /\ KeyFits(TRUE, e.key)
  <2>1. e \in ExtraIn(K, S) /\ e.key # Null
    BY <1>1, <1>4
  <2>2. e.key \in K
    BY <2>1, ElementIs
  <2> QED
    BY <2>1, <2>2 DEF KeyFits
<1> HIDE DEF Named
<1>5. ListFits(list, K, S, TRUE)
  BY <1>2, <1>3, <1>4 DEF ListFits
<1> QED
  BY <1>1, <1>3, <1>5

LEMMA PutMapGrows ==
  \A d \in 0 .. Depth : MapsGrow(Tree[d], PutMap[d])
<1> DEFINE P == {d \in 0 .. Depth : MapsGrow(Tree[d], PutMap[d])}
<1>1. 0 \in P
  <2>1. Tree[0] = {} /\ 0 \in 0 .. Depth
    BY TreeIs, DepthIsNat
  <2>2. PutMap[0] = [x \in WriterState \X Seq(Named(Tree[0])) |->
                       PutList(x[1], x[2], TRUE, IF 0 = 0 THEN <<>> ELSE PutMap[0 - 1])]
    BY <2>1, PutMapIs
  <2>3. ASSUME NEW list \in Seq(Named(Tree[0])), NEW w, Sound(w)
        PROVE  Grown(w, Called(PutMap[0], w, list))
    <3> DEFINE S == Seq(Named(Tree[0]))
               put == IF 0 = 0 THEN <<>> ELSE PutMap[0 - 1]
    <3>1. list = <<>>
      BY <2>1, <2>3, NothingInside
    <3>2. w \in WriterState
      BY <2>3 DEF Sound
    <3> HIDE DEF S, put
    <3>3. PutMap[0] = [x \in WriterState \X S |-> PutList(x[1], x[2], TRUE, put)]
      BY <2>2 DEF S, put
    <3>4. list \in S
      BY DEF S
    <3>5. <<w, list>> \in WriterState \X S /\ <<w, list>>[1] = w /\ <<w, list>>[2] = list
      BY <3>2, <3>4
    <3>6. Called(PutMap[0], w, list) = PutList(w, list, TRUE, put)
      BY <3>3, <3>5 DEF Called
    <3>7. PutList(w, list, TRUE, put) = Refused(w)
      BY <3>1, PutListIs
    <3> QED
      BY <2>3, <3>6, <3>7, GrownIsReflexive, RefusedGrows
  <2> QED
    BY <2>1, <2>3 DEF MapsGrow
<1>2. ASSUME NEW d \in 1 .. Depth, d - 1 \in P PROVE d \in P
  <2>1. d \in 0 .. Depth /\ d # 0 /\ d - 1 \in 0 .. Depth
    BY <1>2, DepthIsNat
  <2> DEFINE put == PutMap[d - 1]
             S == Tree[d - 1]
             K == Name \cup {Null}
             M == Seq(Named(Tree[d]))
  <2>2. MapsGrow(S, put)
    BY <1>2
  <2>3. /\ Tree[d] = ExtraIn(K, S)
        /\ PutMap[d] = [x \in WriterState \X M |-> PutList(x[1], x[2], TRUE, put)]
    BY <2>1, OneMapLess
  <2> HIDE DEF put, S, M
  <2>4. ASSUME NEW list \in M, NEW w, Sound(w) PROVE Grown(w, Called(PutMap[d], w, list))
    <3>1. Called(PutMap[d], w, list) = PutList(w, list, TRUE, put)
      <4>1. w \in WriterState
        BY <2>4 DEF Sound
      <4>2. <<w, list>> \in WriterState \X M /\ <<w, list>>[1] = w /\ <<w, list>>[2] = list
        BY <4>1
      <4> QED
        BY <2>3, <4>2 DEF Called
    <3>2. ListFits(list, K, S, TRUE)
      BY <2>3, <2>4, MapFits DEF M
    <3> HIDE DEF K
    <3>3. Grown(w, PutList(w, list, TRUE, put))
      BY <2>2, <2>4, <3>2, ListGrows
    <3> QED
      BY <3>1, <3>3
  <2>5. MapsGrow(Tree[d], PutMap[d])
    BY <2>4 DEF MapsGrow, M
  <2> QED
    BY <2>1, <2>5
<1>3. P \in SUBSET Nat
  OBVIOUS
<1>4. \A d \in 0 .. Depth : d \in P
  <2> HIDE DEF P
  <2> QED
    BY <1>1, <1>2, <1>3, DepthInduction
<1> QED
  BY <1>4

\* A map inside a list is read as it was written.
LEMMA MapIsBack ==
  ASSUME NEW c, NEW N \in Nat, ListCalls(c, N)
  PROVE  \A d \in 0 .. Depth :
           MapsBack(Tree[d], PutMap[d], MapArrived[d], InnerLong[d], c, N)
<1> DEFINE Good(d) == MapsBack(Tree[d], PutMap[d], MapArrived[d], InnerLong[d], c, N)
           P == {d \in 0 .. Depth : Good(d)}
<1>1. 0 \in P
  <2>1. Tree[0] = {} /\ 0 \in 0 .. Depth
    BY TreeIs, DepthIsNat
  <2>2. PutMap[0] = [x \in WriterState \X Seq(Named(Tree[0])) |->
                       PutList(x[1], x[2], TRUE, IF 0 = 0 THEN <<>> ELSE PutMap[0 - 1])]
    BY <2>1, PutMapIs
  <2>3. ASSUME NEW list \in Seq(Named(Tree[0])), NEW w, Sound(w)
        PROVE  ~Called(PutMap[0], w, list).ok
    <3> DEFINE S == Seq(Named(Tree[0]))
               put == IF 0 = 0 THEN <<>> ELSE PutMap[0 - 1]
    <3>1. list = <<>>
      BY <2>1, <2>3, NothingInside
    <3>2. w \in WriterState
      BY <2>3 DEF Sound
    <3> HIDE DEF S, put
    <3>3. PutMap[0] = [x \in WriterState \X S |-> PutList(x[1], x[2], TRUE, put)]
      BY <2>2 DEF S, put
    <3>4. list \in S
      BY DEF S
    <3>5. <<w, list>> \in WriterState \X S /\ <<w, list>>[1] = w /\ <<w, list>>[2] = list
      BY <3>2, <3>4
    <3>6. Called(PutMap[0], w, list) = PutList(w, list, TRUE, put)
      BY <3>3, <3>5 DEF Called
    <3>7. PutList(w, list, TRUE, put) = Refused(w)
      BY <3>1, PutListIs
    <3>8. ~Refused(w).ok
      BY DEF Refused, Writing
    <3> QED
      BY <3>6, <3>7, <3>8
  <2>4. Good(0)
    BY <2>3 DEF MapsBack, Held
  <2> QED
    BY <2>1, <2>4
<1>2. ASSUME NEW d \in 1 .. Depth, d - 1 \in P PROVE d \in P
  <2>1. d \in 0 .. Depth /\ d # 0 /\ d - 1 \in 0 .. Depth
    BY <1>2, DepthIsNat
  <2> DEFINE put == PutMap[d - 1]
             S == Tree[d - 1]
             K == Name \cup {Null}
             arrived == MapArrived[d - 1]
             long == InnerLong[d - 1]
             M == Seq(Named(Tree[d]))
  <2>2. MapsGrow(S, put) /\ MapsBack(S, put, arrived, long, c, N)
    BY <1>2, <2>1, PutMapGrows
  <2>3. /\ Tree[d] = ExtraIn(K, S)
        /\ PutMap[d] = [x \in WriterState \X M |-> PutList(x[1], x[2], TRUE, put)]
        /\ MapArrived[d] = [list \in M |-> ListArrived(list, arrived)]
        /\ InnerLong[d] = [e \in Tree[d] |-> LongIn(e, long)]
    BY <2>1, OneMapLess
  <2> HIDE DEF put, S, arrived, long, M
  <2>4. ASSUME NEW list \in M, NEW w, NEW s, NEW n \in 0 .. N, Sound(w), w.cap <= 513,
               Held(Called(PutMap[d], w, list), s), Len(s) - Len(w.bytes) <= n
        PROVE  Whole(s, Called(PutMap[d], w, list), c[n][Rest(s, Len(w.bytes))],
                     MapArrived[d][list],
                     ~Called(PutMap[d], w, list).lost
                       /\ \A i \in 1 .. Len(list) : ~InnerLong[d][list[i]])
    <3> DEFINE w2 == PutList(w, list, TRUE, put)
               r == c[n][Rest(s, Len(w.bytes))]
               well == ~w2.lost /\ AllShort(list, long)
    <3>1. Called(PutMap[d], w, list) = w2
      <4>1. w \in WriterState
        BY <2>4 DEF Sound
      <4>2. <<w, list>> \in WriterState \X M /\ <<w, list>>[1] = w /\ <<w, list>>[2] = list
        BY <4>1
      <4> QED
        BY <2>3, <4>2 DEF Called
    <3>2. MapArrived[d][list] = ListArrived(list, arrived)
      BY <2>3
    <3>3. ListFits(list, K, S, TRUE) /\ \A i \in 1 .. Len(list) : list[i] \in Tree[d]
      BY <2>3, <2>4, MapFits DEF M
    <3>4. (\A i \in 1 .. Len(list) : ~InnerLong[d][list[i]]) <=> AllShort(list, long)
      <4>1. \A i \in 1 .. Len(list) : InnerLong[d][list[i]] = LongIn(list[i], long)
        BY <2>3, <3>3
      <4> QED
        BY <4>1 DEF AllShort
    <3>5. Held(w2, s)
      BY <2>4, <3>1
    <3> HIDE DEF K
    <3>6. Grown(w, w2)
      BY <2>2, <2>4, <3>3, ListGrows
    <3>7. Held(w, s) /\ Len(w.bytes) \in Nat /\ Len(w.bytes) < Len(s)
      <4> DEFINE q == PutHead(w, list, TRUE)
      <4>1. list # <<>>
        <5>1. ASSUME list = <<>> PROVE FALSE
          <6>1. w2 = Refused(w)
            BY <5>1, PutListIs
          <6>2. ~Refused(w).ok
            BY DEF Refused, Writing
          <6> HIDE DEF w2
          <6> QED
            BY <3>5, <6>1, <6>2 DEF Held
        <5> QED
          BY <5>1
      <4>2. w2 = PutElements(q, list, TRUE, put)
        <5>1. ASSUME NEW key
              PROVE  PutList(w, list, key, put)
                       = PutElements(PutHead(w, list, key), list, key, put)
          BY <4>1, PutListIs
        <5> QED
          BY <5>1
      <4>3. Len(list) \in Nat
        BY <3>3 DEF ListFits
      <4>4. /\ Sound(q) /\ Grown(w, q)
            /\ q.ok => Len(q.bytes) = Len(w.bytes) + 2
        BY <2>4, <4>3, HeadGrows
      <4> HIDE DEF q, w2
      <4>5. PICK f : ElementsPut(f, q, list, TRUE, put)
        BY <4>3, PutElementsIs
      <4>6. f[0] = q /\ w2 = f[Len(list)] /\ Stepwise(f, Len(list))
        BY <2>2, <3>3, <4>2, <4>5, ElementsGrow DEF ElementsPut
      <4>7. Len(list) \in 0 .. Len(list) /\ Sound(f[0])
        BY <4>3, <4>4, <4>6
      <4>8. Grown(f[0], f[Len(list)])
        BY <4>3, <4>6, <4>7, GrownByOne
      <4>9. Grown(q, w2)
        BY <4>6, <4>8
      <4>10. Held(q, s) /\ Len(q.bytes) \in Nat /\ Len(q.bytes) <= Len(s)
        <5>1. Held(q, s) /\ Len(q.bytes) \in Nat /\ Len(w2.bytes) \in Nat
              /\ Len(q.bytes) <= Len(w2.bytes) /\ Len(w2.bytes) <= Len(s)
          BY <3>5, <4>9, HeldBefore
        <5>2. Len(s) \in Nat
          BY <5>1 DEF Held
        <5> QED
          BY <5>1, <5>2
      <4>11. Held(w, s) /\ Len(w.bytes) \in Nat
        BY <4>4, <4>10, HeldBefore
      <4>12. q.ok /\ Len(s) \in Nat
        BY <4>10 DEF Held
      <4> QED
        BY <4>4, <4>10, <4>11, <4>12
    <3>8. s \in Seq(Byte) /\ Len(s) \in Nat
      BY <3>7 DEF Held
    <3>9. n # 0 /\ n - 1 \in 0 .. N /\ Len(s) - Len(w.bytes) <= (n - 1) + 1
      <4> DEFINE i == Len(w.bytes)
                 k == Len(s)
      <4>1. i \in Nat /\ k \in Nat /\ i < k /\ k - i <= n
        BY <2>4, <3>7, <3>8
      <4> HIDE DEF i, k
      <4>2. n # 0 /\ n - 1 \in 0 .. N /\ k - i <= (n - 1) + 1
        BY <4>1
      <4> QED
        BY <4>2 DEF i, k
    <3>10. r = TakeList(After(s, w, Null), c[n - 1])
      <4> DEFINE t == Rest(s, Len(w.bytes))
      <4>1. t \in Seq(Byte)
        <5>1. Len(w.bytes) \in Nat /\ Len(w.bytes) <= Len(s)
          BY <3>7, <3>8
        <5> QED
          BY <3>8, <5>1, RestIs
      <4>2. Reader(t) = After(s, w, Null)
        BY AfterIsReader
      <4>3. c[n] = [x \in Seq(Byte) |-> TakeList(Reader(x), IF n = 0 THEN <<>> ELSE c[n - 1])]
        BY DEF ListCalls
      <4> HIDE DEF t
      <4>4. c[n][t] = TakeList(Reader(t), IF n = 0 THEN <<>> ELSE c[n - 1])
        BY <4>1, <4>3
      <4> QED
        BY <3>9, <4>2, <4>4 DEF t
    <3> DEFINE m == n - 1
    <3>11. m \in 0 .. N /\ Len(s) - Len(w.bytes) <= m + 1
      BY <3>9
    <3> HIDE DEF m
    <3>12. Listed(s, PutList(w, list, TRUE, put), TakeList(After(s, w, Null), c[m]),
                  ListArrived(list, arrived),
                  ~PutList(w, list, TRUE, put).lost /\ AllShort(list, long), {},
                  ~PutList(w, list, TRUE, put).lost /\ ShortOr(list, long, {}))
      BY <2>2, <2>4, <3>3, <3>5, <3>11, ListIsRead
    <3>13. r = TakeList(After(s, w, Null), c[m])
      BY <3>10 DEF m
    <3> HIDE DEF r
    <3>14. Whole(s, w2, r, ListArrived(list, arrived), well)
      BY <3>12, <3>13 DEF Listed, Whole
    <3>15. well = (~Called(PutMap[d], w, list).lost
                       /\ \A i \in 1 .. Len(list) : ~InnerLong[d][list[i]])
      BY <3>1, <3>4
    <3> HIDE DEF w2, well
    <3> QED
      BY <3>1, <3>2, <3>14, <3>15 DEF r
  <2>5. Good(d)
    BY <2>4 DEF MapsBack, M
  <2> QED
    BY <2>1, <2>5
<1>3. P \in SUBSET Nat
  OBVIOUS
<1>4. \A d \in 0 .. Depth : d \in P
  <2> HIDE DEF P
  <2> QED
    BY <1>1, <1>2, <1>3, DepthInduction
<1> QED
  BY <1>4

\* Something was written of a list.
LEMMA ListIsLonger ==
  ASSUME NEW K, NEW S, NEW list, NEW strKey, ListFits(list, K, S, strKey),
         NEW put, MapsGrow(S, put), NEW w, Sound(w), NEW s, Held(PutList(w, list, strKey, put), s)
  PROVE  Held(w, s) /\ Len(w.bytes) \in Nat /\ Len(s) \in Nat /\ Len(w.bytes) < Len(s)
<1> DEFINE w2 == PutList(w, list, strKey, put)
           q == PutHead(w, list, strKey)
<1>1. list # <<>>
  <2>1. ASSUME list = <<>> PROVE FALSE
    <3>1. w2 = Refused(w)
      BY <2>1, PutListIs
    <3>2. ~Refused(w).ok
      BY DEF Refused, Writing
    <3>3. w2.ok
      BY DEF Held
    <3> HIDE DEF w2
    <3> QED
      BY <3>1, <3>2, <3>3
  <2> QED
    BY <2>1
<1>2. w2 = PutElements(q, list, strKey, put)
  BY <1>1, PutListIs
<1>3. Len(list) \in Nat
  BY DEF ListFits
<1>4. /\ Sound(q) /\ Grown(w, q)
      /\ q.ok => Len(q.bytes) = Len(w.bytes) + 2
  BY <1>3, HeadGrows
<1>h. Held(w2, s)
  OBVIOUS
<1> HIDE DEF q, w2
<1>5. PICK f : ElementsPut(f, q, list, strKey, put)
  BY <1>3, PutElementsIs
<1>6. f[0] = q /\ w2 = f[Len(list)] /\ Stepwise(f, Len(list))
  BY <1>2, <1>5, ElementsGrow DEF ElementsPut
<1>7. Len(list) \in 0 .. Len(list) /\ Sound(f[0])
  BY <1>3, <1>4, <1>6
<1>8. Grown(f[0], f[Len(list)])
  BY <1>3, <1>6, <1>7, GrownByOne
<1>9. Grown(q, w2)
  BY <1>6, <1>8
<1>10. Held(q, s) /\ Len(q.bytes) \in Nat /\ Len(q.bytes) <= Len(s)
  <2>1. Held(q, s) /\ Len(q.bytes) \in Nat /\ Len(w2.bytes) \in Nat
        /\ Len(q.bytes) <= Len(w2.bytes) /\ Len(w2.bytes) <= Len(s)
    BY <1>h, <1>9, HeldBefore
  <2>2. Len(s) \in Nat
    BY <2>1 DEF Held
  <2> QED
    BY <2>1, <2>2
<1>11. Held(w, s) /\ Len(w.bytes) \in Nat
  BY <1>4, <1>10, HeldBefore
<1>12. q.ok /\ Len(s) \in Nat
  BY <1>10 DEF Held
<1> QED
  BY <1>4, <1>10, <1>11, <1>12

\* The elements with one of the keys may have too long a string.
LongUnder(list, keys) == \A i \in 1 .. Len(list) : HasLong(list[i]) => list[i].key \in keys

\* A list of extras comes out of extra_decode as it went into extra_encode.
LEMMA ExtrasComeBack ==
  ASSUME NEW K, NEW list, NEW strKey \in BOOLEAN, ListFits(list, K, Tree[Depth], strKey),
         NEW w, Sound(w), w.cap <= 513, NEW s, Held(EncodeExtras(w, list, strKey), s),
         NEW u, NEW keys
  PROVE  Listed(s, EncodeExtras(w, list, strKey), DecodeExtras(After(s, w, u)),
                ExtrasArrived(list),
                ~EncodeExtras(w, list, strKey).lost /\ ~MapHasLong(list), keys,
                ~EncodeExtras(w, list, strKey).lost /\ LongUnder(list, keys))
<1> DEFINE S == Tree[Depth]
           put == PutMap[Depth]
           arrived == MapArrived[Depth]
           long == InnerLong[Depth]
           w2 == PutList(w, list, strKey, put)
           x == ListArrived(list, arrived)
           well == ~w2.lost /\ AllShort(list, long)
           fine == ~w2.lost /\ ShortOr(list, long, keys)
           t == Rest(s, Len(w.bytes))
           N == Len(t)
           r == After(s, w, u)
           d == DecodeExtras(r)
<1>1. Depth \in 0 .. Depth
  BY DepthIsNat
<1>2. EncodeExtras(w, list, strKey) = w2 /\ ExtrasArrived(list) = x
      /\ (MapHasLong(list) <=> ~AllShort(list, long))
      /\ (LongUnder(list, keys) <=> ShortOr(list, long, keys))
  BY DEF EncodeExtras, ExtrasArrived, HasLong, MapHasLong, AllShort, ShortOr, LongUnder
<1>3. Held(w2, s)
  BY <1>2
<1>4. MapsGrow(S, put)
  BY <1>1, PutMapGrows
<1>5. Held(w, s) /\ Len(w.bytes) \in Nat /\ Len(s) \in Nat /\ Len(w.bytes) < Len(s)
  <2> HIDE DEF put, S
  <2> QED
    BY <1>3, <1>4, ListIsLonger DEF S
<1>6. t \in Seq(Byte) /\ N = Len(s) - Len(w.bytes) /\ N \in Nat /\ N # 0
  <2>1. s \in Seq(Byte)
    BY <1>5 DEF Held
  <2>2. t \in Seq(Byte) /\ N = Len(s) - Len(w.bytes)
    <3>1. Len(w.bytes) <= Len(s)
      BY <1>5
    <3> QED
      BY <1>5, <2>1, <3>1, RestIs
  <2> HIDE DEF t
  <2> QED
    BY <1>5, <2>2
<1>7. r.bytes = t /\ r.past = FALSE
  BY DEF After, At, Reading
<1>8. PICK c : ListCalls(c, N) /\ d = TakeInner(r, c[N])
  <2>1. Len(r.bytes) \in Nat
    BY <1>6, <1>7
  <2> HIDE DEF r, t
  <2>2. \E c : ListCalls(c, Len(r.bytes)) /\ Gives(DecodeExtras(r), TakeInner(r, c[Len(r.bytes)]))
    BY <2>1, DecodeExtrasIs
  <2> QED
    BY <1>7, <2>2 DEF Gives
<1>9. MapsBack(S, put, arrived, long, c, N)
  <2> HIDE DEF N
  <2> QED
    BY <1>1, <1>6, <1>8, MapIsBack
<1>10. c[N][t] = TakeList(After(s, w, Null), c[N - 1])
  <2>1. c[N] = [v \in Seq(Byte) |-> TakeList(Reader(v), IF N = 0 THEN <<>> ELSE c[N - 1])]
    <3>1. N \in 0 .. N
      BY <1>6
    <3> HIDE DEF N
    <3> QED
      BY <1>8, <3>1 DEF ListCalls
  <2>2. c[N][t] = TakeList(Reader(t), IF N = 0 THEN <<>> ELSE c[N - 1])
    <3> HIDE DEF N, t
    <3> QED
      BY <1>6, <2>1
  <2>3. Reader(t) = After(s, w, Null)
    BY AfterIsReader
  <2> QED
    BY <1>6, <2>2, <2>3
<1> DEFINE m == N - 1
           y == c[N][t]
<1>11. m \in 0 .. N /\ Len(s) - Len(w.bytes) <= m + 1
  <2> DEFINE i == Len(s) - Len(w.bytes)
  <2>1. N = i /\ N \in Nat /\ N # 0
    BY <1>6
  <2> HIDE DEF N, i
  <2>2. m \in 0 .. N /\ i <= m + 1
    BY <2>1
  <2> QED
    BY <2>2 DEF i
<1> HIDE DEF S, put, arrived, long, m, N, x
<1>12. Listed(s, w2, TakeList(After(s, w, Null), c[m]), x, well, keys, fine)
  <2>1. Listed(s, PutList(w, list, strKey, put), TakeList(After(s, w, Null), c[m]),
                ListArrived(list, arrived),
                ~PutList(w, list, strKey, put).lost /\ AllShort(list, long), keys,
                ~PutList(w, list, strKey, put).lost /\ ShortOr(list, long, keys))
    BY <1>3, <1>4, <1>9, <1>11, ListIsRead DEF S
  <2> QED
    BY <2>1 DEF x
<1> HIDE DEF w2, well, fine
<1>13. Listed(s, w2, y, x, well, keys, fine)
  BY <1>10, <1>12 DEF m
<1>14. d = y
  <2> HIDE DEF r, t, d
  <2>1. y = After(s, w2, y.val)
    BY <1>13 DEF Listed
  <2> DEFINE v == y.val
             inner == c[N]
  <2>2. d = Reading(inner[t].bytes, inner[t].ok, inner[t].past \/ r.past, inner[t].val)
    BY <1>7, <1>8 DEF TakeInner
  <2> HIDE DEF v, inner
  <2>3. inner[t] = y
    BY DEF inner
  <2> HIDE DEF y
  <2>4. y = Reading(Rest(s, Len(w2.bytes)), TRUE, FALSE, v)
    BY <2>1 DEF After, At, v
  <2>5. y.bytes = Rest(s, Len(w2.bytes)) /\ y.ok = TRUE /\ y.past = FALSE /\ y.val = v
    BY <2>4 DEF Reading
  <2>6. (y.past \/ r.past) = FALSE
    BY <1>7, <2>5
  <2>7. d = Reading(Rest(s, Len(w2.bytes)), TRUE, FALSE, v)
    BY <2>2, <2>3, <2>5, <2>6
  <2> QED
    BY <2>4, <2>7
<1> HIDE DEF y, d
<1>15. Listed(s, w2, d, x, well, keys, fine)
  BY <1>13, <1>14
<1> QED
  BY <1>2, <1>15 DEF d, r, well, fine

-----------------------------------------------------------------------------
(* What is lost of extras is lost at the very end of a full buffer.        *)

Full(w) == w.ok /\ w.lost => Len(w.bytes) = w.cap

LEMMA PutIsFull ==
  ASSUME NEW w, Sound(w), NEW t \in Seq(Byte), Full(w) \/ Len(t) >= 2
  PROVE  Full(Put(w, t))
<1> DEFINE p == Put(w, t)
<1>1. Grown(w, p) /\ (p.ok => Added(w, p, t) /\ Len(w.bytes) < w.cap)
  BY PutGrows
<1>2. SUFFICES ASSUME p.ok, p.lost PROVE FALSE
  BY DEF Full
<1> HIDE DEF p
<1>a. p.lost = w.lost
  BY <1>1, <1>2 DEF Added
<1>b. w.lost
  BY <1>2, <1>a
<1>3. w.ok /\ p.cap = w.cap /\ Len(p.bytes) = Len(w.bytes) + Len(t)
      /\ Len(p.bytes) <= p.cap /\ Len(w.bytes) < w.cap /\ Len(w.bytes) + 2 > w.cap
  BY <1>1, <1>2, <1>b DEF Added, Grown, Sound
<1>4. Len(w.bytes) \in Nat /\ w.cap \in Nat /\ Len(t) \in Nat
  BY DEF Sound, WriterState
<1>5. CASE Full(w)
  BY <1>b, <1>3, <1>4, <1>5 DEF Full
<1>6. CASE Len(t) >= 2
  BY <1>3, <1>4, <1>6
<1> QED
  BY <1>5, <1>6

LEMMA PutUncheckedIsFull ==
  ASSUME NEW w, Sound(w), NEW t \in Seq(Byte), Len(t) = 1, Full(w)
  PROVE  Full(PutUnchecked(w, t))
<1> DEFINE p == PutUnchecked(w, t)
<1>1. /\ Grown(w, p) /\ p.ok = w.ok
      /\ w.ok => IF Len(w.bytes) + Len(t) <= w.cap THEN Added(w, p, t)
                 ELSE p.lost /\ p.bytes = w.bytes
  BY PutUncheckedGrows
<1>2. SUFFICES ASSUME p.ok, p.lost PROVE Len(p.bytes) = p.cap
  BY DEF Full
<1> HIDE DEF p
<1>3. Len(w.bytes) \in Nat /\ w.cap \in Nat /\ w.ok /\ p.cap = w.cap /\ Len(w.bytes) <= w.cap
  BY <1>1, <1>2 DEF Sound, WriterState, Grown
<1>4. CASE Len(w.bytes) + Len(t) <= w.cap
  <2>1. p.lost = w.lost
    BY <1>1, <1>3, <1>4 DEF Added
  <2>2. w.lost
    BY <1>2, <2>1
  <2>3. Len(w.bytes) = w.cap
    BY <1>3, <2>2 DEF Full
  <2> QED
    BY <1>3, <1>4, <2>3
<1>5. CASE ~(Len(w.bytes) + Len(t) <= w.cap)
  <2>1. p.bytes = w.bytes
    BY <1>1, <1>3, <1>5
  <2> QED
    BY <1>3, <1>5, <2>1
<1> QED
  BY <1>4, <1>5

LEMMA RefusedIsFull ==
  ASSUME NEW w
  PROVE  Full(Refused(w))
BY DEF Full, Refused, Writing

LEMMA LengthTwo ==
  ASSUME NEW n \in Nat
  PROVE  BigEnd(2, n) \in Seq(Byte) /\ Len(BigEnd(2, n)) = 2
<1>1. n \in Int /\ 2 \in {1, 2, 4, 8}
  OBVIOUS
<1> QED
  BY <1>1, BigEndIs

LEMMA WriteStringIsFull ==
  ASSUME NEW w, Sound(w), Full(w), NEW s \in Name \cup {Null}
  PROVE  Full(WriteString(w, s))
<1>1. CASE s = Null
  <2>1. <<0>> \in Seq(Byte)
    BY SmallIsByte
  <2> QED
    BY <1>1, <2>1, PutIsFull DEF WriteString
<1>2. CASE s # Null
  <2>1. s \in Seq(Byte) /\ Len(s) \in Nat
    BY <1>2 DEF Name
  <2>2. CASE Len(s) < 127
    <3> DEFINE t == <<Len(s)>>
    <3>1. t \in Seq(Byte)
      BY <2>1, <2>2, SmallIsByte
    <3>2. WriteString(w, s) = Put(Put(w, t), s)
      BY <1>2, <2>2 DEF WriteString
    <3> HIDE DEF t
    <3>3. Full(Put(w, t)) /\ Sound(Put(w, t))
      BY <3>1, PutIsFull, PutGrows DEF Grown
    <3> QED
      BY <2>1, <3>2, <3>3, PutIsFull
  <2>3. CASE ~(Len(s) < 127)
    <3> DEFINE t == <<127>>
               l == BigEnd(2, Len(s))
    <3>1. t \in Seq(Byte)
      BY SmallIsByte
    <3>2. l \in Seq(Byte)
      BY <2>1, LengthTwo
    <3>3. WriteString(w, s) = Put(Put(Put(w, t), l), s)
      BY <1>2, <2>3 DEF WriteString
    <3> HIDE DEF t, l
    <3>4. Full(Put(w, t)) /\ Sound(Put(w, t))
      BY <3>1, PutIsFull, PutGrows DEF Grown
    <3>5. Full(Put(Put(w, t), l)) /\ Sound(Put(Put(w, t), l))
      BY <3>2, <3>4, PutIsFull, PutGrows DEF Grown
    <3> QED
      BY <2>1, <3>3, <3>5, PutIsFull
  <2> QED
    BY <2>2, <2>3
<1> QED
  BY <1>1, <1>2

LEMMA PutStringIsFull ==
  ASSUME NEW w, Sound(w), Full(w), NEW t \in Name
  PROVE  Full(PutString(w, t))
<1> DEFINE len == Int8(Len(t))
           p == Before(w, len)
           s == SubSeq(t, 1, len)
<1>1. Len(t) \in Nat /\ len \in Int /\ len <= 127
  <2>1. Len(t) \in Nat
    BY DEF Name
  <2> QED
    BY <2>1, Int8Is
<1>2. PutString(w, t) = IF len > 0 THEN Put(p, s) ELSE p
  BY PutStringIs
<1>3. len > 0 => s \in Seq(Byte) /\ Len(s) = len
  BY StringPart
<1> HIDE DEF len, s
<1>4. Sound(p)
  BY <1>1, BeforeGrows DEF Grown
<1>5. CASE len < 127
  <2> DEFINE b == <<len % 256>>
  <2>1. b \in Seq(Byte) /\ Len(b) = 1
    BY <1>1, OneByte
  <2>2. p = PutUnchecked(w, b)
    BY <1>5 DEF Before
  <2> HIDE DEF b
  <2>3. Full(p)
    BY <2>1, <2>2, PutUncheckedIsFull
  <2> HIDE DEF p
  <2> QED
    BY <1>2, <1>3, <1>4, <2>3, PutIsFull
<1>6. CASE ~(len < 127)
  <2>1. len > 0 /\ Len(s) >= 2
    BY <1>1, <1>3, <1>6
  <2> HIDE DEF p
  <2>2. Full(Put(p, s))
    BY <1>3, <1>4, <2>1, PutIsFull
  <2> QED
    BY <1>2, <2>1, <2>2
<1> QED
  BY <1>5, <1>6

LEMMA PlainIsFull ==
  ASSUME NEW K, NEW S, NEW e \in ExtraIn(K, S), ~NullPlain(e), NEW w, Sound(w), Full(w)
  PROVE  Full(PutPlain(w, e))
<1>1. CASE e.type \in Scalars
  <2> DEFINE t == BigEnd(Width(e.type), e.val)
  <2>1. t \in Seq(Byte)
    BY <1>1, ScalarIs, BigEndIs
  <2>2. PutPlain(w, e) = Put(w, t)
    BY <1>1, PutPlainIs
  <2> HIDE DEF t
  <2> QED
    BY <2>1, <2>2, PutIsFull
<1>2. CASE e.type = PREFIX_TYPE_STRINGG
  <2>1. e.val \in Name
    BY <1>2, ElementIs DEF NullPlain
  <2> QED
    BY <1>2, <2>1, PutPlainIs, PutStringIsFull
<1>3. CASE e.type = PREFIX_TYPE_BYTEBUFFER
  <2>1. e.val \in Seq(Byte) /\ Len(e.val) \in Nat
    BY <1>3, ElementIs DEF NullPlain, Name
  <2>2. CASE e.val = <<>>
    BY <1>3, <2>2, PutPlainIs, RefusedIsFull
  <2>3. CASE e.val # <<>>
    <3> DEFINE l == BigEnd(2, Len(e.val))
    <3>1. l \in Seq(Byte)
      BY <2>1, LengthTwo
    <3>2. PutPlain(w, e) = Put(Put(w, l), e.val)
      BY <1>3, <2>3, PutPlainIs
    <3> HIDE DEF l
    <3>3. Full(Put(w, l)) /\ Sound(Put(w, l))
      BY <3>1, PutIsFull, PutGrows DEF Grown
    <3> QED
      BY <2>1, <3>2, <3>3, PutIsFull
  <2> QED
    BY <2>2, <2>3
<1>4. CASE e.type \notin Scalars \cup {PREFIX_TYPE_STRINGG, PREFIX_TYPE_BYTEBUFFER}
  BY <1>4, PutPlainIs
<1> QED
  BY <1>1, <1>2, <1>3, <1>4

MapsFull(S, put) ==
  \A list \in Seq(Named(S)) : \A w : Sound(w) /\ Full(w) => Full(Called(put, w, list))

LEMMA ElementIsFull ==
  ASSUME NEW K, NEW S, NEW e \in ExtraIn(K, S), NEW strKey, KeyFits(strKey, e.key),
         NEW put, MapsFull(S, put), NEW w, Sound(w), Full(w)
  PROVE  Full(PutElement(w, e, strKey, put))
<1> DEFINE w2 == PutElement(w, e, strKey, put)
           u == PutKey(w, e.key, strKey)
           b == TypeOf(e)
           p == Put(u, <<b>>)
<1>1. b \in Byte
  BY TypeOfIs
<1>2. Sound(u)
  BY PutKeyGrows
<1>3. Full(u)
  <2>1. CASE strKey
    <3>1. e.key \in Name \cup {Null} /\ u = WriteString(w, e.key)
      BY <2>1 DEF KeyFits, PutKey
    <3> HIDE DEF u
    <3> QED
      BY <3>1, WriteStringIsFull
  <2>2. CASE ~strKey
    <3> DEFINE t == BigEnd(1, e.key)
    <3>1. t \in Seq(Byte)
      <4>1. e.key \in Int /\ 1 \in {1, 2, 4, 8}
        BY <2>2 DEF KeyFits, SmallInt, Between
      <4> QED
        BY <4>1, BigEndIs
    <3>2. u = Put(w, t)
      BY <2>2 DEF PutKey
    <3> HIDE DEF t, u
    <3> QED
      BY <3>1, <3>2, PutIsFull
  <2> QED
    BY <2>1, <2>2
<1>4. w2 = IF ~p.ok \/ NullPlain(e) THEN p
           ELSE IF e.type = PREFIX_TYPE_MAP THEN Called(put, p, e.val)
           ELSE PutPlain(p, e)
  BY PutElementIs
<1> HIDE DEF u, b
<1>5. Sound(p) /\ Full(p)
  <2> DEFINE t == <<b>>
  <2>1. t \in Seq(Byte)
    BY <1>1, ByteAlone
  <2> HIDE DEF t
  <2>2. Sound(Put(u, t)) /\ Full(Put(u, t))
    BY <1>2, <1>3, <2>1, PutGrows, PutIsFull DEF Grown
  <2> QED
    BY <2>2 DEF t
<1> HIDE DEF p, w2
<1>6. Full(w2)
  <2>1. CASE w2 = p
    BY <1>5, <2>1
  <2>2. CASE ~NullPlain(e) /\ e.type = PREFIX_TYPE_MAP /\ w2 = Called(put, p, e.val)
    <3>1. e.val \in Seq(Named(S))
      BY <2>2, ElementIs, TypesDiffer
    <3> QED
      BY <1>5, <2>2, <3>1 DEF MapsFull
  <2>3. CASE ~NullPlain(e) /\ w2 = PutPlain(p, e)
    <3>1. Full(PutPlain(p, e))
      BY <1>5, <2>3, PlainIsFull
    <3> QED
      BY <2>3, <3>1
  <2> QED
    BY <1>4, <2>1, <2>2, <2>3
<1> QED
  BY <1>6 DEF w2

LEMMA ListIsFull ==
  ASSUME NEW K, NEW S, NEW list, NEW strKey, ListFits(list, K, S, strKey),
         NEW put, MapsGrow(S, put), MapsFull(S, put), NEW w, Sound(w), Full(w)
  PROVE  Full(PutList(w, list, strKey, put))
<1> DEFINE L == Len(list)
           q == PutHead(w, list, strKey)
           w2 == PutElements(q, list, strKey, put)
<1>1. L \in Nat
  BY DEF ListFits
<1>2. Sound(q)
  BY <1>1, HeadGrows
<1>3. Full(q)
  <2> DEFINE t == <<L % 256>>
             t2 == <<IF strKey THEN 1 ELSE 0>>
  <2>1. t \in Seq(Byte) /\ Len(t) = 1
    BY <1>1, OneByte
  <2>2. t2 \in Seq(Byte)
    BY SmallIsByte
  <2>3. q = Put(PutUnchecked(w, t), t2)
    BY DEF PutHead
  <2> HIDE DEF t, t2, q
  <2>4. Sound(PutUnchecked(w, t))
    BY <2>1, PutUncheckedGrows DEF Grown
  <2>5. Full(PutUnchecked(w, t))
    BY <2>1, PutUncheckedIsFull
  <2> QED
    BY <2>2, <2>3, <2>4, <2>5, PutIsFull
<1> HIDE DEF q
<1>4. PICK f : ElementsPut(f, q, list, strKey, put)
  BY <1>1, PutElementsIs
<1>5. f[0] = q /\ w2 = f[L] /\ Stepwise(f, L)
      /\ \A k \in 1 .. L : f[k] = PutElement(f[k - 1], list[k], strKey, put)
  BY <1>4, ElementsGrow DEF ElementsPut
<1>6. \A i \in 0 .. L : Sound(f[i])
  <2>1. Sound(f[0])
    BY <1>2, <1>5
  <2> HIDE DEF L
  <2> QED
    BY <1>1, <1>5, <2>1, GrownByOne
<1>7. ASSUME NEW k \in 1 .. L, Full(f[k - 1]) PROVE Full(f[k])
  <2> DEFINE e == list[k]
             a == f[k - 1]
  <2>1. Sound(a) /\ Full(a) /\ f[k] = PutElement(a, e, strKey, put)
    <3>1. k - 1 \in 0 .. L
      BY <1>1
    <3> QED
      BY <1>5, <1>6, <1>7, <3>1
  <2>2. e \in ExtraIn(K, S) /\ KeyFits(strKey, e.key)
    BY DEF ListFits
  <2> HIDE DEF e, a
  <2> QED
    BY <2>1, <2>2, ElementIsFull
<1> DEFINE T == {k \in Nat : k <= L => Full(f[k])}
<1>8. 0 \in T
  BY <1>3, <1>5
<1>9. ASSUME NEW k \in T PROVE k + 1 \in T
  <2>1. SUFFICES ASSUME k + 1 <= L PROVE Full(f[k + 1])
    OBVIOUS
  <2>2. k \in Nat /\ k <= L /\ k + 1 \in 1 .. L /\ (k + 1) - 1 = k
    BY <1>1, <2>1
  <2>3. Full(f[k])
    BY <2>2
  <2> QED
    BY <1>7, <2>2, <2>3
<1>10. T = Nat
  <2>1. T \in SUBSET Nat
    OBVIOUS
  <2> HIDE DEF T
  <2> QED
    BY <1>8, <1>9, <2>1, EveryNumber
<1>11. Full(f[L])
  <2>1. L \in T /\ L <= L
    BY <1>1, <1>10
  <2> QED
    BY <2>1
<1> HIDE DEF w2
<1>12. Full(w2)
  BY <1>5, <1>11
<1> QED
  BY <1>12, PutListIs, RefusedIsFull DEF w2, q

LEMMA PutMapIsFull ==
  \A d \in 0 .. Depth : MapsFull(Tree[d], PutMap[d])
<1> DEFINE P == {d \in 0 .. Depth : MapsFull(Tree[d], PutMap[d])}
<1>1. 0 \in P
  <2>1. Tree[0] = {} /\ 0 \in 0 .. Depth
    BY TreeIs, DepthIsNat
  <2>2. PutMap[0] = [x \in WriterState \X Seq(Named(Tree[0])) |->
                       PutList(x[1], x[2], TRUE, IF 0 = 0 THEN <<>> ELSE PutMap[0 - 1])]
    BY <2>1, PutMapIs
  <2>3. ASSUME NEW list \in Seq(Named(Tree[0])), NEW w, Sound(w)
        PROVE  Full(Called(PutMap[0], w, list))
    <3> DEFINE S == Seq(Named(Tree[0]))
               put == IF 0 = 0 THEN <<>> ELSE PutMap[0 - 1]
    <3>1. list = <<>>
      BY <2>1, <2>3, NothingInside
    <3>2. w \in WriterState
      BY <2>3 DEF Sound
    <3> HIDE DEF S, put
    <3>3. PutMap[0] = [x \in WriterState \X S |-> PutList(x[1], x[2], TRUE, put)]
      BY <2>2 DEF S, put
    <3>4. list \in S
      BY DEF S
    <3>5. <<w, list>> \in WriterState \X S /\ <<w, list>>[1] = w /\ <<w, list>>[2] = list
      BY <3>2, <3>4
    <3>6. Called(PutMap[0], w, list) = PutList(w, list, TRUE, put)
      BY <3>3, <3>5 DEF Called
    <3>7. PutList(w, list, TRUE, put) = Refused(w)
      BY <3>1, PutListIs
    <3> QED
      BY <3>6, <3>7, RefusedIsFull
  <2> QED
    BY <2>1, <2>3 DEF MapsFull
<1>2. ASSUME NEW d \in 1 .. Depth, d - 1 \in P PROVE d \in P
  <2>1. d \in 0 .. Depth /\ d # 0 /\ d - 1 \in 0 .. Depth
    BY <1>2, DepthIsNat
  <2> DEFINE put == PutMap[d - 1]
             S == Tree[d - 1]
             K == Name \cup {Null}
             M == Seq(Named(Tree[d]))
  <2>2. MapsGrow(S, put) /\ MapsFull(S, put)
    BY <1>2, <2>1, PutMapGrows
  <2>3. /\ Tree[d] = ExtraIn(K, S)
        /\ PutMap[d] = [x \in WriterState \X M |-> PutList(x[1], x[2], TRUE, put)]
    BY <2>1, OneMapLess
  <2> HIDE DEF put, S, M
  <2>4. ASSUME NEW list \in M, NEW w, Sound(w), Full(w) PROVE Full(Called(PutMap[d], w, list))
    <3>1. Called(PutMap[d], w, list) = PutList(w, list, TRUE, put)
      <4>1. w \in WriterState
        BY <2>4 DEF Sound
      <4>2. <<w, list>> \in WriterState \X M /\ <<w, list>>[1] = w /\ <<w, list>>[2] = list
        BY <4>1
      <4> QED
        BY <2>3, <4>2 DEF Called
    <3>2. ListFits(list, K, S, TRUE)
      BY <2>3, <2>4, MapFits DEF M
    <3> HIDE DEF K
    <3>3. Full(PutList(w, list, TRUE, put))
      BY <2>2, <2>4, <3>2, ListIsFull
    <3> QED
      BY <3>1, <3>3
  <2>5. MapsFull(Tree[d], PutMap[d])
    BY <2>4 DEF MapsFull, M
  <2> QED
    BY <2>1, <2>5
<1>3. P \in SUBSET Nat
  OBVIOUS
<1>4. \A d \in 0 .. Depth : d \in P
  <2> HIDE DEF P
  <2> QED
    BY <1>1, <1>2, <1>3, DepthInduction
<1> QED
  BY <1>4

\* extra_encode makes of a buffer one that is longer, and full if something was lost.
LEMMA ExtrasGrow ==
  ASSUME NEW K, NEW list, NEW strKey, ListFits(list, K, Tree[Depth], strKey), NEW w, Sound(w)
  PROVE  /\ Grown(w, EncodeExtras(w, list, strKey))
         /\ Full(w) => Full(EncodeExtras(w, list, strKey))
<1>1. Depth \in 0 .. Depth
  BY DepthIsNat
<1>2. MapsGrow(Tree[Depth], PutMap[Depth]) /\ MapsFull(Tree[Depth], PutMap[Depth])
  BY <1>1, PutMapGrows, PutMapIsFull
<1> QED
  BY <1>2, ListGrows, ListIsFull DEF EncodeExtras

-----------------------------------------------------------------------------
(* Into a buffer of its own and back                                       *)

LEMMA NewWriter ==
  ASSUME NEW cap \in Nat, cap < 32768
  PROVE  /\ Sound(Writer(cap)) /\ Full(Writer(cap)) /\ Writer(cap).ok /\ ~Writer(cap).lost
         /\ Writer(cap).bytes = <<>> /\ Writer(cap).cap = cap
<1> DEFINE e == <<>>
<1>1. e \in Seq(Byte) /\ Len(e) = 0
  OBVIOUS
<1>2. Writer(cap) = [bytes |-> e, cap |-> cap, ok |-> TRUE, lost |-> FALSE]
  BY DEF Writer, Writing
<1> HIDE DEF e
<1>3. /\ Sound(Writer(cap)) /\ Full(Writer(cap)) /\ Writer(cap).ok /\ ~Writer(cap).lost
      /\ Writer(cap).bytes = e /\ Writer(cap).cap = cap
  BY <1>1, <1>2 DEF Sound, Full, WriterState
<1> QED
  BY <1>3 DEF e

LEMMA ExtrasFit ==
  ASSUME NEW list \in Extras, NEW strKey \in BOOLEAN, ~strKey
  PROVE  ListFits(list, SmallInt, Tree[Depth], strKey)
<1> DEFINE S == ExtraIn(SmallInt, Tree[Depth])
<1>1. list \in Seq(S)
  BY DEF Extras
<1>2. IsSeq(list) /\ Len(list) \in Nat /\ \A i \in 1 .. Len(list) : list[i] \in S
  <2> HIDE DEF S
  <2> QED
    BY <1>1 DEF IsSeq
<1>3. \A i \in 1 .. Len(list) : list[i].key \in SmallInt
  BY <1>2, ElementIs
<1> QED
  BY <1>2, <1>3 DEF ListFits, KeyFits

LEMMA MapIsFit ==
  ASSUME NEW list \in Map, NEW strKey \in BOOLEAN, strKey
  PROVE  ListFits(list, Name, Tree[Depth], strKey)
<1> DEFINE S == ExtraIn(Name, Tree[Depth])
<1>1. list \in Seq(S)
  BY DEF Map
<1>2. IsSeq(list) /\ Len(list) \in Nat /\ \A i \in 1 .. Len(list) : list[i] \in S
  <2> HIDE DEF S
  <2> QED
    BY <1>1 DEF IsSeq
<1>3. \A i \in 1 .. Len(list) : list[i].key \in Name
  BY <1>2, ElementIs
<1> QED
  BY <1>2, <1>3, NullIsNothing DEF ListFits, KeyFits

LEMMA HoldsItself ==
  ASSUME NEW w, Sound(w), w.ok
  PROVE  w.bytes \in Seq(Byte) /\ Len(w.bytes) \in Nat /\ Held(w, w.bytes)
BY DEF Held, Sound, WriterState, Starts

\* A parameter that client_encodeExtra has written into a buffer of its own,
\* with room for all of it and with no string too long for a sint8_t, is what
\* client_decodeExtra reads from the bytes, however deep it is.
THEOREM ParamRoundTrip ==
  ASSUME NEW cap \in Nat, cap < 32768, NEW K, NEW e \in ExtraIn(K, Tree[Depth]),
         NEW w, w = EncodeExtra(Writer(cap), e), w.ok, ~w.lost, ~HasLong(e)
  PROVE  /\ DecodeExtra(Reader(w.bytes)).ok
         /\ DecodeExtra(Reader(w.bytes)).val = ParamArrived(e)
<1> DEFINE v == Writer(cap)
           s == w.bytes
           r == DecodeExtra(Reader(s))
<1>1. Sound(v) /\ v.bytes = <<>> /\ w = EncodeExtra(v, e)
  BY NewWriter
<1> HIDE DEF v
<1>2. Grown(v, PutParam(v, e, PutInner[Depth]))
  <2>1. Depth \in 0 .. Depth
    BY DepthIsNat
  <2>2. KeysNamed(Tree[Depth]) /\ InnerGrows(Tree[Depth], PutInner[Depth])
    BY <2>1, TreesNamed, PutInnerGrows
  <2> QED
    BY <1>1, <2>2, ParamGrows
<1>3. Sound(w)
  BY <1>1, <1>2 DEF EncodeExtra, Grown
<1>4. Held(w, s)
  BY <1>3, HoldsItself
<1> HIDE DEF s
<1>5. Back(s, EncodeExtra(v, e), DecodeExtra(Reader(s)), ParamArrived(e),
           ~EncodeExtra(v, e).lost /\ ~HasLong(e))
  BY <1>1, <1>4, ParamComesBack
<1>6. r = After(s, w, ParamArrived(e))
  BY <1>1, <1>5 DEF Back, Gives
<1> HIDE DEF r
<1>7. r.ok /\ r.val = ParamArrived(e)
  BY <1>6, AfterIs
<1> QED
  BY <1>7 DEF r, s

\* The list that extra_encode has written into a buffer of its own, under
\* numbers or under names, is what extra_decode reads from the bytes, the other
\* way round and to the last byte.
THEOREM ExtrasRoundTrip ==
  ASSUME NEW cap \in Nat, cap <= 513,
         NEW strKey \in BOOLEAN, NEW list \in IF strKey THEN Map ELSE Extras,
         NEW w, w = EncodeExtras(Writer(cap), list, strKey), w.ok, ~w.lost,
         ~MapHasLong(list)
  PROVE  /\ DecodeExtras(Reader(w.bytes)).ok
         /\ DecodeExtras(Reader(w.bytes)).val = ExtrasArrived(list)
         /\ DecodeExtras(Reader(w.bytes)).bytes = <<>>
<1> DEFINE v == Writer(cap)
           s == w.bytes
           keys == {}
           r == DecodeExtras(Reader(s))
<1>1. Sound(v) /\ v.bytes = <<>> /\ v.cap = cap
  <2>1. cap < 32768
    OBVIOUS
  <2> QED
    BY <2>1, NewWriter
<1>2. w = EncodeExtras(v, list, strKey)
  OBVIOUS
<1> HIDE DEF v, keys
<1>3. PICK K : ListFits(list, K, Tree[Depth], strKey)
  <2>1. CASE strKey
    <3>1. list \in Map
      BY <2>1
    <3> QED
      BY <2>1, <3>1, MapIsFit
  <2>2. CASE ~strKey
    <3>1. list \in Extras
      BY <2>2
    <3> QED
      BY <2>2, <3>1, ExtrasFit
  <2> QED
    BY <2>1, <2>2
<1>4. Sound(w)
  BY <1>1, <1>2, <1>3, ExtrasGrow DEF Grown
<1>5. s \in Seq(Byte) /\ Len(s) \in Nat /\ Held(w, s)
  BY <1>4, HoldsItself
<1> HIDE DEF s
<1>6. Reader(s) = After(s, v, Null)
  <2>1. Rest(s, Len(v.bytes)) = s
    BY <1>1, <1>5, RestOfAll
  <2> QED
    BY <2>1 DEF After, At, Reader
<1>7. Listed(s, EncodeExtras(v, list, strKey), DecodeExtras(After(s, v, Null)), ExtrasArrived(list),
             ~EncodeExtras(v, list, strKey).lost /\ ~MapHasLong(list), keys,
             ~EncodeExtras(v, list, strKey).lost /\ LongUnder(list, keys))
  BY <1>1, <1>2, <1>3, <1>5, ExtrasComeBack
<1>8. r = After(s, w, r.val) /\ r.val = ExtrasArrived(list)
  BY <1>2, <1>6, <1>7 DEF Listed
<1> HIDE DEF r
<1>9. r.ok /\ r.bytes = Rest(s, Len(w.bytes))
  BY <1>8 DEF After, At, Reading
<1>10. Rest(s, Len(s)) = <<>>
  <2>1. Rest(s, Len(s)) \in Seq(Byte) /\ Len(Rest(s, Len(s))) = Len(s) - Len(s)
    BY <1>5, RestIs
  <2>2. Len(Rest(s, Len(s))) = 0
    BY <1>5, <2>1
  <2> QED
    BY <2>1, <2>2
<1> QED
  BY <1>8, <1>9, <1>10 DEF r, s

=============================================================================
