---------------------------- MODULE BufferProofs ----------------------------
(***************************************************************************)
(* Theorems of the ring, for every capacity and every set of byte values,  *)
(* and of the two modules that are built on it: ByteBuffer, for every      *)
(* bound on the length of an operation, and MsgFraming, for every number   *)
(* of messages of any sizes.                                               *)
(***************************************************************************)
EXTENDS ByteBuffer, MsgFraming, WellFoundedInduction, TLAPS

-----------------------------------------------------------------------------
(* RingOps: what its primitives do to a ring whose status bits are exact    *)

(* bb_init makes a ring that is empty and says so.                         *)
LEMMA NewRingExact == NewRing \in Ring /\ StatusExact(NewRing)
  BY CapPositive, ZeroIsByte DEF NewRing, Ring, Pos, StatusExact

(* bb_reset makes an empty ring of any ring.                               *)
LEMMA ResetExact ==
  ASSUME NEW b \in Ring
  PROVE  /\ Reset(b) \in Ring
         /\ StatusExact(Reset(b))
<1>1. 0 \in Pos
  BY CapPositive DEF Pos
<1>2. /\ Reset(b) \in Ring
      /\ Reset(b).rpos = 0 /\ Reset(b).wpos = 0
      /\ Reset(b).empty /\ ~Reset(b).full
  BY <1>1 DEF Reset, Ring
<1> QED
  BY <1>2 DEF StatusExact

(* A position is moved round the ring by n with one subtraction at most.   *)
LEMMA AdvanceStep ==
  ASSUME NEW p \in Pos, NEW n \in 0..Cap
  PROVE  /\ Advance(p, n) \in Pos
         /\ Advance(p, n) = IF p + n < Cap THEN p + n ELSE p + n - Cap
  BY CapPositive DEF Advance, Pos

(* What can be read and what can be written make up the capacity.          *)
LEMMA LengthsAddUp ==
  ASSUME NEW b \in Ring, StatusExact(b)
  PROVE  /\ ReadableLen(b) \in 0..Cap
         /\ WriteableLen(b) = Cap - ReadableLen(b)
         /\ IsEmpty(b) <=> ReadableLen(b) = 0
         /\ IsFull(b) <=> WriteableLen(b) = 0
  BY CapPositive
     DEF Ring, Pos, StatusExact, ReadableLen, WriteableLen, IsEmpty, IsFull

(* The checks before a read or a write compare its length with what can be *)
(* read or written, and nothing else.                                      *)
LEMMA ChecksCompareLengths ==
  ASSUME NEW b \in Ring, StatusExact(b), NEW n \in Nat \ {0}
  PROVE  /\ CheckRead(b, n) <=> n <= ReadableLen(b)
         /\ CheckWrite(b, n) <=> n <= WriteableLen(b)
  BY LengthsAddUp, CapPositive DEF CheckRead, CheckWrite

(* _bb_get_u8 on a ring that is not empty takes one byte out of it.        *)
LEMMA GetRawExact ==
  ASSUME NEW b \in Ring, StatusExact(b), ReadableLen(b) > 0
  PROVE  /\ GetRaw(b) \in Ring
         /\ StatusExact(GetRaw(b))
         /\ ReadableLen(GetRaw(b)) = ReadableLen(b) - 1
         /\ GetRaw(b).data = b.data /\ GetRaw(b).wpos = b.wpos
<1>1. b.rpos \in Pos /\ 1 \in 0..Cap
  BY CapPositive DEF Ring
<1>2. /\ Advance(b.rpos, 1) \in Pos
      /\ Advance(b.rpos, 1) =
           IF b.rpos + 1 < Cap THEN b.rpos + 1 ELSE b.rpos + 1 - Cap
  BY <1>1, AdvanceStep
<1>3. /\ GetRaw(b) \in Ring
      /\ GetRaw(b).rpos = Advance(b.rpos, 1)
      /\ GetRaw(b).wpos = b.wpos
      /\ GetRaw(b).data = b.data
      /\ GetRaw(b).full <=> b.full /\ ~IsFull(b)
      /\ GetRaw(b).empty <=> b.empty \/ Advance(b.rpos, 1) = b.wpos
  BY <1>2 DEF GetRaw, Ring
<1>4. b.rpos \in 0..(Cap - 1) /\ b.wpos \in 0..(Cap - 1)
  BY DEF Ring, Pos
<1>5. StatusExact(GetRaw(b))
  BY <1>2, <1>3, <1>4, CapPositive DEF StatusExact, ReadableLen, IsFull
<1>6. ReadableLen(GetRaw(b)) = ReadableLen(b) - 1
  <2>1. CASE Advance(b.rpos, 1) = b.wpos
    BY <1>2, <1>3, <1>4, <1>5, <2>1, CapPositive
       DEF StatusExact, ReadableLen, IsFull
  <2>2. CASE Advance(b.rpos, 1) # b.wpos
    BY <1>2, <1>3, <1>4, <2>2, CapPositive
       DEF StatusExact, ReadableLen, IsFull
  <2> QED
    BY <2>1, <2>2
<1> QED
  BY <1>3, <1>5, <1>6

(* bb_put_u8 on a ring that is not full adds one byte to it.               *)
LEMMA PutRawExact ==
  ASSUME NEW b \in Ring, StatusExact(b), WriteableLen(b) > 0, NEW x \in Byte
  PROVE  /\ PutRaw(b, x) \in Ring
         /\ StatusExact(PutRaw(b, x))
         /\ ReadableLen(PutRaw(b, x)) = ReadableLen(b) + 1
         /\ PutRaw(b, x).rpos = b.rpos
<1>1. b.wpos \in Pos /\ 1 \in 0..Cap
  BY CapPositive DEF Ring
<1>2. /\ Advance(b.wpos, 1) \in Pos
      /\ Advance(b.wpos, 1) =
           IF b.wpos + 1 < Cap THEN b.wpos + 1 ELSE b.wpos + 1 - Cap
  BY <1>1, AdvanceStep
<1>3. /\ PutRaw(b, x) \in Ring
      /\ PutRaw(b, x).rpos = b.rpos
      /\ PutRaw(b, x).wpos = Advance(b.wpos, 1)
      /\ PutRaw(b, x).empty <=> b.empty /\ ~IsEmpty(b)
      /\ PutRaw(b, x).full <=> b.full \/ Advance(b.wpos, 1) = b.rpos
  BY <1>1, <1>2 DEF PutRaw, Ring
<1>4. b.rpos \in 0..(Cap - 1) /\ b.wpos \in 0..(Cap - 1)
  BY DEF Ring, Pos
<1>5. b.rpos = b.wpos => b.empty /\ ~b.full
  BY DEF StatusExact, WriteableLen, IsEmpty
<1>6. StatusExact(PutRaw(b, x))
  BY <1>2, <1>3, <1>4, <1>5, CapPositive DEF StatusExact, IsEmpty
<1>7. ReadableLen(PutRaw(b, x)) = ReadableLen(b) + 1
  BY <1>2, <1>3, <1>4, <1>5, CapPositive
     DEF StatusExact, ReadableLen, IsEmpty, IsFull
<1> QED
  BY <1>3, <1>6, <1>7

(* bb_rmove_forward by no more than can be read takes n bytes out.         *)
LEMMA MoveForwardExact ==
  ASSUME NEW b \in Ring, StatusExact(b),
         NEW n \in 1..Cap, n <= ReadableLen(b)
  PROVE  /\ MoveForward(b, n) \in Ring
         /\ StatusExact(MoveForward(b, n))
         /\ ReadableLen(MoveForward(b, n)) = ReadableLen(b) - n
         /\ MoveForward(b, n).data = b.data
         /\ MoveForward(b, n).wpos = b.wpos
<1>1. b.rpos \in Pos /\ n \in 0..Cap
  BY CapPositive DEF Ring
<1>2. /\ Advance(b.rpos, n) \in Pos
      /\ Advance(b.rpos, n) =
           IF b.rpos + n < Cap THEN b.rpos + n ELSE b.rpos + n - Cap
  BY <1>1, AdvanceStep
<1>3. /\ MoveForward(b, n) \in Ring
      /\ MoveForward(b, n).rpos = Advance(b.rpos, n)
      /\ MoveForward(b, n).wpos = b.wpos
      /\ MoveForward(b, n).data = b.data
      /\ MoveForward(b, n).full <=> b.full /\ ~IsFull(b)
      /\ MoveForward(b, n).empty <=>
           b.empty \/ Advance(b.rpos, n) = b.wpos
  BY <1>2 DEF MoveForward, Ring
<1>4. b.rpos \in 0..(Cap - 1) /\ b.wpos \in 0..(Cap - 1)
  BY DEF Ring, Pos
<1>5. StatusExact(MoveForward(b, n))
  BY <1>2, <1>3, <1>4, CapPositive DEF StatusExact, ReadableLen, IsFull
<1>6. ReadableLen(MoveForward(b, n)) = ReadableLen(b) - n
  BY <1>2, <1>3, <1>4, CapPositive DEF StatusExact, ReadableLen, IsFull
<1> QED
  BY <1>3, <1>5, <1>6

-----------------------------------------------------------------------------
(* The content                                                             *)

(* Where the bytes to be read lie: from rpos on, in front of wpos.         *)
LEMMA ReadPlaces ==
  ASSUME NEW b \in Ring, StatusExact(b)
  PROVE  /\ \A i \in 0..ReadableLen(b) : Advance(b.rpos, i) \in Pos
         /\ \A i \in 0..ReadableLen(b) :
              i < ReadableLen(b) /\ ReadableLen(b) < Cap
                => Advance(b.rpos, i) # b.wpos
         /\ Advance(b.rpos, ReadableLen(b)) = b.wpos
<1>1. /\ b.rpos \in Pos /\ b.wpos \in Pos
      /\ ReadableLen(b) \in 0..Cap
      /\ b.rpos \in 0..(Cap - 1) /\ b.wpos \in 0..(Cap - 1)
  BY LengthsAddUp DEF Ring, Pos
<1>2. ReadableLen(b) = IF b.wpos = b.rpos THEN IF b.full THEN Cap ELSE 0
                       ELSE IF b.wpos > b.rpos THEN b.wpos - b.rpos
                       ELSE Cap - (b.rpos - b.wpos)
  BY DEF ReadableLen, IsFull
<1>3. ASSUME NEW i \in 0..ReadableLen(b)
      PROVE  /\ Advance(b.rpos, i) \in Pos
             /\ Advance(b.rpos, i) = IF b.rpos + i < Cap THEN b.rpos + i
                                     ELSE b.rpos + i - Cap
  <2>1. i \in 0..Cap
    BY <1>1, CapPositive
  <2> QED
    BY <1>1, <2>1, AdvanceStep
<1>4. ASSUME NEW i \in 0..ReadableLen(b), i < ReadableLen(b),
             ReadableLen(b) < Cap
      PROVE  Advance(b.rpos, i) # b.wpos
  BY <1>1, <1>2, <1>3, <1>4, CapPositive
<1>5. ReadableLen(b) \in 0..ReadableLen(b)
  BY <1>1, CapPositive
<1>6. Advance(b.rpos, ReadableLen(b)) = b.wpos
  BY <1>1, <1>2, <1>3, <1>5, CapPositive
<1> QED
  BY <1>3, <1>4, <1>6

(* The content is a sequence of as many bytes as can be read.              *)
LEMMA ContentIsSeq ==
  ASSUME NEW b \in Ring, StatusExact(b)
  PROVE  /\ Content(b) \in Seq(Byte)
         /\ Len(Content(b)) = ReadableLen(b)
         /\ \A i \in 1..ReadableLen(b) :
              Content(b)[i] = b.data[Advance(b.rpos, i - 1)]
<1>1. ReadableLen(b) \in Nat /\ b.data \in [Pos -> Byte]
  BY LengthsAddUp, CapPositive DEF Ring
<1>2. ASSUME NEW i \in 1..ReadableLen(b)
      PROVE  b.data[Advance(b.rpos, i - 1)] \in Byte
  <2>1. i - 1 \in 0..ReadableLen(b)
    BY <1>1
  <2> QED
    BY <1>1, <2>1, ReadPlaces
<1> QED
  BY <1>1, <1>2 DEF Content

(* bb_put_u8 puts the byte behind the others.                              *)
LEMMA PutAppends ==
  ASSUME NEW b \in Ring, StatusExact(b), WriteableLen(b) > 0, NEW x \in Byte
  PROVE  Content(PutRaw(b, x)) = Append(Content(b), x)
<1> DEFINE c == PutRaw(b, x)
<1>1. /\ c \in Ring /\ StatusExact(c)
      /\ ReadableLen(c) = ReadableLen(b) + 1 /\ c.rpos = b.rpos
  BY PutRawExact
<1>2. /\ ReadableLen(b) \in Nat /\ ReadableLen(b) < Cap
      /\ b.data \in [Pos -> Byte] /\ b.wpos \in Pos
  BY LengthsAddUp, CapPositive DEF Ring
<1>3. c.data = [b.data EXCEPT ![b.wpos] = x]
  BY DEF PutRaw, Ring
<1> HIDE DEF c
<1>4. /\ Content(b) \in Seq(Byte) /\ Len(Content(b)) = ReadableLen(b)
      /\ \A i \in 1..ReadableLen(b) :
           Content(b)[i] = b.data[Advance(b.rpos, i - 1)]
  BY ContentIsSeq
<1>5. /\ Content(c) \in Seq(Byte) /\ Len(Content(c)) = ReadableLen(b) + 1
      /\ \A i \in 1..(ReadableLen(b) + 1) :
           Content(c)[i] = c.data[Advance(b.rpos, i - 1)]
  BY <1>1, ContentIsSeq
<1>6. ASSUME NEW i \in 1..ReadableLen(b) PROVE Content(c)[i] = Content(b)[i]
  <2>1. i - 1 \in 0..ReadableLen(b) /\ i - 1 < ReadableLen(b)
    BY <1>2
  <2>2. Advance(b.rpos, i - 1) \in Pos /\ Advance(b.rpos, i - 1) # b.wpos
    BY <1>2, <2>1, ReadPlaces
  <2>3. c.data[Advance(b.rpos, i - 1)] = b.data[Advance(b.rpos, i - 1)]
    BY <1>2, <1>3, <2>2
  <2>4. i \in 1..(ReadableLen(b) + 1)
    BY <1>2
  <2> QED
    BY <1>4, <1>5, <2>3, <2>4
<1>7. Content(c)[ReadableLen(b) + 1] = x
  <2>1. ReadableLen(b) + 1 \in 1..(ReadableLen(b) + 1)
        /\ (ReadableLen(b) + 1) - 1 = ReadableLen(b)
    BY <1>2
  <2>2. Advance(b.rpos, ReadableLen(b)) = b.wpos
    BY ReadPlaces
  <2>3. c.data[b.wpos] = x
    BY <1>2, <1>3
  <2> QED
    BY <1>5, <2>1, <2>2, <2>3
<1>8. Content(c) = Append(Content(b), x)
  BY <1>2, <1>4, <1>5, <1>6, <1>7
<1> QED
  BY <1>8 DEF c

(* Skipping n bytes leaves the content behind them.                        *)
LEMMA SkipsBytes ==
  ASSUME NEW b \in Ring, StatusExact(b), NEW c \in Ring, StatusExact(c),
         NEW n \in 1..Cap, n <= ReadableLen(b),
         ReadableLen(c) = ReadableLen(b) - n,
         c.data = b.data, c.rpos = Advance(b.rpos, n)
  PROVE  Content(c) = SubSeq(Content(b), n + 1, Len(Content(b)))
<1>1. /\ Content(b) \in Seq(Byte) /\ Len(Content(b)) = ReadableLen(b)
      /\ \A i \in 1..ReadableLen(b) :
           Content(b)[i] = b.data[Advance(b.rpos, i - 1)]
  BY ContentIsSeq
<1>2. /\ Content(c) \in Seq(Byte) /\ Len(Content(c)) = ReadableLen(b) - n
      /\ \A i \in 1..(ReadableLen(b) - n) :
           Content(c)[i] = c.data[Advance(c.rpos, i - 1)]
  BY ContentIsSeq
<1>3. /\ ReadableLen(b) \in 0..Cap /\ n \in Nat /\ n <= Cap
      /\ b.rpos \in 0..(Cap - 1) /\ Cap \in Nat
  BY LengthsAddUp, CapPositive DEF Ring, Pos
<1>4. ASSUME NEW i \in 1..(ReadableLen(b) - n)
      PROVE  Content(c)[i] = Content(b)[i + n]
  <2>1. i + n \in 1..ReadableLen(b) /\ (i + n) - 1 = (i - 1) + n
        /\ i - 1 \in 0..Cap /\ (i - 1) + n \in 0..Cap
    BY <1>3
  <2>2. Advance(c.rpos, i - 1) = Advance(b.rpos, (i - 1) + n)
    <3>1. /\ b.rpos \in Pos /\ c.rpos \in Pos /\ n \in 0..Cap
          /\ c.rpos \in 0..(Cap - 1)
      BY <1>3 DEF Ring, Pos
    <3>2. c.rpos = IF b.rpos + n < Cap THEN b.rpos + n ELSE b.rpos + n - Cap
      BY <3>1, AdvanceStep
    <3>3. Advance(c.rpos, i - 1) = IF c.rpos + (i - 1) < Cap THEN c.rpos + (i - 1)
                                   ELSE c.rpos + (i - 1) - Cap
      BY <2>1, <3>1, AdvanceStep
    <3>4. Advance(b.rpos, (i - 1) + n)
            = IF b.rpos + ((i - 1) + n) < Cap THEN b.rpos + ((i - 1) + n)
              ELSE b.rpos + ((i - 1) + n) - Cap
      BY <2>1, <3>1, AdvanceStep
    <3> QED
      BY <1>3, <2>1, <3>1, <3>2, <3>3, <3>4
  <2> QED
    BY <1>1, <1>2, <2>1, <2>2
<1> QED
  BY <1>1, <1>2, <1>3, <1>4

(* _bb_get_u8 takes the oldest byte.                                       *)
LEMMA GetTakesOldest ==
  ASSUME NEW b \in Ring, StatusExact(b), ReadableLen(b) > 0
  PROVE  Content(b) # <<>> /\ Content(GetRaw(b)) = Tail(Content(b))
<1>1. /\ GetRaw(b) \in Ring /\ StatusExact(GetRaw(b))
      /\ ReadableLen(GetRaw(b)) = ReadableLen(b) - 1
      /\ GetRaw(b).data = b.data
  BY GetRawExact
<1>2. GetRaw(b).rpos = Advance(b.rpos, 1)
  BY DEF GetRaw, Ring
<1>3. ReadableLen(b) \in 0..Cap /\ 1 \in 1..Cap /\ 1 <= ReadableLen(b)
  BY LengthsAddUp, CapPositive
<1>4. Content(GetRaw(b)) = SubSeq(Content(b), 1 + 1, Len(Content(b)))
  BY <1>1, <1>2, <1>3, SkipsBytes
<1>5. Content(b) \in Seq(Byte) /\ Len(Content(b)) > 0
  BY ContentIsSeq
<1> QED
  BY <1>4, <1>5

(* bb_rmove_forward leaves what is behind the bytes it skips.              *)
LEMMA ForwardSkips ==
  ASSUME NEW b \in Ring, StatusExact(b), NEW n \in 1..Cap, n <= ReadableLen(b)
  PROVE  Content(MoveForward(b, n)) = SubSeq(Content(b), n + 1, Len(Content(b)))
<1>1. /\ MoveForward(b, n) \in Ring /\ StatusExact(MoveForward(b, n))
      /\ ReadableLen(MoveForward(b, n)) = ReadableLen(b) - n
      /\ MoveForward(b, n).data = b.data
  BY MoveForwardExact
<1>2. MoveForward(b, n).rpos = Advance(b.rpos, n)
  BY DEF MoveForward, Ring
<1> QED
  BY <1>1, <1>2, SkipsBytes

(* bb_reset leaves nothing to be read.                                     *)
LEMMA ResetEmpties ==
  ASSUME NEW b \in Ring
  PROVE  Content(Reset(b)) = <<>>
<1>1. ReadableLen(Reset(b)) = 0
  BY DEF Reset, Ring, ReadableLen, IsFull
<1>2. Reset(b) \in Ring /\ StatusExact(Reset(b))
  BY ResetExact
<1> QED
  BY <1>1, <1>2, ContentIsSeq

-----------------------------------------------------------------------------
(* ByteBuffer                                                              *)

(* The ring with its reader put back to mark m.                            *)
Rewound(m) == [buf EXCEPT !.rpos = m.rpos, !.empty = m.empty, !.full = m.full]

(* What is left of an operation was covered by its length check.           *)
OpCovered ==
  /\ op.kind = "none" => op.left = 0
  /\ op.kind = "put" => op.left \in 1..WriteableLen(buf) /\ ~IsFull(buf)
  /\ op.kind = "get" => op.left \in 1..ReadableLen(buf)

(* While wpos is where it was at bb_rmark, going back to the mark gives a  *)
(* ring whose status bits are exact, wherever rpos was set to since.       *)
MarkExact == markOpen => \A m \in rmark : StatusExact(Rewound(m))

(* The inductive invariant.                                                *)
IInv ==
  /\ TypeOK
  /\ StatusIsExact
  /\ NoByteDropped
  /\ OpCovered
  /\ MarkExact

(* A loop has the type of an operation.                                    *)
LEMMA LoopType ==
  ASSUME NEW kind \in {"put", "get"}, NEW n \in 0..MaxOp
  PROVE  /\ Loop(kind, n) \in Op
         /\ n = 0 => Loop(kind, n).kind = "none" /\ Loop(kind, n).left = 0
         /\ n # 0 => Loop(kind, n).kind = kind /\ Loop(kind, n).left = n
  BY MaxOpIsNat DEF Loop, NoOp, Op

(* Both lengths are within the capacity whatever the status bits say.      *)
LEMMA LengthsBounded ==
  ASSUME NEW b \in Ring
  PROVE  ReadableLen(b) \in 0..Cap /\ WriteableLen(b) \in 0..Cap
  BY CapPositive
     DEF Ring, Pos, ReadableLen, WriteableLen, IsEmpty, IsFull

(* One byte written takes one from the room there is, whatever the status  *)
(* bits were: the rest of a write stays covered.                           *)
LEMMA PutLeavesRoom ==
  ASSUME NEW b \in Ring, NEW x \in Byte, NEW n \in Nat,
         n <= WriteableLen(b), n >= 1
  PROVE  /\ PutRaw(b, x) \in Ring
         /\ n - 1 >= 1 => /\ n - 1 <= WriteableLen(PutRaw(b, x))
                          /\ ~IsFull(PutRaw(b, x))
<1> DEFINE w == Advance(b.wpos, 1)
<1>a. b.wpos \in Pos /\ b.rpos \in Pos
  BY DEF Ring
<1>b. 1 \in 0..Cap
  BY CapPositive
<1>1. /\ b.wpos \in Pos /\ b.rpos \in Pos
      /\ w \in Pos
      /\ w = IF b.wpos + 1 < Cap THEN b.wpos + 1 ELSE b.wpos + 1 - Cap
  BY <1>a, <1>b, AdvanceStep
<1>2. /\ PutRaw(b, x) \in Ring
      /\ PutRaw(b, x).wpos = w /\ PutRaw(b, x).rpos = b.rpos
  BY <1>1 DEF PutRaw, Ring
<1> HIDE DEF w
<1>3. ASSUME n - 1 >= 1 PROVE w # b.rpos
  BY <1>1, <1>3, CapPositive DEF WriteableLen, Pos
<1>4. ASSUME n - 1 >= 1
      PROVE  n - 1 <= WriteableLen(PutRaw(b, x)) /\ ~IsFull(PutRaw(b, x))
  BY <1>1, <1>2, <1>3, <1>4, CapPositive DEF WriteableLen, IsFull, Pos
<1> QED
  BY <1>2, <1>4

(* One byte read takes one from those there are, whatever the bits were.   *)
LEMMA GetLeavesRest ==
  ASSUME NEW b \in Ring, NEW n \in Nat, n <= ReadableLen(b), n >= 1
  PROVE  /\ GetRaw(b) \in Ring
         /\ GetRaw(b).data = b.data /\ GetRaw(b).wpos = b.wpos
         /\ n - 1 >= 1 => n - 1 <= ReadableLen(GetRaw(b))
<1> DEFINE r == Advance(b.rpos, 1)
<1>a. b.wpos \in Pos /\ b.rpos \in Pos
  BY DEF Ring
<1>b. 1 \in 0..Cap
  BY CapPositive
<1>1. /\ b.wpos \in Pos /\ b.rpos \in Pos
      /\ r \in Pos
      /\ r = IF b.rpos + 1 < Cap THEN b.rpos + 1 ELSE b.rpos + 1 - Cap
  BY <1>a, <1>b, AdvanceStep
<1>2. /\ GetRaw(b) \in Ring
      /\ GetRaw(b).wpos = b.wpos /\ GetRaw(b).rpos = r
      /\ GetRaw(b).data = b.data
  BY <1>1 DEF GetRaw, Ring, IsFull
<1> HIDE DEF r
<1>3. ASSUME n - 1 >= 1 PROVE r # b.wpos
  BY <1>1, <1>3, CapPositive DEF ReadableLen, Pos
<1>4. ASSUME n - 1 >= 1 PROVE n - 1 <= ReadableLen(GetRaw(b))
  BY <1>1, <1>2, <1>3, <1>4, CapPositive DEF ReadableLen, Pos
<1> QED
  BY <1>2, <1>4

(* Going back to a mark needs wpos and the mark only.                      *)
LEMMA RewoundExact ==
  ASSUME NEW b \in Ring, NEW m \in Mark
  PROVE  StatusExact([b EXCEPT !.rpos = m.rpos, !.empty = m.empty,
                               !.full = m.full])
           <=> IF m.rpos = b.wpos THEN m.empty <=> ~m.full
               ELSE ~m.empty /\ ~m.full
  BY DEF Ring, Mark, StatusExact

(* What leaves wpos alone keeps a mark exact that was.                     *)
LEMMA MarkStaysExact ==
  ASSUME buf \in Ring, buf' \in Ring, markOpen' => buf'.wpos = buf.wpos,
         rmark \in SUBSET Mark, rmark' = rmark, markOpen' => markOpen,
         MarkExact
  PROVE  MarkExact'
<1> SUFFICES ASSUME markOpen', NEW m \in rmark PROVE StatusExact(Rewound(m))'
  BY DEF MarkExact
<1>1. StatusExact([buf EXCEPT !.rpos = m.rpos, !.empty = m.empty,
                              !.full = m.full])
  BY DEF MarkExact, Rewound
<1>2. StatusExact([buf' EXCEPT !.rpos = m.rpos, !.empty = m.empty,
                               !.full = m.full])
  BY <1>1, RewoundExact
<1> QED
  BY <1>2 DEF Rewound, StatusExact

(* Setting a position to where neither it nor the other one was keeps the  *)
(* status bits exact, and is told from setting it to where they meet.      *)
LEMMA MovedType ==
  ASSUME moved \in {"no", "within", "across"},
         NEW old \in Pos, NEW p \in Pos, NEW other \in Pos
  PROVE  /\ Moved(old, p, other) \in {"no", "within", "across"}
         /\ Moved(old, p, other) # "across"
              => moved # "across" /\ (p = old \/ (old # other /\ p # other))
         /\ Moved(old, p, other) = "no" => moved = "no" /\ p = old
         /\ p = old => Moved(old, p, other) = moved
  BY DEF Moved

(* bb_create makes a ring for which the invariant holds.                   *)
LEMMA InitIInv == Init => IInv
<1> SUFFICES ASSUME Init PROVE IInv
  OBVIOUS
<1>1. NoOp \in Op
  BY MaxOpIsNat DEF NoOp, Op
<1>2. TypeOK /\ StatusIsExact /\ NoByteDropped
  BY <1>1, NewRingExact DEF Init, TypeOK, StatusIsExact, NoByteDropped
<1>3. OpCovered /\ MarkExact
  BY DEF Init, OpCovered, MarkExact, NoOp
<1> QED
  BY <1>2, <1>3 DEF IInv

(* Every operation of the buffer keeps the invariant.                      *)
LEMMA NextIInv == IInv /\ [Next]_vars => IInv'
<1> SUFFICES ASSUME IInv, [Next]_vars PROVE IInv'
  OBVIOUS
<1>0. /\ buf \in Ring /\ op \in Op /\ rmark \in SUBSET Mark
      /\ markOpen \in BOOLEAN /\ dropped \in BOOLEAN
      /\ moved \in {"no", "within", "across"}
      /\ moved # "across" => StatusExact(buf)
      /\ ~dropped /\ OpCovered /\ MarkExact
      /\ op.kind \in {"none", "put", "get"} /\ op.left \in 0..MaxOp
  BY DEF IInv, TypeOK, StatusIsExact, NoByteDropped, Op
<1>a. ReadableLen(buf) \in 0..Cap /\ WriteableLen(buf) \in 0..Cap
  BY <1>0, LengthsBounded
<1>b. buf.rpos \in Pos /\ buf.wpos \in Pos
  BY <1>0 DEF Ring
<1>1. ASSUME NEW n \in 1..MaxOp, BeginPut(n) PROVE IInv'
  <2>1. n <= WriteableLen(buf) /\ ~IsFull(buf)
    BY <1>1 DEF BeginPut, CheckWrite
  <2>2. op' \in Op /\ op'.kind = "put" /\ op'.left = n
    BY <1>1, MaxOpIsNat, LoopType DEF BeginPut
  <2>3. TypeOK' /\ StatusIsExact' /\ NoByteDropped'
    BY <1>0, <1>1, <2>2
       DEF BeginPut, TypeOK, StatusIsExact, NoByteDropped
  <2>4. OpCovered'
    BY <1>1, <1>a, <2>1, <2>2, MaxOpIsNat, CapPositive
       DEF BeginPut, OpCovered
  <2>5. MarkExact'
    BY <1>0, <1>1 DEF BeginPut, MarkExact, Rewound
  <2> QED
    BY <2>3, <2>4, <2>5 DEF IInv
<1>2. ASSUME NEW n \in 1..MaxOp, BeginGet(n) PROVE IInv'
  <2>1. n <= ReadableLen(buf)
    BY <1>2 DEF BeginGet, CheckRead
  <2>2. op' \in Op /\ op'.kind = "get" /\ op'.left = n
    BY <1>2, MaxOpIsNat, LoopType DEF BeginGet
  <2>3. TypeOK' /\ StatusIsExact' /\ NoByteDropped'
    BY <1>0, <1>2, <2>2
       DEF BeginGet, TypeOK, StatusIsExact, NoByteDropped
  <2>4. OpCovered'
    BY <1>2, <1>a, <2>1, <2>2, MaxOpIsNat, CapPositive
       DEF BeginGet, OpCovered
  <2>5. MarkExact'
    BY <1>0, <1>2 DEF BeginGet, MarkExact, Rewound
  <2> QED
    BY <2>3, <2>4, <2>5 DEF IInv
<1>3. ASSUME NEW x \in Byte, PutByte(x) PROVE IInv'
  <2>1. /\ op.kind = "put" /\ op.left \in 1..WriteableLen(buf)
        /\ ~IsFull(buf)
    BY <1>0, <1>3 DEF PutByte, OpCovered
  <2>2. CheckWrite(buf, 1)
    BY <1>a, <2>1, CapPositive DEF CheckWrite
  <2>3. /\ buf' = PutRaw(buf, x)
        /\ op' = Loop("put", op.left - 1)
        /\ ~markOpen' /\ ~dropped' /\ rmark' = rmark /\ moved' = moved
        /\ markOpen' \in BOOLEAN /\ dropped' \in BOOLEAN
    BY <1>0, <1>3, <2>2 DEF PutByte
  <2>a. op.left \in Nat /\ op.left >= 1 /\ op.left <= WriteableLen(buf)
    BY <1>a, <2>1, CapPositive
  <2>4. /\ buf' \in Ring
        /\ op.left - 1 >= 1 => /\ op.left - 1 <= WriteableLen(buf')
                               /\ ~IsFull(buf')
    BY <1>0, <2>a, <2>3, PutLeavesRoom
  <2>5. moved' # "across" => StatusExact(buf')
    <3> SUFFICES ASSUME moved # "across" PROVE StatusExact(buf')
      BY <2>3
    <3>1. WriteableLen(buf) = Cap - ReadableLen(buf)
      BY <1>0, LengthsAddUp
    <3>2. WriteableLen(buf) > 0
      BY <2>a, <1>a, CapPositive
    <3> QED
      BY <1>0, <1>a, <2>3, <3>1, <3>2, CapPositive, PutRawExact
  <2>6. op.left - 1 \in 0..MaxOp
    BY <1>0, <2>a, MaxOpIsNat
  <2>7. /\ op' \in Op
        /\ op.left - 1 = 0 => op'.kind = "none" /\ op'.left = 0
        /\ op.left - 1 # 0 => op'.kind = "put" /\ op'.left = op.left - 1
    BY <2>3, <2>6, LoopType
  <2>8. TypeOK' /\ StatusIsExact' /\ NoByteDropped'
    BY <1>0, <2>3, <2>4, <2>5, <2>7
       DEF TypeOK, StatusIsExact, NoByteDropped
  <2>b. WriteableLen(buf') \in 0..Cap
    BY <2>4, LengthsBounded
  <2>9. OpCovered'
    <3>1. CASE op.left - 1 = 0
      BY <2>7, <3>1 DEF OpCovered
    <3>2. CASE op.left - 1 # 0
      <4>1. op.left - 1 >= 1
        BY <2>a, <3>2
      <4>2. op.left - 1 \in 1..WriteableLen(buf') /\ ~IsFull(buf')
        BY <2>a, <2>4, <2>b, <4>1, CapPositive
      <4>3. /\ WriteableLen(buf)' = WriteableLen(buf')
            /\ IsFull(buf)' = IsFull(buf')
        BY DEF WriteableLen, IsEmpty, IsFull
      <4> QED
        BY <2>7, <3>2, <4>2, <4>3 DEF OpCovered
    <3> QED
      BY <3>1, <3>2
  <2>10. MarkExact'
    BY <2>3 DEF MarkExact
  <2> QED
    BY <2>8, <2>9, <2>10 DEF IInv
<1>4. CASE GetByte
  <2>1. op.kind = "get" /\ op.left \in 1..ReadableLen(buf)
    BY <1>0, <1>4 DEF GetByte, OpCovered
  <2>2. /\ buf' = GetRaw(buf)
        /\ op' = Loop("get", op.left - 1)
        /\ dropped' = (dropped \/ ReadableLen(buf) = 0)
        /\ rmark' = rmark /\ markOpen' = markOpen /\ moved' = moved
    BY <1>4 DEF GetByte
  <2>3. op.left \in Nat /\ op.left >= 1 /\ op.left <= ReadableLen(buf)
    BY <1>a, <2>1, CapPositive
  <2>4. /\ buf' \in Ring
        /\ buf'.data = buf.data /\ buf'.wpos = buf.wpos
        /\ op.left - 1 >= 1 => op.left - 1 <= ReadableLen(buf')
    BY <1>0, <2>2, <2>3, GetLeavesRest
  <2>a. ReadableLen(buf) > 0
    BY <1>a, <2>3, CapPositive
  <2>b. moved' # "across" => StatusExact(buf')
    BY <1>0, <2>2, <2>a, GetRawExact
  <2>5. op.left - 1 \in 0..MaxOp
    BY <1>0, <2>3, MaxOpIsNat
  <2>6. /\ op' \in Op
        /\ op.left - 1 = 0 => op'.kind = "none" /\ op'.left = 0
        /\ op.left - 1 # 0 => op'.kind = "get" /\ op'.left = op.left - 1
    BY <2>2, <2>5, LoopType
  <2>7. dropped' = FALSE
    BY <1>0, <1>a, <2>2, <2>a, CapPositive
  <2>8. TypeOK' /\ StatusIsExact' /\ NoByteDropped'
    BY <1>0, <2>2, <2>4, <2>b, <2>6, <2>7
       DEF TypeOK, StatusIsExact, NoByteDropped
  <2>c. ReadableLen(buf') \in 0..Cap
    BY <2>4, LengthsBounded
  <2>9. OpCovered'
    <3>1. CASE op.left - 1 = 0
      BY <2>6, <3>1 DEF OpCovered
    <3>2. CASE op.left - 1 # 0
      <4>1. op.left - 1 >= 1
        BY <2>3, <3>2
      <4>2. op.left - 1 \in 1..ReadableLen(buf')
        BY <2>3, <2>4, <2>c, <4>1, CapPositive
      <4>3. ReadableLen(buf)' = ReadableLen(buf')
        BY DEF ReadableLen, IsFull
      <4> QED
        BY <2>6, <3>2, <4>2, <4>3 DEF OpCovered
    <3> QED
      BY <3>1, <3>2
  <2>10. MarkExact'
    BY <1>0, <2>2, <2>4, MarkStaysExact
  <2> QED
    BY <2>8, <2>9, <2>10 DEF IInv
<1>5. ASSUME NEW n \in 1..MaxOp, Forward(n) PROVE IInv'
  <2>1. n <= ReadableLen(buf) /\ n \in 1..Cap
    BY <1>5, <1>a, MaxOpIsNat, CapPositive DEF Forward
  <2>2. /\ buf' = MoveForward(buf, n)
        /\ op = NoOp /\ op' = op /\ rmark' = rmark
        /\ markOpen' = markOpen /\ dropped' = dropped /\ moved' = moved
    BY <1>5 DEF Forward
  <2>a. Advance(buf.rpos, n) \in Pos
    BY <1>b, <2>1, AdvanceStep, CapPositive
  <2>3. /\ buf' \in Ring
        /\ buf'.data = buf.data /\ buf'.wpos = buf.wpos
    BY <1>0, <2>2, <2>a DEF MoveForward, Ring, IsFull
  <2>b. moved' # "across" => StatusExact(buf')
    BY <1>0, <2>1, <2>2, MoveForwardExact
  <2>4. TypeOK' /\ StatusIsExact' /\ NoByteDropped'
    BY <1>0, <2>2, <2>3, <2>b DEF TypeOK, StatusIsExact, NoByteDropped
  <2>5. OpCovered'
    BY <2>2 DEF OpCovered, NoOp
  <2>6. MarkExact'
    BY <1>0, <2>2, <2>3, MarkStaysExact
  <2> QED
    BY <2>4, <2>5, <2>6 DEF IInv
<1>6. CASE ResetBuf \/ ClearBuf
  <2>1. /\ buf' = Reset(buf)
        /\ op = NoOp /\ op' = op
        /\ rmark' \in SUBSET Mark
        /\ markOpen' = FALSE /\ dropped' = dropped /\ moved' = "no"
    BY <1>0, <1>6 DEF ResetBuf, ClearBuf
  <2>2. buf' \in Ring /\ StatusExact(buf')
    BY <1>0, <2>1, ResetExact
  <2>3. TypeOK' /\ StatusIsExact' /\ NoByteDropped'
    BY <1>0, <2>1, <2>2 DEF TypeOK, StatusIsExact, NoByteDropped
  <2>4. OpCovered' /\ MarkExact'
    BY <2>1 DEF OpCovered, MarkExact, NoOp
  <2> QED
    BY <2>3, <2>4 DEF IInv
<1>7. CASE RMark
  <2>1. /\ buf' = buf /\ op = NoOp /\ op' = op /\ dropped' = dropped
        /\ rmark' = {[rpos |-> buf.rpos, empty |-> buf.empty,
                      full |-> buf.full]}
        /\ markOpen' = (moved = "no") /\ moved' = moved
    BY <1>7 DEF RMark
  <2>2. TypeOK' /\ StatusIsExact' /\ NoByteDropped'
    BY <1>0, <2>1 DEF TypeOK, StatusIsExact, NoByteDropped, Mark, Ring
  <2>3. OpCovered'
    BY <2>1 DEF OpCovered, NoOp
  <2>4. ASSUME moved = "no", NEW m \in rmark'
        PROVE  StatusExact([buf' EXCEPT !.rpos = m.rpos, !.empty = m.empty,
                                        !.full = m.full])
    <3>1. m \in Mark /\ m.rpos = buf.rpos /\ m.empty = buf.empty
          /\ m.full = buf.full
      BY <1>0, <2>1 DEF Mark, Ring
    <3>2. StatusExact(buf)
      BY <1>0, <2>4
    <3> QED
      BY <1>0, <2>1, <3>1, <3>2, RewoundExact DEF StatusExact
  <2>5. MarkExact'
    BY <2>1, <2>4 DEF MarkExact, Rewound, StatusExact
  <2> QED
    BY <2>2, <2>3, <2>5 DEF IInv
<1>8. CASE RMarkReset
  <2>1. PICK m \in rmark : buf' = Rewound(m)
    BY <1>8 DEF RMarkReset, Rewound
  <2>2. /\ op = NoOp /\ op' = op /\ dropped' = dropped
        /\ rmark' = {} /\ markOpen' = FALSE
        /\ moved' = IF markOpen THEN "no" ELSE "across"
    BY <1>8 DEF RMarkReset
  <2>3. buf' \in Ring
    BY <1>0, <2>1 DEF Rewound, Ring, Mark
  <2>4. moved' # "across" => StatusExact(buf')
    BY <1>0, <2>1, <2>2 DEF MarkExact
  <2>5. TypeOK' /\ StatusIsExact' /\ NoByteDropped'
    BY <1>0, <2>2, <2>3, <2>4 DEF TypeOK, StatusIsExact, NoByteDropped
  <2>6. OpCovered' /\ MarkExact'
    BY <2>2 DEF OpCovered, MarkExact, NoOp
  <2> QED
    BY <2>5, <2>6 DEF IInv
<1>9. ASSUME NEW p \in Pos, SetRposTo(p) PROVE IInv'
  <2>1. /\ buf' = [buf EXCEPT !.rpos = p]
        /\ op = NoOp /\ op' = op /\ dropped' = dropped
        /\ rmark' = rmark /\ markOpen' = markOpen
        /\ moved' = Moved(buf.rpos, p, buf.wpos)
    BY <1>9 DEF SetRposTo, SetRpos
  <2>2. buf' \in Ring /\ buf'.wpos = buf.wpos
    BY <1>0, <2>1 DEF Ring
  <2>3. moved' \in {"no", "within", "across"}
    BY <1>0, <1>b, <2>1, MovedType
  <2>4. ASSUME moved' # "across" PROVE StatusExact(buf')
    <3>1. /\ moved # "across"
          /\ p = buf.rpos \/ (buf.rpos # buf.wpos /\ p # buf.wpos)
      BY <1>0, <1>b, <2>1, <2>4, MovedType
    <3> QED
      BY <1>0, <2>1, <3>1 DEF StatusExact, Ring
  <2>5. TypeOK' /\ StatusIsExact' /\ NoByteDropped'
    BY <1>0, <2>1, <2>2, <2>3, <2>4 DEF TypeOK, StatusIsExact, NoByteDropped
  <2>6. OpCovered'
    BY <2>1 DEF OpCovered, NoOp
  <2>7. MarkExact'
    BY <1>0, <2>1, <2>2, MarkStaysExact
  <2> QED
    BY <2>5, <2>6, <2>7 DEF IInv
<1>10. ASSUME NEW p \in Pos, SetWposTo(p) PROVE IInv'
  <2>1. /\ buf' = [buf EXCEPT !.wpos = p]
        /\ op = NoOp /\ op' = op /\ dropped' = dropped
        /\ rmark' = rmark /\ markOpen' = (markOpen /\ p = buf.wpos)
        /\ moved' = Moved(buf.wpos, p, buf.rpos)
    BY <1>10 DEF SetWposTo
  <2>2. buf' \in Ring /\ buf'.wpos = p
    BY <1>0, <2>1 DEF Ring
  <2>3. moved' \in {"no", "within", "across"}
    BY <1>0, <1>b, <2>1, MovedType
  <2>4. ASSUME moved' # "across" PROVE StatusExact(buf')
    <3>1. /\ moved # "across"
          /\ p = buf.wpos \/ (buf.wpos # buf.rpos /\ p # buf.rpos)
      BY <1>0, <1>b, <2>1, <2>4, MovedType
    <3> QED
      BY <1>0, <2>1, <3>1 DEF StatusExact, Ring
  <2>5. TypeOK' /\ StatusIsExact' /\ NoByteDropped'
    BY <1>0, <2>1, <2>2, <2>3, <2>4 DEF TypeOK, StatusIsExact, NoByteDropped
  <2>6. OpCovered'
    BY <2>1 DEF OpCovered, NoOp
  <2>7. MarkExact'
    BY <1>0, <2>1, <2>2, MarkStaysExact
  <2> QED
    BY <2>5, <2>6, <2>7 DEF IInv
<1>11. CASE UNCHANGED vars
  BY <1>11 DEF vars, IInv, TypeOK, StatusIsExact, NoByteDropped, OpCovered,
               MarkExact, Rewound
<1> QED
  BY <1>1, <1>2, <1>3, <1>4, <1>5, <1>6, <1>7, <1>8, <1>9, <1>10, <1>11
     DEF Next

(* The inductive invariant holds of every behaviour.                       *)
THEOREM SpecIInv == Spec => []IInv
  BY InitIInv, NextIInv, PTL DEF Spec

(* The positions of a byte buffer never leave its data, for every capacity *)
(* (bb_init, bb_put_u8 and _bb_get_u8 of jm_buffer.c).                     *)
THEOREM BufferTypeOK == Spec => []TypeOK
<1>1. IInv => TypeOK
  BY DEF IInv
<1> QED
  BY <1>1, SpecIInv, PTL

(* The status bits of jm_buffer.c agree with the positions, so full and    *)
(* empty are told apart, after any operations but those that set a         *)
(* position from or to the point where they meet, or go back behind bytes  *)
(* written since the mark.                                                 *)
THEOREM BufferStatusIsExact == Spec => []StatusIsExact
<1>1. IInv => StatusIsExact
  BY DEF IInv
<1> QED
  BY <1>1, SpecIInv, PTL

(* One length check covers the whole of a write or a read: the byte loops, *)
(* whose results nobody looks at, drop nothing.                            *)
THEOREM BufferNoByteDropped == Spec => []NoByteDropped
<1>1. IInv => NoByteDropped
  BY DEF IInv
<1> QED
  BY <1>1, SpecIInv, PTL

-----------------------------------------------------------------------------
(* The ring implements ByteFifo                                            *)

(* While data and wpos stay, the mark gives back the same content.         *)
LEMMA MarkedKept ==
  ASSUME buf \in Ring, buf' \in Ring, rmark \in SUBSET Mark,
         buf'.data = buf.data, buf'.wpos = buf.wpos,
         UNCHANGED <<rmark, markOpen>>
  PROVE  MarkedContent' = MarkedContent
<1>1. ASSUME NEW m \in rmark
      PROVE  [buf' EXCEPT !.rpos = m.rpos, !.empty = m.empty, !.full = m.full]
               = [buf EXCEPT !.rpos = m.rpos, !.empty = m.empty,
                             !.full = m.full]
  BY DEF Ring, Mark
<1>2. ASSUME NEW m \in rmark
      PROVE  Content([buf EXCEPT !.rpos = m.rpos, !.empty = m.empty,
                                 !.full = m.full])'
               = Content([buf EXCEPT !.rpos = m.rpos, !.empty = m.empty,
                                     !.full = m.full])
  <2>1. Content([buf EXCEPT !.rpos = m.rpos, !.empty = m.empty,
                            !.full = m.full])'
          = Content([buf' EXCEPT !.rpos = m.rpos, !.empty = m.empty,
                                 !.full = m.full])
    BY DEF Content, ReadableLen, IsFull, Advance
  <2> QED
    BY <1>1, <2>1
<1> QED
  BY <1>2 DEF MarkedContent

(* Every operation of the buffer is one of ByteFifo or leaves it alone.    *)
LEMMA NextIsFifoStep ==
  ASSUME IInv, IInv', [Next]_vars
  PROVE  [Fifo!Next]_(Fifo!vars)
<1>0. /\ buf \in Ring /\ rmark \in SUBSET Mark /\ markOpen \in BOOLEAN
      /\ buf' \in Ring
      /\ moved = "no" => StatusExact(buf)
      /\ ~dropped' /\ OpCovered
      /\ moved \in {"no", "within", "across"}
      /\ ReadableLen(buf) \in 0..Cap
      /\ WriteableLen(buf) \in 0..Cap
  BY LengthsBounded DEF IInv, TypeOK, StatusIsExact, NoByteDropped
<1>c. Queue' = IF moved' = "no" THEN Content(buf') ELSE <<>>
  BY DEF Queue, Content, ReadableLen, IsFull, Advance
<1>1. ASSUME UNCHANGED <<buf, rmark, markOpen, moved>>
      PROVE  UNCHANGED Fifo!vars
  <2>1. Queue' = Queue
    BY <1>1, <1>c DEF Queue
  <2>2. MarkedContent' = MarkedContent
    BY <1>0, <1>1, MarkedKept
  <2> QED
    BY <2>1, <2>2 DEF Fifo!vars
<1>d. ASSUME Queue' = <<>>, MarkedContent' = {} PROVE Fifo!Next
  BY <1>d DEF Fifo!Next, Fifo!Discard
<1>2. CASE \/ \E n \in 1..MaxOp : BeginPut(n)
           \/ \E n \in 1..MaxOp : BeginGet(n)
           \/ UNCHANGED vars
  BY <1>1, <1>2 DEF BeginPut, BeginGet, vars
<1>3. ASSUME NEW x \in Byte, PutByte(x) PROVE Fifo!Next
  <2>1. CheckWrite(buf, 1)
    BY <1>0, <1>3 DEF PutByte
  <2>2. buf' = PutRaw(buf, x) /\ markOpen' = FALSE /\ moved' = moved
    BY <1>3, <2>1 DEF PutByte
  <2>6. MarkedContent' = {}
    BY <2>2 DEF MarkedContent
  <2>7. CASE moved = "no"
    <3>a. StatusExact(buf)
      BY <1>0, <2>7
    <3>b. WriteableLen(buf) = Cap - ReadableLen(buf)
      BY <1>0, <3>a, LengthsAddUp
    <3>1. WriteableLen(buf) > 0
      BY <1>0, <2>1, <3>a, ChecksCompareLengths, CapPositive
    <3>2. Content(buf') = Append(Content(buf), x)
      BY <1>0, <2>2, <3>a, <3>1, PutAppends
    <3>3. Len(Content(buf)) < Cap
      BY <1>0, <3>a, <3>b, <3>1, ContentIsSeq, CapPositive
    <3>4. Queue = Content(buf) /\ Queue' = Content(buf')
      BY <1>c, <2>2, <2>7 DEF Queue
    <3> QED
      BY <2>6, <3>2, <3>3, <3>4 DEF Fifo!Next, Fifo!Put
  <2>8. CASE moved # "no"
    BY <1>c, <1>d, <2>2, <2>6, <2>8
  <2> QED
    BY <2>7, <2>8
<1>4. ASSUME GetByte PROVE [Fifo!Next]_(Fifo!vars)
  <2>1. buf' = GetRaw(buf) /\ UNCHANGED <<rmark, markOpen, moved>>
    BY <1>4 DEF GetByte
  <2>2. ReadableLen(buf) > 0 /\ 1 <= ReadableLen(buf)
    BY <1>0, <1>4, CapPositive DEF GetByte, OpCovered
  <2>3. buf'.data = buf.data /\ buf'.wpos = buf.wpos
    BY <1>0, <2>1, <2>2, GetLeavesRest
  <2>4. MarkedContent' = MarkedContent
    BY <1>0, <2>1, <2>3, MarkedKept
  <2>5. CASE moved = "no"
    <3>1. Content(buf) # <<>> /\ Content(buf') = Tail(Content(buf))
      BY <1>0, <2>1, <2>2, <2>5, GetTakesOldest
    <3>2. Queue = Content(buf) /\ Queue' = Content(buf')
      BY <1>c, <2>1, <2>5 DEF Queue
    <3> QED
      BY <2>4, <3>1, <3>2 DEF Fifo!Next, Fifo!Get
  <2>6. CASE moved # "no"
    BY <1>c, <2>1, <2>4, <2>6 DEF Queue, Fifo!vars
  <2> QED
    BY <2>5, <2>6
<1>5. ASSUME NEW n \in 1..MaxOp, Forward(n) PROVE [Fifo!Next]_(Fifo!vars)
  <2>1. /\ buf' = MoveForward(buf, n) /\ UNCHANGED <<rmark, markOpen, moved>>
        /\ n <= ReadableLen(buf)
    BY <1>5 DEF Forward
  <2>2. n \in 1..Cap
    BY <1>0, <2>1, MaxOpIsNat, CapPositive
  <2>3. buf'.data = buf.data /\ buf'.wpos = buf.wpos
    BY <1>0, <2>1 DEF MoveForward, Ring
  <2>4. MarkedContent' = MarkedContent
    BY <1>0, <2>1, <2>3, MarkedKept
  <2>5. CASE moved = "no"
    <3>1. Content(buf') = SubSeq(Content(buf), n + 1, Len(Content(buf)))
      BY <1>0, <2>1, <2>2, <2>5, ForwardSkips
    <3>2. n <= Len(Content(buf))
      BY <1>0, <2>1, <2>5, ContentIsSeq
    <3>3. Queue = Content(buf) /\ Queue' = Content(buf')
      BY <1>c, <2>1, <2>5 DEF Queue
    <3> QED
      BY <2>2, <2>4, <3>1, <3>2, <3>3 DEF Fifo!Next, Fifo!Skip
  <2>6. CASE moved # "no"
    BY <1>c, <2>1, <2>4, <2>6 DEF Queue, Fifo!vars
  <2> QED
    BY <2>5, <2>6
<1>6. CASE ResetBuf \/ ClearBuf
  <2>1. buf' = Reset(buf) /\ markOpen' = FALSE
    BY <1>6 DEF ResetBuf, ClearBuf
  <2>2. Content(buf') = <<>> /\ MarkedContent' = {}
    BY <1>0, <2>1, ResetEmpties DEF MarkedContent
  <2> QED
    BY <1>c, <1>d, <2>2
<1>7. CASE RMark
  <2> DEFINE m == [rpos |-> buf.rpos, empty |-> buf.empty, full |-> buf.full]
  <2>1. /\ buf' = buf /\ moved' = moved /\ rmark' = {m}
        /\ markOpen' = (moved = "no")
    BY <1>7 DEF RMark
  <2>2. [buf' EXCEPT !.rpos = m.rpos, !.empty = m.empty, !.full = m.full] = buf
    BY <1>0, <2>1 DEF Ring
  <2>3. CASE moved = "no"
    <3>1. MarkedContent'
            = {Content([buf' EXCEPT !.rpos = q.rpos, !.empty = q.empty,
                                    !.full = q.full]) : q \in rmark'}
      BY <2>1, <2>3 DEF MarkedContent, Content, ReadableLen, IsFull, Advance
    <3> HIDE DEF m
    <3>2. MarkedContent' = {Content(buf)}
      BY <2>1, <2>2, <3>1
    <3>3. Queue = Content(buf) /\ Queue' = Content(buf)
      BY <1>c, <2>1, <2>3 DEF Queue
    <3> QED
      BY <3>2, <3>3 DEF Fifo!Next, Fifo!Mark
  <2>4. CASE moved # "no"
    <3>1. MarkedContent' = {}
      BY <2>1, <2>4 DEF MarkedContent
    <3> QED
      BY <1>c, <1>d, <2>1, <2>4, <3>1
  <2> QED
    BY <2>3, <2>4
<1>8. CASE RMarkReset
  <2>1. PICK m \in rmark :
          buf' = [buf EXCEPT !.rpos = m.rpos, !.empty = m.empty,
                             !.full = m.full]
    BY <1>8 DEF RMarkReset
  <2>2. markOpen' = FALSE /\ moved' = IF markOpen THEN "no" ELSE "across"
    BY <1>8 DEF RMarkReset
  <2>3. MarkedContent' = {}
    BY <2>2 DEF MarkedContent
  <2>4. CASE markOpen
    <3>1. Content(buf') \in MarkedContent
      BY <2>1, <2>4 DEF MarkedContent
    <3>2. MarkedContent # {}
      BY <3>1
    <3>3. Queue' = Content(buf')
      BY <1>c, <2>2, <2>4
    <3> QED
      BY <2>3, <3>1, <3>2, <3>3 DEF Fifo!Next, Fifo!Rewind
  <2>5. CASE ~markOpen
    BY <1>c, <1>d, <2>2, <2>3, <2>5
  <2> QED
    BY <2>4, <2>5
<1>9. ASSUME NEW p \in Pos, SetRposTo(p) PROVE [Fifo!Next]_(Fifo!vars)
  <2>1. /\ buf' = [buf EXCEPT !.rpos = p] /\ UNCHANGED <<rmark, markOpen>>
        /\ moved' = Moved(buf.rpos, p, buf.wpos)
    BY <1>9 DEF SetRposTo, SetRpos
  <2>2. buf'.data = buf.data /\ buf'.wpos = buf.wpos
    BY <1>0, <2>1 DEF Ring
  <2>3. MarkedContent' = MarkedContent
    BY <1>0, <2>1, <2>2, MarkedKept
  <2>4. CASE p = buf.rpos
    <3>1. buf' = buf /\ moved' = moved
      BY <1>0, <2>1, <2>4 DEF Ring, Moved
    <3> QED
      BY <1>1, <2>1, <3>1
  <2>5. CASE p # buf.rpos
    <3>1. moved' # "no"
      BY <1>0, <2>1, <2>5 DEF Moved
    <3>2. Queue' = <<>>
      BY <1>c, <3>1
    <3>3. CASE moved = "no"
      <4>1. StatusExact(buf)
        BY <1>0, <3>3
      <4>2. Queue \in Seq(Byte) /\ Len(Queue) = ReadableLen(buf)
        BY <1>0, <3>3, <4>1, ContentIsSeq DEF Queue
      <4>3. CASE Len(Queue) = 0
        <5>1. Queue = <<>>
          BY <4>2, <4>3
        <5> QED
          BY <2>3, <3>2, <5>1 DEF Fifo!vars
      <4>4. CASE Len(Queue) # 0
        <5>1. Len(Queue) \in 1..Cap
          BY <1>0, <4>2, <4>4, CapPositive
        <5>2. SubSeq(Queue, Len(Queue) + 1, Len(Queue)) = <<>>
          BY <4>2
        <5>3. Fifo!Skip(Len(Queue))
          BY <2>3, <3>2, <5>1, <5>2 DEF Fifo!Skip
        <5> QED
          BY <5>1, <5>3 DEF Fifo!Next
      <4> QED
        BY <4>3, <4>4
    <3>4. CASE moved # "no"
      BY <2>3, <3>2, <3>4 DEF Queue, Fifo!vars
    <3> QED
      BY <3>3, <3>4
  <2> QED
    BY <2>4, <2>5
<1>10. ASSUME NEW p \in Pos, SetWposTo(p) PROVE [Fifo!Next]_(Fifo!vars)
  <2>1. /\ buf' = [buf EXCEPT !.wpos = p] /\ rmark' = rmark
        /\ markOpen' = (markOpen /\ p = buf.wpos)
        /\ moved' = Moved(buf.wpos, p, buf.rpos)
    BY <1>10 DEF SetWposTo
  <2>2. CASE p = buf.wpos
    <3>1. buf' = buf /\ moved' = moved /\ markOpen' = markOpen
      BY <1>0, <2>1, <2>2 DEF Ring, Moved
    <3> QED
      BY <1>1, <2>1, <3>1
  <2>3. CASE p # buf.wpos
    <3>1. moved' # "no" /\ markOpen' = FALSE
      BY <1>0, <2>1, <2>3 DEF Moved
    <3>2. MarkedContent' = {}
      BY <3>1 DEF MarkedContent
    <3> QED
      BY <1>c, <1>d, <3>1, <3>2
  <2> QED
    BY <2>2, <2>3
<1> QED
  BY <1>2, <1>3, <1>4, <1>5, <1>6, <1>7, <1>8, <1>9, <1>10 DEF Next

(* A ring of any capacity, with its positions that wrap and its two status *)
(* bits, is a bounded queue with a mark: what is read is what was written, *)
(* in order, and going back to a mark brings back what was read since.     *)
(* Setting a position by hand is to throw the queue away.                  *)
THEOREM BufferIsFifo == Spec => IsFifo
<1>1. Init => Fifo!Init
  <2> SUFFICES ASSUME Init PROVE Fifo!Init
    OBVIOUS
  <2>1. ReadableLen(buf) = 0 /\ buf \in Ring /\ StatusExact(buf)
    BY NewRingExact DEF Init, NewRing, ReadableLen, IsFull
  <2>2. Content(buf) = <<>>
    BY <2>1, ContentIsSeq
  <2> QED
    BY <2>2 DEF Init, Fifo!Init, MarkedContent, Queue
<1>2. IInv /\ IInv' /\ [Next]_vars => [Fifo!Next]_(Fifo!vars)
  BY NextIsFifoStep
<1> QED
  BY <1>1, <1>2, SpecIInv, PTL DEF Spec, IsFifo, Fifo!Spec

-----------------------------------------------------------------------------
(* MsgFraming: the loops over the bytes of a chunk and of a frame          *)

(* A set of numbers with 0 and every successor has all of them.            *)
LEMMA AllNumbers ==
  ASSUME NEW S \in SUBSET Nat, 0 \in S, \A n \in S : n + 1 \in S
  PROVE  S = Nat
<1> DEFINE R == OpToRel(<, Nat)
<1>1. IsWellFoundedOn(R, Nat)
  BY NatLessThanWellFounded
<1>2. R = {r \in Nat \X Nat : r[1] < r[2]}
  BY DEF OpToRel
<1> HIDE DEF R
<1> DEFINE T == Nat \ S
<1>3. T = {}
  <2> SUFFICES ASSUME T # {} PROVE FALSE
    OBVIOUS
  <2>1. PICK x \in T : \A y \in T : ~(<<y, x>> \in R)
    <3>1. T \in SUBSET Nat
      OBVIOUS
    <3> HIDE DEF T
    <3> QED
      BY <1>1, <3>1, WFMin
  <2>2. x \in Nat /\ x # 0 /\ x - 1 \in Nat
    BY <2>1
  <2>3. <<x - 1, x>> \in R
    <3>1. <<x - 1, x>> \in Nat \X Nat /\ <<x - 1, x>>[1] < <<x - 1, x>>[2]
      BY <2>2
    <3> QED
      BY <1>2, <3>1
  <2>4. x - 1 \in S
    BY <2>1, <2>2, <2>3
  <2>5. (x - 1) + 1 = x
    BY <2>2
  <2> QED
    BY <2>1, <2>4, <2>5
<1> QED
  BY <1>3

(* Where the messages end.                                                 *)
LEMMA EndIs ==
  End = [m \in 0..NMsgs |-> IF m = 0 THEN 0 ELSE End[m - 1] + sizes[m]]
<1> DEFINE Turn(f, m) == IF m = 0 THEN 0 ELSE f[m - 1] + sizes[m]
           S == {n \in Nat : \E f : f = [m \in 0..n |-> Turn(f, m)]}
<1>1. 0 \in S
  <2> DEFINE f == [m \in 0..0 |-> 0]
  <2>1. f = [m \in 0..0 |-> Turn(f, m)]
    OBVIOUS
  <2> QED
    BY <2>1
<1>2. ASSUME NEW n \in S PROVE n + 1 \in S
  <2>1. PICK f : f = [m \in 0..n |-> Turn(f, m)]
    OBVIOUS
  <2> DEFINE g == [m \in 0..(n + 1) |-> IF m = n + 1 THEN Turn(f, n + 1) ELSE f[m]]
  <2>2. \A m \in 0..(n + 1) : m # n + 1 => m \in 0..n
    OBVIOUS
  <2>3. \A m \in 0..n : f[m] = Turn(f, m)
    BY <2>1
  <2>4. \A m \in 0..(n + 1) : m # 0 => g[m - 1] = f[m - 1]
    OBVIOUS
  <2>5. \A m \in 0..(n + 1) : g[m] = Turn(g, m)
    BY <2>2, <2>3, <2>4
  <2>6. g = [m \in 0..(n + 1) |-> Turn(g, m)]
    BY <2>5
  <2> HIDE DEF g, Turn
  <2>7. \E h : h = [m \in 0..(n + 1) |-> Turn(h, m)]
    BY <2>6
  <2> QED
    BY <2>7
<1>3. S = Nat
  <2>1. S \in SUBSET Nat
    OBVIOUS
  <2> HIDE DEF S
  <2> QED
    BY <1>1, <1>2, <2>1, AllNumbers
<1>4. \E f : f = [m \in 0..NMsgs |-> Turn(f, m)]
  BY <1>3, BytesArePlaces
<1> QED
  BY <1>4 DEF End

(* bb_put_chars: each turn puts one byte.                                  *)
LEMMA PutFromIs ==
  ASSUME NEW b, NEW first, NEW n \in Nat
  PROVE  \E p : /\ p = [i \in 0..n |-> IF i = 0 THEN b
                                       ELSE PutRaw(p[i - 1], first + i - 1)]
                /\ PutFrom(b, first, n) = p[n]
<1> DEFINE Turn(f, i) == IF i = 0 THEN b ELSE PutRaw(f[i - 1], first + i - 1)
           S == {k \in Nat : \E f : f = [i \in 0..k |-> Turn(f, i)]}
<1>1. 0 \in S
  <2> DEFINE f == [i \in 0..0 |-> b]
  <2>1. f = [i \in 0..0 |-> Turn(f, i)]
    OBVIOUS
  <2> QED
    BY <2>1
<1>2. ASSUME NEW k \in S PROVE k + 1 \in S
  <2>1. PICK f : f = [i \in 0..k |-> Turn(f, i)]
    OBVIOUS
  <2> DEFINE g == [i \in 0..(k + 1) |-> IF i = k + 1 THEN Turn(f, k + 1) ELSE f[i]]
  <2>2. \A i \in 0..(k + 1) : i # k + 1 => i \in 0..k
    OBVIOUS
  <2>3. \A i \in 0..k : f[i] = Turn(f, i)
    BY <2>1
  <2>4. \A i \in 0..(k + 1) : i # 0 => g[i - 1] = f[i - 1]
    OBVIOUS
  <2>5. \A i \in 0..(k + 1) : g[i] = Turn(g, i)
    BY <2>2, <2>3, <2>4
  <2>6. g = [i \in 0..(k + 1) |-> Turn(g, i)]
    BY <2>5
  <2> HIDE DEF g, Turn
  <2>7. \E h : h = [i \in 0..(k + 1) |-> Turn(h, i)]
    BY <2>6
  <2> QED
    BY <2>7
<1>3. S = Nat
  <2>1. S \in SUBSET Nat
    OBVIOUS
  <2> HIDE DEF S
  <2> QED
    BY <1>1, <1>2, <2>1, AllNumbers
<1>4. \E f : f = [i \in 0..n |-> Turn(f, i)]
  BY <1>3
<1> QED
  BY <1>4 DEF PutFrom

(* bb_get_buf: each turn takes one byte.                                   *)
LEMMA GetManyIs ==
  ASSUME NEW b, NEW n \in Nat
  PROVE  \E g : /\ g = [i \in 0..n |-> IF i = 0 THEN b ELSE GetRaw(g[i - 1])]
                /\ GetMany(b, n) = g[n]
<1> DEFINE Turn(f, i) == IF i = 0 THEN b ELSE GetRaw(f[i - 1])
           S == {k \in Nat : \E f : f = [i \in 0..k |-> Turn(f, i)]}
<1>1. 0 \in S
  <2> DEFINE f == [i \in 0..0 |-> b]
  <2>1. f = [i \in 0..0 |-> Turn(f, i)]
    OBVIOUS
  <2> QED
    BY <2>1
<1>2. ASSUME NEW k \in S PROVE k + 1 \in S
  <2>1. PICK f : f = [i \in 0..k |-> Turn(f, i)]
    OBVIOUS
  <2> DEFINE g == [i \in 0..(k + 1) |-> IF i = k + 1 THEN Turn(f, k + 1) ELSE f[i]]
  <2>2. \A i \in 0..(k + 1) : i # k + 1 => i \in 0..k
    OBVIOUS
  <2>3. \A i \in 0..k : f[i] = Turn(f, i)
    BY <2>1
  <2>4. \A i \in 0..(k + 1) : i # 0 => g[i - 1] = f[i - 1]
    OBVIOUS
  <2>5. \A i \in 0..(k + 1) : g[i] = Turn(g, i)
    BY <2>2, <2>3, <2>4
  <2>6. g = [i \in 0..(k + 1) |-> Turn(g, i)]
    BY <2>5
  <2> HIDE DEF g, Turn
  <2>7. \E h : h = [i \in 0..(k + 1) |-> Turn(h, i)]
    BY <2>6
  <2> QED
    BY <2>7
<1>3. S = Nat
  <2>1. S \in SUBSET Nat
    OBVIOUS
  <2> HIDE DEF S
  <2> QED
    BY <1>1, <1>2, <2>1, AllNumbers
<1>4. \E f : f = [i \in 0..n |-> Turn(f, i)]
  BY <1>3
<1> QED
  BY <1>4 DEF GetMany

-----------------------------------------------------------------------------
(* What the ring holds                                                     *)

(* The ring holds the bytes of the stream behind from, up to to.           *)
Stream(b, from, to) ==
  /\ StatusExact(b)
  /\ ReadableLen(b) = to - from
  /\ \A j \in 1..(to - from) : Content(b)[j] = from + j

(* A byte more.                                                            *)
LEMMA PutStream ==
  ASSUME NEW b \in Ring, NEW from \in Nat, NEW to \in Nat, Stream(b, from, to),
         WriteableLen(b) > 0, to + 1 \in Byte
  PROVE  /\ PutRaw(b, to + 1) \in Ring
         /\ Stream(PutRaw(b, to + 1), from, to + 1)
         /\ WriteableLen(PutRaw(b, to + 1)) = WriteableLen(b) - 1
<1> DEFINE c == PutRaw(b, to + 1)
<1>1. /\ StatusExact(b) /\ ReadableLen(b) = to - from /\ ReadableLen(b) \in 0..Cap
      /\ \A j \in 1..(to - from) : Content(b)[j] = from + j
      /\ WriteableLen(b) = Cap - ReadableLen(b)
  BY LengthsAddUp DEF Stream
<1>2. /\ c \in Ring /\ StatusExact(c) /\ ReadableLen(c) = (to - from) + 1
      /\ Content(c) = Append(Content(b), to + 1)
  BY <1>1, PutRawExact, PutAppends
<1>3. WriteableLen(c) = Cap - ReadableLen(c)
  BY <1>2, LengthsAddUp
<1>4. Content(b) \in Seq(Byte) /\ Len(Content(b)) = to - from
  BY <1>1, ContentIsSeq
<1> HIDE DEF c
<1>5. ASSUME NEW j \in 1..((to + 1) - from) PROVE Content(c)[j] = from + j
  <2>1. CASE j \in 1..(to - from)
    BY <1>1, <1>2, <1>4, <2>1
  <2>2. CASE j \notin 1..(to - from)
    <3>1. j = (to - from) + 1 /\ to - from \in Nat
      BY <1>1, <2>2, CapPositive
    <3>2. Content(c)[j] = to + 1
      BY <1>2, <1>4, <3>1
    <3> QED
      BY <3>1, <3>2
  <2> QED
    BY <2>1, <2>2
<1>6. WriteableLen(c) = WriteableLen(b) - 1
  BY <1>1, <1>2, <1>3, CapPositive
<1>7. Stream(c, from, to + 1)
  BY <1>2, <1>5 DEF Stream
<1> QED
  BY <1>2, <1>6, <1>7 DEF c

(* A chunk more.                                                           *)
LEMMA PutFromStores ==
  ASSUME NEW b \in Ring, NEW from \in Nat, NEW to \in Nat, Stream(b, from, to),
         NEW n \in Nat, n <= WriteableLen(b), \A i \in 1..n : to + i \in Byte
  PROVE  PutFrom(b, to + 1, n) \in Ring /\ Stream(PutFrom(b, to + 1, n), from, to + n)
<1>1. PICK p : /\ p = [i \in 0..n |-> IF i = 0 THEN b
                                      ELSE PutRaw(p[i - 1], (to + 1) + i - 1)]
               /\ PutFrom(b, to + 1, n) = p[n]
  BY PutFromIs
<1>2. p[0] = b /\ \A i \in 1..n : p[i] = PutRaw(p[i - 1], (to + 1) + i - 1)
  <2>1. \A i \in 0..n : p[i] = IF i = 0 THEN b ELSE PutRaw(p[i - 1], (to + 1) + i - 1)
    BY <1>1
  <2>2. 0 \in 0..n /\ \A i \in 1..n : i \in 0..n /\ i # 0
    OBVIOUS
  <2> QED
    BY <2>1, <2>2
<1>3. WriteableLen(b) \in Nat
  BY LengthsAddUp, CapPositive DEF Stream
<1> DEFINE S == {i \in Nat : i <= n => /\ p[i] \in Ring /\ Stream(p[i], from, to + i)
                                       /\ WriteableLen(p[i]) = WriteableLen(b) - i}
<1>4. 0 \in S
  <2>1. to + 0 = to /\ WriteableLen(b) - 0 = WriteableLen(b)
    BY <1>3
  <2> QED
    BY <1>2, <2>1
<1>5. ASSUME NEW i \in S PROVE i + 1 \in S
  <2> SUFFICES ASSUME i + 1 <= n
               PROVE  /\ p[i + 1] \in Ring /\ Stream(p[i + 1], from, to + (i + 1))
                      /\ WriteableLen(p[i + 1]) = WriteableLen(b) - (i + 1)
    OBVIOUS
  <2>1. /\ i \in Nat /\ p[i] \in Ring /\ Stream(p[i], from, to + i)
        /\ WriteableLen(p[i]) = WriteableLen(b) - i
    OBVIOUS
  <2>2. p[i + 1] = PutRaw(p[i], (to + i) + 1)
    <3>1. i + 1 \in 1..n /\ (i + 1) - 1 = i /\ (to + 1) + (i + 1) - 1 = (to + i) + 1
      BY <2>1
    <3> QED
      BY <1>2, <3>1
  <2>3. to + i \in Nat /\ (to + i) + 1 \in Byte /\ WriteableLen(p[i]) > 0
    <3>1. i + 1 \in 1..n /\ to + (i + 1) = (to + i) + 1
      BY <2>1
    <3> QED
      BY <1>3, <2>1, <3>1
  <2>4. /\ PutRaw(p[i], (to + i) + 1) \in Ring
        /\ Stream(PutRaw(p[i], (to + i) + 1), from, (to + i) + 1)
        /\ WriteableLen(PutRaw(p[i], (to + i) + 1)) = WriteableLen(p[i]) - 1
    BY <2>1, <2>3, PutStream
  <2>5. (to + i) + 1 = to + (i + 1) /\ (WriteableLen(b) - i) - 1 = WriteableLen(b) - (i + 1)
    BY <1>3, <2>1
  <2> QED
    BY <2>1, <2>2, <2>4, <2>5
<1>6. S = Nat
  <2>1. S \in SUBSET Nat
    OBVIOUS
  <2> HIDE DEF S
  <2> QED
    BY <1>4, <1>5, <2>1, AllNumbers
<1>7. n \in S /\ n <= n
  BY <1>6
<1> QED
  BY <1>1, <1>7

(* Bytes are read without changing the data.                               *)
LEMMA GetManyTakes ==
  ASSUME NEW b \in Ring, StatusExact(b), NEW n \in Nat, n <= ReadableLen(b)
  PROVE  /\ GetMany(b, n) \in Ring /\ StatusExact(GetMany(b, n))
         /\ ReadableLen(GetMany(b, n)) = ReadableLen(b) - n
         /\ GetMany(b, n).data = b.data /\ GetMany(b, n).wpos = b.wpos
         /\ GetMany(b, n).rpos = Advance(b.rpos, n)
<1>1. PICK g : /\ g = [i \in 0..n |-> IF i = 0 THEN b ELSE GetRaw(g[i - 1])]
               /\ GetMany(b, n) = g[n]
  BY GetManyIs
<1>2. g[0] = b /\ \A i \in 1..n : g[i] = GetRaw(g[i - 1])
  <2>1. \A i \in 0..n : g[i] = IF i = 0 THEN b ELSE GetRaw(g[i - 1])
    BY <1>1
  <2>2. 0 \in 0..n /\ \A i \in 1..n : i \in 0..n /\ i # 0
    OBVIOUS
  <2> QED
    BY <2>1, <2>2
<1>3. ReadableLen(b) \in Nat /\ ReadableLen(b) <= Cap /\ b.rpos \in Pos
  BY LengthsAddUp, CapPositive DEF Ring
<1> DEFINE S == {i \in Nat : i <= n => /\ g[i] \in Ring /\ StatusExact(g[i])
                                       /\ ReadableLen(g[i]) = ReadableLen(b) - i
                                       /\ g[i].data = b.data /\ g[i].wpos = b.wpos
                                       /\ g[i].rpos = Advance(b.rpos, i)}
<1>4. 0 \in S
  <2>1. ReadableLen(b) - 0 = ReadableLen(b) /\ Advance(b.rpos, 0) = b.rpos
    <3>1. b.rpos + 0 < Cap /\ b.rpos + 0 = b.rpos /\ 0 \in 0..Cap
      BY <1>3, CapPositive DEF Pos
    <3> QED
      BY <1>3, <3>1, AdvanceStep
  <2> QED
    BY <1>2, <2>1
<1>5. ASSUME NEW i \in S PROVE i + 1 \in S
  <2> SUFFICES ASSUME i + 1 <= n
               PROVE  /\ g[i + 1] \in Ring /\ StatusExact(g[i + 1])
                      /\ ReadableLen(g[i + 1]) = ReadableLen(b) - (i + 1)
                      /\ g[i + 1].data = b.data /\ g[i + 1].wpos = b.wpos
                      /\ g[i + 1].rpos = Advance(b.rpos, i + 1)
    OBVIOUS
  <2>1. /\ i \in Nat /\ g[i] \in Ring /\ StatusExact(g[i])
        /\ ReadableLen(g[i]) = ReadableLen(b) - i
        /\ g[i].data = b.data /\ g[i].wpos = b.wpos
        /\ g[i].rpos = Advance(b.rpos, i)
    OBVIOUS
  <2>2. g[i + 1] = GetRaw(g[i])
    <3>1. i + 1 \in 1..n /\ (i + 1) - 1 = i
      BY <2>1
    <3> QED
      BY <1>2, <3>1
  <2>3. ReadableLen(g[i]) > 0 /\ i \in 0..Cap /\ i + 1 \in 0..Cap /\ 1 \in 0..Cap
    BY <1>3, <2>1, CapPositive
  <2>4. /\ GetRaw(g[i]) \in Ring /\ StatusExact(GetRaw(g[i]))
        /\ ReadableLen(GetRaw(g[i])) = ReadableLen(g[i]) - 1
        /\ GetRaw(g[i]).data = g[i].data /\ GetRaw(g[i]).wpos = g[i].wpos
    BY <2>1, <2>3, GetRawExact
  <2>5. GetRaw(g[i]).rpos = Advance(g[i].rpos, 1)
    BY <2>1 DEF GetRaw, Ring
  <2>6. Advance(g[i].rpos, 1) = Advance(b.rpos, i + 1)
    <3>1. /\ g[i].rpos \in Pos
          /\ g[i].rpos = IF b.rpos + i < Cap THEN b.rpos + i ELSE b.rpos + i - Cap
      BY <1>3, <2>1, <2>3, AdvanceStep
    <3>2. Advance(g[i].rpos, 1) = IF g[i].rpos + 1 < Cap THEN g[i].rpos + 1
                                  ELSE g[i].rpos + 1 - Cap
      BY <2>3, <3>1, AdvanceStep
    <3>3. Advance(b.rpos, i + 1) = IF b.rpos + (i + 1) < Cap THEN b.rpos + (i + 1)
                                   ELSE b.rpos + (i + 1) - Cap
      BY <1>3, <2>3, AdvanceStep
    <3> QED
      BY <1>3, <2>1, <2>3, <3>1, <3>2, <3>3, CapPositive DEF Pos
  <2>7. (ReadableLen(b) - i) - 1 = ReadableLen(b) - (i + 1)
    BY <1>3, <2>1
  <2> QED
    BY <2>1, <2>2, <2>4, <2>5, <2>6, <2>7
<1>6. S = Nat
  <2>1. S \in SUBSET Nat
    OBVIOUS
  <2> HIDE DEF S
  <2> QED
    BY <1>4, <1>5, <2>1, AllNumbers
<1>7. n \in S /\ n <= n
  BY <1>6
<1> QED
  BY <1>1, <1>7

(* What a frame leaves behind it.                                          *)
LEMMA GetManyStream ==
  ASSUME NEW b \in Ring, NEW from \in Nat, NEW to \in Nat, Stream(b, from, to),
         NEW n \in Nat \ {0}, n <= to - from
  PROVE  GetMany(b, n) \in Ring /\ Stream(GetMany(b, n), from + n, to)
<1> DEFINE c == GetMany(b, n)
<1>1. /\ StatusExact(b) /\ ReadableLen(b) = to - from /\ ReadableLen(b) \in 0..Cap
      /\ \A j \in 1..(to - from) : Content(b)[j] = from + j
  BY LengthsAddUp DEF Stream
<1>2. /\ c \in Ring /\ StatusExact(c) /\ ReadableLen(c) = ReadableLen(b) - n
      /\ c.data = b.data /\ c.rpos = Advance(b.rpos, n)
  BY <1>1, GetManyTakes
<1> HIDE DEF c
<1>3. n \in 1..Cap /\ n <= ReadableLen(b)
  BY <1>1, CapPositive
<1>4. Content(c) = SubSeq(Content(b), n + 1, Len(Content(b)))
  BY <1>1, <1>2, <1>3, SkipsBytes
<1>5. Content(b) \in Seq(Byte) /\ Len(Content(b)) = to - from
  BY <1>1, ContentIsSeq
<1>6. ASSUME NEW j \in 1..(to - (from + n)) PROVE Content(c)[j] = (from + n) + j
  <2>1. j + n \in 1..(to - from) /\ j \in 1..((to - from) - n)
    BY <1>1, <1>3
  <2>2. Content(c)[j] = Content(b)[j + n]
    BY <1>4, <1>5, <2>1
  <2> QED
    BY <1>1, <2>1, <2>2
<1>7. ReadableLen(c) = to - (from + n)
  BY <1>1, <1>2
<1> QED
  BY <1>2, <1>6, <1>7 DEF Stream, c

(* The length is read from a ring and rpos put back: nothing has changed,  *)
(* but for a full ring, which is then neither full nor empty.              *)
Jammed(b) == b.rpos = b.wpos /\ ~b.empty /\ ~b.full
LEMMA LengthReadIs ==
  ASSUME readBuf \in Ring, StatusExact(readBuf), ReadableLen(readBuf) >= HeaderLen
  PROVE  /\ IsFull(readBuf) => LengthRead \in Ring /\ Jammed(LengthRead)
         /\ ~IsFull(readBuf) => LengthRead = readBuf
<1> DEFINE c == GetMany(readBuf, LenLen)
<1>1. /\ LenLen \in Nat \ {0} /\ LenLen < HeaderLen /\ HeaderLen \in Nat
      /\ ReadableLen(readBuf) \in 0..Cap /\ LenLen < ReadableLen(readBuf)
  BY HeaderHoldsLength, CapPositive, LengthsAddUp
<1>2. /\ c \in Ring /\ StatusExact(c) /\ ReadableLen(c) = ReadableLen(readBuf) - LenLen
      /\ c.data = readBuf.data /\ c.wpos = readBuf.wpos
  BY <1>1, GetManyTakes, CapPositive
<1> HIDE DEF c
<1>3. ReadableLen(c) > 0 /\ ReadableLen(c) < Cap
  BY <1>1, <1>2, CapPositive
<1>4. ~c.empty /\ ~c.full
  BY <1>2, <1>3, CapPositive DEF StatusExact, ReadableLen, IsFull
<1>5. LengthRead = [c EXCEPT !.rpos = readBuf.rpos]
  BY DEF LengthRead, SetRpos, c
<1>6. /\ LengthRead \in Ring /\ LengthRead.rpos = readBuf.rpos
      /\ LengthRead.data = readBuf.data /\ LengthRead.wpos = readBuf.wpos
      /\ LengthRead.empty = FALSE /\ LengthRead.full = FALSE
  BY <1>2, <1>4, <1>5 DEF Ring
<1>7. CASE IsFull(readBuf)
  BY <1>6, <1>7 DEF IsFull, Jammed
<1>8. CASE ~IsFull(readBuf)
  <2>1. readBuf.empty = FALSE /\ readBuf.full = FALSE
    BY <1>1, <1>8, CapPositive DEF StatusExact, ReadableLen, IsFull, Ring
  <2> QED
    BY <1>6, <1>8, <2>1 DEF Ring
<1> QED
  BY <1>7, <1>8

(* A jammed ring can be neither read nor written, whatever the lengths.    *)
LEMMA JammedIsDead ==
  ASSUME NEW b, Jammed(b)
  PROVE  /\ ReadableLen(b) = 0 /\ ~StatusExact(b) /\ \A n \in Nat \ {0} : ~CheckWrite(b, n)
         /\ \A n \in Nat \ {0} : ~CheckRead(b, n)
BY CapPositive DEF Jammed, ReadableLen, WriteableLen, IsFull, IsEmpty, StatusExact,
                   CheckWrite, CheckRead

-----------------------------------------------------------------------------
(* MsgFraming                                                              *)

(* The messages end one behind the other, within the bytes of the model.   *)
LEMMA EndsGrow ==
  ASSUME sizes \in [Messages -> Sizes]
  PROVE  /\ End[0] = 0
         /\ \A m \in 0..NMsgs : End[m] \in Nat
         /\ \A m \in Messages : /\ sizes[m] \in HeaderLen..Cap
                                /\ m - 1 \in 0..NMsgs /\ m \in 0..NMsgs
                                /\ End[m] = End[m - 1] + sizes[m]
         /\ \A k, m \in 0..NMsgs : k < m => End[k] < End[m]
         /\ End[NMsgs] <= NMsgs * Cap
<1> NMsgs \in Nat /\ Cap \in Nat \ {0} /\ HeaderLen \in Nat /\ HeaderLen > 1
  BY BytesArePlaces, CapPositive, HeaderHoldsLength
<1>1. \A m \in 0..NMsgs : End[m] = IF m = 0 THEN 0 ELSE End[m - 1] + sizes[m]
  BY EndIs
<1>2. \A m \in Messages : /\ sizes[m] \in HeaderLen..Cap
                          /\ m - 1 \in 0..NMsgs /\ m \in 0..NMsgs /\ m # 0
  <2>1. \A m \in Messages : sizes[m] \in HeaderLen..Cap
    BY MessagesFitRing
  <2>2. \A m \in Messages : m - 1 \in 0..NMsgs /\ m \in 0..NMsgs /\ m # 0
    BY DEF Messages
  <2> QED
    BY <2>1, <2>2
<1>3. \A m \in Messages : End[m] = End[m - 1] + sizes[m]
  BY <1>1, <1>2
<1>4. End[0] = 0
  BY <1>1
<1> DEFINE S == {m \in Nat : m <= NMsgs =>
                   /\ End[m] \in Nat /\ End[m] <= m * Cap
                   /\ \A k \in 0..NMsgs : k < m => End[k] \in Nat /\ End[k] < End[m]}
<1>5. 0 \in S
  BY <1>4
<1>6. ASSUME NEW m \in S PROVE m + 1 \in S
  <2> SUFFICES ASSUME m + 1 <= NMsgs
               PROVE  /\ End[m + 1] \in Nat /\ End[m + 1] <= (m + 1) * Cap
                      /\ \A k \in 0..NMsgs :
                           k < m + 1 => End[k] \in Nat /\ End[k] < End[m + 1]
    OBVIOUS
  <2>1. /\ m \in Nat /\ End[m] \in Nat /\ End[m] <= m * Cap
        /\ \A k \in 0..NMsgs : k < m => End[k] \in Nat /\ End[k] < End[m]
    OBVIOUS
  <2>2. m + 1 \in Messages /\ (m + 1) - 1 = m
    BY <2>1 DEF Messages
  <2>3. End[m + 1] = End[m] + sizes[m + 1] /\ sizes[m + 1] \in HeaderLen..Cap
    BY <1>2, <1>3, <2>2
  <2>4. (m + 1) * Cap = m * Cap + Cap /\ m * Cap \in Nat
    BY <2>1
  <2>5. End[m + 1] \in Nat /\ End[m + 1] > End[m]
    BY <2>1, <2>3
  <2>6. End[m + 1] <= (m + 1) * Cap
    <3> DEFINE p == m * Cap
    <3> HIDE DEF p
    <3>1. End[m + 1] <= p + Cap
      BY <2>1, <2>3, <2>4 DEF p
    <3> QED
      BY <2>4, <3>1 DEF p
  <2>7. ASSUME NEW k \in 0..NMsgs, k < m + 1 PROVE End[k] \in Nat /\ End[k] < End[m + 1]
    <3>1. CASE k = m
      BY <2>1, <2>5, <3>1
    <3>2. CASE k # m
      <4>1. k < m
        BY <2>1, <2>7, <3>2
      <4>2. End[k] \in Nat /\ End[k] < End[m]
        BY <2>1, <4>1
      <4> QED
        BY <2>1, <2>5, <4>2
    <3> QED
      BY <3>1, <3>2
  <2> QED
    BY <2>5, <2>6, <2>7
<1>7. S = Nat
  <2>1. S \in SUBSET Nat
    OBVIOUS
  <2> HIDE DEF S
  <2> QED
    BY <1>5, <1>6, <2>1, AllNumbers
<1>8. \A m \in 0..NMsgs : /\ End[m] \in Nat /\ End[m] <= m * Cap
                          /\ \A k \in 0..NMsgs : k < m => End[k] < End[m]
  <2> SUFFICES ASSUME NEW m \in 0..NMsgs
               PROVE  /\ End[m] \in Nat /\ End[m] <= m * Cap
                      /\ \A k \in 0..NMsgs : k < m => End[k] < End[m]
    OBVIOUS
  <2>1. m \in S /\ m <= NMsgs
    BY <1>7
  <2> QED
    BY <2>1
<1> QED
  BY <1>2, <1>3, <1>4, <1>8

(* The inductive invariant of MsgFraming.                                  *)
FramingTyped ==
  /\ sizes \in [Messages -> Sizes]
  /\ datagram \in BOOLEAN
  /\ got \in 0..End[NMsgs]
  /\ readBuf \in Ring
  /\ phase \in {"recv", "read"}
  /\ delivered \in Seq(0..NMsgs)
  /\ crashed \in BOOLEAN
  /\ taken \in 0..got
  /\ intact \in BOOLEAN

(* The ring holds what came and was not taken, or is neither full nor      *)
(* empty for having been full when a length was read.                      *)
Held == Stream(readBuf, taken, got) \/ Jammed(readBuf)

(* As long as nothing was lost: messages 1, 2, ... came out and nothing    *)
(* else was taken.                                                         *)
InOrder ==
  intact =>
    /\ StatusExact(readBuf) /\ ~crashed
    /\ Len(delivered) \in 0..NMsgs
    /\ \A i \in 1..Len(delivered) : delivered[i] = i
    /\ taken = End[Len(delivered)]

(* With datagrams the loops stay between messages: those given out are     *)
(* among the ones that are past, each behind the one before it.            *)
Past(d, k) ==
  /\ \A i \in 1..Len(d) : d[i] \in 1..k
  /\ \A i, j \in 1..Len(d) : i < j => d[i] < d[j]
AtEnds ==
  datagram =>
    /\ ~crashed
    /\ \E g \in 0..NMsgs : got = End[g]
    /\ \E k \in 0..NMsgs : taken = End[k] /\ Past(delivered, k)

FramingInv ==
  FramingTyped /\ Held /\ InOrder /\ AtEnds /\ CompleteMessageIsRead

(* A chunk of bytes in front of the end of the last message is in Byte.    *)
LEMMA ChunkIsBytes ==
  ASSUME FramingTyped, NEW n \in 1..Cap, Chunk(n)
  PROVE  got \in Nat /\ got + n \in 0..End[NMsgs] /\ \A i \in 1..n : got + i \in Byte
<1>1. /\ End[NMsgs] \in Nat /\ End[NMsgs] <= NMsgs * Cap
      /\ got \in 0..End[NMsgs] /\ NMsgs \in Nat /\ Cap \in Nat \ {0}
  BY EndsGrow, BytesArePlaces, CapPositive DEF FramingTyped
<1>2. got + n <= End[NMsgs]
  BY DEF Chunk
<1> DEFINE p == NMsgs * Cap
<1>3. p \in Nat /\ Byte = 0..p /\ End[NMsgs] <= p
  BY <1>1, BytesArePlaces
<1> HIDE DEF p
<1> QED
  BY <1>1, <1>2, <1>3

(* When what was taken ends where a message ends, the bytes at rpos are    *)
(* the next message's: its length is what the header says, and its bytes   *)
(* follow.                                                                 *)
LEMMA AlignedFrame ==
  ASSUME FramingTyped, Stream(readBuf, taken, got),
         NEW k \in 0..NMsgs, taken = End[k], ReadableLen(readBuf) >= HeaderLen
  PROVE  /\ k + 1 \in Messages
         /\ FrameSizes = {sizes[k + 1]}
         /\ End[k + 1] = taken + sizes[k + 1]
         /\ \A m \in Messages : ByteAt(readBuf) = FirstByte(m) <=> m = k + 1
         /\ ReadableLen(readBuf) >= sizes[k + 1] => Whole(k + 1)
<1>1. /\ End[NMsgs] \in Nat /\ got \in 0..End[NMsgs] /\ taken \in 0..got
      /\ NMsgs \in Nat /\ HeaderLen \in Nat /\ HeaderLen > 1 /\ readBuf \in Ring
      /\ sizes \in [Messages -> Sizes] /\ End[k] \in Nat
  BY EndsGrow, BytesArePlaces, HeaderHoldsLength DEF FramingTyped
<1>2. /\ StatusExact(readBuf) /\ ReadableLen(readBuf) = got - taken
      /\ \A j \in 1..(got - taken) : Content(readBuf)[j] = taken + j
  BY DEF Stream
<1>3. k # NMsgs
  BY <1>1, <1>2
<1>4. k + 1 \in Messages /\ (k + 1) - 1 = k
  BY <1>1, <1>3 DEF Messages
<1>5. End[k + 1] = taken + sizes[k + 1] /\ sizes[k + 1] \in HeaderLen..Cap
  BY <1>1, <1>4, EndsGrow
<1>6. /\ Content(readBuf) \in Seq(Byte) /\ Len(Content(readBuf)) = got - taken
      /\ Content(readBuf)[1] = readBuf.data[Advance(readBuf.rpos, 1 - 1)]
  <2>1. 1 \in 1..ReadableLen(readBuf)
    BY <1>1, <1>2
  <2> QED
    BY <1>1, <1>2, <2>1, ContentIsSeq
<1>7. ByteAt(readBuf) = End[k] + 1
  <2>1. readBuf.rpos \in Pos /\ readBuf.rpos \in 0..(Cap - 1) /\ 0 \in 0..Cap
    BY <1>1, CapPositive DEF Ring, Pos
  <2>2. Advance(readBuf.rpos, 0) = readBuf.rpos
    BY <2>1, AdvanceStep, CapPositive
  <2>3. 1 - 1 = 0 /\ 1 \in 1..(got - taken)
    BY <1>1, <1>2
  <2> QED
    BY <1>2, <1>6, <2>2, <2>3 DEF ByteAt
<1>8. ASSUME NEW m \in Messages PROVE ByteAt(readBuf) = FirstByte(m) <=> m = k + 1
  <2>1. m - 1 \in 0..NMsgs /\ End[m - 1] \in Nat /\ m \in Int
    BY <1>1, EndsGrow DEF Messages
  <2>2. m - 1 = k \/ m - 1 < k \/ k < m - 1
    BY <2>1
  <2>3. m - 1 # k => End[m - 1] # End[k]
    <3>1. \A i, j \in 0..NMsgs : i < j => End[i] < End[j]
      BY <1>1, EndsGrow
    <3>2. m - 1 < k => End[m - 1] < End[k]
      BY <2>1, <3>1
    <3>3. k < m - 1 => End[k] < End[m - 1]
      BY <2>1, <3>1
    <3> QED
      BY <1>1, <2>1, <2>2, <3>2, <3>3
  <2>4. FirstByte(m) = End[m - 1] + 1
    BY DEF FirstByte
  <2>5. m = k + 1 <=> m - 1 = k
    BY <2>1
  <2>6. End[k] + 1 = End[m - 1] + 1 <=> m - 1 = k
    BY <1>1, <2>1, <2>3
  <2> QED
    BY <1>7, <2>4, <2>5, <2>6
<1>9. FrameSizes = {sizes[k + 1]}
  <2>1. {m \in Messages : ByteAt(readBuf) = FirstByte(m)} = {k + 1}
    BY <1>4, <1>8
  <2>2. \E m \in Messages : ByteAt(readBuf) = FirstByte(m)
    BY <1>4, <1>8
  <2> QED
    BY <2>1, <2>2 DEF FrameSizes
<1>10. ASSUME ReadableLen(readBuf) >= sizes[k + 1] PROVE Whole(k + 1)
  <2> DEFINE n == sizes[k + 1]
             s == SubSeq(Content(readBuf), 1, n)
  <2>1. n \in Nat /\ n <= got - taken /\ got - taken \in Nat
    BY <1>1, <1>2, <1>5, <1>10
  <2> HIDE DEF n
  <2>2. s = [i \in 1..n |-> Content(readBuf)[i]]
    BY <1>6, <2>1
  <2>3. \A i \in 1..n : Content(readBuf)[i] = End[k] + i
    BY <1>2, <2>1
  <2>4. s = [i \in 1..n |-> End[k] + i]
    BY <2>2, <2>3
  <2>5. ByteAt(readBuf) = FirstByte(k + 1)
    BY <1>4, <1>8
  <2> QED
    BY <1>4, <2>4, <2>5 DEF Whole, n
<1> QED
  BY <1>4, <1>5, <1>8, <1>9, <1>10

LEMMA FramingInitInv == FramingInit => FramingInv
<1> SUFFICES ASSUME FramingInit PROVE FramingInv
  OBVIOUS
<1> USE DEF FramingInit
<1>1. /\ End[0] = 0 /\ End[NMsgs] \in Nat /\ 0 \in 0..NMsgs
      /\ \A i, j \in 0..NMsgs : i < j => End[i] < End[j]
  <2>1. NMsgs \in Nat
    BY BytesArePlaces
  <2> QED
    BY <2>1, EndsGrow
<1>2. FramingTyped
  <2>1. readBuf \in Ring
    BY NewRingExact
  <2>2. <<>> \in Seq(0..NMsgs) /\ 0 \in 0..0 /\ 0 \in 0..End[NMsgs]
    BY <1>1
  <2> QED
    BY <2>1, <2>2 DEF FramingTyped
<1>3. ReadableLen(readBuf) = 0 /\ StatusExact(readBuf)
  BY NewRingExact DEF NewRing, ReadableLen, IsFull
<1>4. Held
  BY <1>3 DEF Held, Stream
<1>5. InOrder /\ AtEnds
  BY <1>1, <1>3 DEF InOrder, AtEnds, Past
<1>6. CompleteMessageIsRead
  <2> SUFFICES ASSUME NEW m \in Messages, taken = End[m - 1]
               PROVE  got < End[m]
    BY DEF CompleteMessageIsRead
  <2>1. m - 1 \in 0..NMsgs /\ m \in 0..NMsgs /\ m - 1 < m
    BY EndsGrow DEF Messages
  <2> QED
    BY <1>1, <2>1
<1> QED
  BY <1>2, <1>4, <1>5, <1>6 DEF FramingInv

(* The sizes of the messages never change.                                 *)
LEMMA EndStays == ASSUME sizes' = sizes PROVE End' = End
  BY DEF End

(* A chunk is stored.                                                      *)
LEMMA StoreInv ==
  ASSUME FramingInv, NEW n \in 1..Cap, Store(n) PROVE FramingInv'
<1> USE DEF FramingInv, Store
<1>1. /\ End' = End /\ End[NMsgs] \in Nat /\ n \in Nat \ {0}
      /\ \A i \in 1..n : got + i \in Byte
      /\ got \in Nat /\ taken \in 0..got /\ got + n \in 0..End[NMsgs]
  BY EndStays, EndsGrow, BytesArePlaces, CapPositive, ChunkIsBytes DEF FramingTyped
<1>2. Stream(readBuf, taken, got)
  BY <1>1, JammedIsDead DEF Held
<1>3. n <= WriteableLen(readBuf)
  BY <1>1 DEF CheckWrite
<1>4. readBuf' \in Ring /\ Stream(readBuf', taken', got')
  <2>1. readBuf \in Ring /\ taken \in Nat /\ n \in Nat
    BY <1>1 DEF FramingTyped
  <2>2. /\ PutFrom(readBuf, got + 1, n) \in Ring
        /\ Stream(PutFrom(readBuf, got + 1, n), taken, got + n)
    BY <1>1, <1>2, <1>3, <2>1, PutFromStores
  <2>3. readBuf' = PutFrom(readBuf, got + 1, n) /\ taken' = taken /\ got' = got + n
    OBVIOUS
  <2> QED
    BY <2>2, <2>3
<1>5. FramingTyped'
  BY <1>1, <1>4 DEF FramingTyped
<1>6. Held'
  BY <1>4 DEF Held
<1>7. InOrder'
  BY <1>1, <1>4 DEF InOrder, Stream
<1>8. AtEnds'
  <2> SUFFICES ASSUME datagram' PROVE AtEnds'
    BY DEF AtEnds
  <2>1. \E g \in 0..NMsgs : got' = End[g]
    BY EndsGrow DEF Chunk, FramingTyped
  <2>2. \E k \in 0..NMsgs : taken = End[k] /\ Past(delivered, k)
    BY DEF AtEnds
  <2> QED
    BY <1>1, <2>1, <2>2 DEF AtEnds
<1>9. CompleteMessageIsRead'
  BY DEF CompleteMessageIsRead
<1> QED
  BY <1>5, <1>6, <1>7, <1>8, <1>9

(* A chunk does not fit: the ring is cleared.                              *)
LEMMA OverflowInv ==
  ASSUME FramingInv, NEW n \in 1..Cap, Overflow(n) PROVE FramingInv'
<1> USE DEF FramingInv, Overflow
<1>1. /\ End' = End /\ End[NMsgs] \in Nat /\ n \in Nat \ {0}
      /\ got \in Nat /\ taken \in 0..got /\ got + n \in 0..End[NMsgs]
  BY EndStays, EndsGrow, BytesArePlaces, CapPositive, ChunkIsBytes DEF FramingTyped
<1>2. readBuf' \in Ring /\ StatusExact(readBuf') /\ ReadableLen(readBuf') = 0
  <2>1. readBuf \in Ring
    BY DEF FramingTyped
  <2>2. Reset(readBuf) \in Ring /\ StatusExact(Reset(readBuf))
    BY <2>1, ResetExact
  <2>3. ReadableLen(Reset(readBuf)) = 0
    BY <2>1 DEF Reset, Ring, ReadableLen, IsFull
  <2> QED
    BY <2>2, <2>3
<1>3. FramingTyped'
  <2>1. got' \in 0..End'[NMsgs] /\ taken' \in 0..got' /\ intact' \in BOOLEAN
    <3>1. got' = got + n /\ taken' = got + n /\ intact' = FALSE
      OBVIOUS
    <3>2. got' \in 0..End'[NMsgs]
      BY <1>1, <3>1
    <3>3. taken' \in 0..got'
      BY <1>1, <3>1
    <3> QED
      BY <3>1, <3>2, <3>3
  <2> QED
    BY <1>2, <2>1 DEF FramingTyped
<1>4. Held'
  BY <1>1, <1>2 DEF Held, Stream
<1>5. InOrder'
  BY DEF InOrder
<1>6. AtEnds'
  <2> SUFFICES ASSUME datagram' PROVE AtEnds'
    BY DEF AtEnds
  <2>1. PICK g \in Messages : got + n = End[g]
    BY DEF Chunk
  <2>2. PICK k \in 0..NMsgs : taken = End[k] /\ Past(delivered, k)
    BY DEF AtEnds
  <2>3. g \in 0..NMsgs /\ k < g
    <3>1. /\ g \in 0..NMsgs /\ End[g] \in Nat /\ End[k] \in Nat
          /\ \A i, j \in 0..NMsgs : i < j => End[i] < End[j]
      BY EndsGrow DEF FramingTyped
    <3>2. End[k] < End[g]
      BY <1>1, <2>1, <2>2
    <3>3. g < k => End[g] < End[k]
      BY <3>1
    <3> QED
      BY <3>1, <3>2, <3>3
  <2>4. Past(delivered, g)
    BY <2>2, <2>3 DEF Past
  <2> QED
    BY <1>1, <2>1, <2>3, <2>4 DEF AtEnds
<1>7. CompleteMessageIsRead'
  <2> SUFFICES ASSUME NEW m \in Messages, got + n = End[m - 1]
               PROVE  got + n < End[m]
    BY <1>1 DEF CompleteMessageIsRead, Messages
  <2>1. m - 1 \in 0..NMsgs /\ m \in 0..NMsgs /\ m - 1 < m
    BY EndsGrow DEF FramingTyped, Messages
  <2> QED
    BY <2>1, EndsGrow DEF FramingTyped
<1> QED
  BY <1>3, <1>4, <1>5, <1>6, <1>7

(* A datagram is lost.                                                     *)
LEMMA LoseInv ==
  ASSUME FramingInv, NEW m \in Messages, LoseDatagram(m) PROVE FramingInv'
<1> USE DEF FramingInv, LoseDatagram
<1>1. /\ End' = End /\ End[NMsgs] \in Nat /\ got \in Nat
      /\ m - 1 \in 0..NMsgs /\ m \in 0..NMsgs
      /\ \A i \in 0..NMsgs : End[i] \in Nat
      /\ \A i, j \in 0..NMsgs : i < j => End[i] < End[j]
  <2>1. sizes \in [Messages -> Sizes] /\ sizes' = sizes /\ NMsgs \in 0..NMsgs
    BY BytesArePlaces DEF FramingTyped
  <2>2. End' = End
    BY <2>1, EndStays
  <2>3. /\ m - 1 \in 0..NMsgs /\ m \in 0..NMsgs
        /\ \A i \in 0..NMsgs : End[i] \in Nat
        /\ \A i, j \in 0..NMsgs : i < j => End[i] < End[j]
    BY <2>1, EndsGrow
  <2> QED
    BY <2>1, <2>2, <2>3
<1>2. End[m] \in 0..End[NMsgs]
  <2>1. NMsgs \in 0..NMsgs /\ m <= NMsgs /\ m \in Nat
    BY BytesArePlaces, <1>1
  <2>2. m = NMsgs \/ m < NMsgs
    BY <2>1, BytesArePlaces
  <2>3. m < NMsgs => End[m] < End[NMsgs]
    BY <1>1, <2>1
  <2> QED
    BY <1>1, <2>1, <2>2, <2>3
<1>3. FramingTyped'
  <2>1. got' \in 0..End'[NMsgs] /\ taken' \in 0..got' /\ intact' \in BOOLEAN
    <3>1. got' = End[m] /\ taken' = End[m] /\ intact' = FALSE
      OBVIOUS
    <3>2. got' \in 0..End'[NMsgs]
      BY <1>1, <1>2, <3>1
    <3>3. taken' \in 0..got'
      BY <1>1, <1>2, <3>1
    <3> QED
      BY <3>1, <3>2, <3>3
  <2> QED
    BY <2>1 DEF FramingTyped
<1>4. Held'
  <2>1. CASE Jammed(readBuf)
    BY <2>1 DEF Held
  <2>2. CASE Stream(readBuf, taken, got)
    <3>1. ReadableLen(readBuf) = 0 /\ StatusExact(readBuf)
      BY <1>1, <2>2 DEF Stream
    <3> QED
      BY <1>1, <3>1 DEF Held, Stream
  <2> QED
    BY <2>1, <2>2 DEF Held
<1>5. InOrder'
  BY DEF InOrder
<1>6. AtEnds'
  <2>1. PICK k \in 0..NMsgs : taken = End[k] /\ Past(delivered, k)
    BY DEF AtEnds
  <2>2. k = m - 1
    <3>1. k < m - 1 => End[k] < End[m - 1]
      BY <1>1
    <3>2. m - 1 < k => End[m - 1] < End[k]
      BY <1>1
    <3> QED
      BY <1>1, <2>1, <3>1, <3>2
  <2>3. Past(delivered, m)
    BY <1>1, <2>1, <2>2 DEF Past
  <2> QED
    BY <1>1, <2>3 DEF AtEnds
<1>7. CompleteMessageIsRead'
  <2> SUFFICES ASSUME NEW i \in Messages, End[m] = End[i - 1]
               PROVE  End[m] < End[i]
    BY <1>1 DEF CompleteMessageIsRead, Messages
  <2>1. i - 1 \in 0..NMsgs /\ i \in 0..NMsgs /\ i - 1 < i
    BY EndsGrow DEF FramingTyped, Messages
  <2> QED
    BY <1>1, <2>1
<1> QED
  BY <1>3, <1>4, <1>5, <1>6, <1>7

(* Less than a header has come.                                            *)
LEMMA TooShortInv ==
  ASSUME FramingInv, TooShort PROVE FramingInv'
<1> USE DEF FramingInv, TooShort
<1>1. End' = End
  BY EndStays
<1>2. FramingTyped' /\ Held' /\ InOrder' /\ AtEnds'
  BY <1>1 DEF FramingTyped, Held, InOrder, AtEnds
<1>3. CompleteMessageIsRead'
  <2> SUFFICES ASSUME NEW m \in Messages, taken = End[m - 1], StatusExact(readBuf)
               PROVE  got < End[m]
    BY <1>1 DEF CompleteMessageIsRead, Messages, Stuck
  <2>1. Stream(readBuf, taken, got)
    BY JammedIsDead DEF Held
  <2>2. /\ sizes[m] \in HeaderLen..Cap /\ End[m] = End[m - 1] + sizes[m]
        /\ End[m - 1] \in Nat /\ got \in Nat /\ taken \in 0..got
        /\ HeaderLen \in Nat
    <3>1. sizes \in [Messages -> Sizes] /\ NMsgs \in 0..NMsgs
      BY BytesArePlaces DEF FramingTyped
    <3>2. End[NMsgs] \in Nat /\ m - 1 \in 0..NMsgs
      BY <3>1, EndsGrow
    <3> QED
      BY <3>1, <3>2, EndsGrow, HeaderHoldsLength DEF FramingTyped
  <2>3. got - taken < HeaderLen
    BY <2>1 DEF Stream
  <2> QED
    BY <2>2, <2>3, CapPositive
<1> QED
  BY <1>2, <1>3

(* Reading the length of a frame changes nothing but a full ring.          *)
LEMMA PeekedIs ==
  ASSUME FramingInv, NEW size \in HeaderLen..(Cap + 1), Peeked(size)
  PROVE  /\ Stream(readBuf, taken, got)
         /\ IsFull(readBuf) => LengthRead \in Ring /\ Jammed(LengthRead)
         /\ ~IsFull(readBuf) => LengthRead = readBuf
         /\ size \in Nat \ {0}
<1>1. HeaderLen \in Nat /\ HeaderLen > 1 /\ readBuf \in Ring
      /\ ReadableLen(readBuf) >= HeaderLen
  BY HeaderHoldsLength DEF FramingInv, FramingTyped, Peeked
<1>2. Stream(readBuf, taken, got)
  <2>1. ReadableLen(readBuf) # 0
    BY <1>1, LengthsAddUp
  <2> QED
    BY <2>1, JammedIsDead DEF FramingInv, Held
<1>3. StatusExact(readBuf)
  BY <1>2 DEF Stream
<1>4. size \in Nat \ {0}
  BY <1>1, CapPositive
<1> QED
  BY <1>1, <1>2, <1>3, <1>4, LengthReadIs

(* A message is not all there, or the ring was full.                       *)
LEMMA NotReadInv ==
  ASSUME FramingInv, NEW size \in HeaderLen..(Cap + 1), NotRead(size)
  PROVE  FramingInv'
<1>1. Peeked(size)
  BY DEF NotRead
<1>2. /\ Stream(readBuf, taken, got)
      /\ IsFull(readBuf) => LengthRead \in Ring /\ Jammed(LengthRead)
      /\ ~IsFull(readBuf) => LengthRead = readBuf
      /\ size \in Nat \ {0}
  BY <1>1, PeekedIs
<1> USE DEF FramingInv, NotRead
<1>3. End' = End
  BY EndStays
<1>4. FramingTyped'
  <2>1. readBuf' \in Ring /\ intact' \in BOOLEAN
    BY <1>2 DEF FramingTyped
  <2> QED
    BY <1>3, <2>1 DEF FramingTyped
<1>5. Held'
  BY <1>2 DEF Held
<1>6. InOrder'
  BY <1>2, <1>3 DEF InOrder
<1>7. AtEnds'
  BY <1>3 DEF AtEnds
<1>8. CompleteMessageIsRead'
  <2> SUFFICES ASSUME NEW m \in Messages, taken = End[m - 1], StatusExact(readBuf')
               PROVE  got < End[m]
    BY <1>3 DEF CompleteMessageIsRead, Messages, Stuck
  <2>1. ~IsFull(readBuf) /\ LengthRead = readBuf
    BY <1>2, JammedIsDead
  <2>2. sizes \in [Messages -> Sizes] /\ NMsgs \in 0..NMsgs
    BY BytesArePlaces DEF FramingTyped
  <2>3. m - 1 \in 0..NMsgs /\ (m - 1) + 1 = m
    BY <2>2, EndsGrow DEF Messages
  <2>4. ReadableLen(readBuf) >= HeaderLen /\ size \in FrameSizes
    BY <1>1 DEF Peeked
  <2>5. FrameSizes = {sizes[m]} /\ End[m] = taken + sizes[m]
    <3> DEFINE k == m - 1
    <3>1. k \in 0..NMsgs /\ taken = End[k] /\ k + 1 = m
      BY <2>3
    <3> HIDE DEF k
    <3> QED
      BY <1>2, <2>4, <3>1, AlignedFrame
  <2>6. ReadableLen(readBuf) < size
    <3>1. StatusExact(readBuf) /\ readBuf \in Ring
      BY <1>2 DEF Stream, FramingTyped
    <3>2. CheckRead(readBuf, size) <=> size <= ReadableLen(readBuf)
      BY <1>2, <3>1, ChecksCompareLengths
    <3>3. ReadableLen(readBuf) \in 0..Cap
      BY <3>1, LengthsAddUp
    <3> QED
      BY <1>2, <2>1, <3>2, <3>3, CapPositive
  <2>7. End[NMsgs] \in Nat /\ got \in 0..End[NMsgs] /\ taken \in 0..got
    BY <2>2, EndsGrow DEF FramingTyped
  <2> QED
    BY <1>2, <2>4, <2>5, <2>6, <2>7 DEF Stream
<1> QED
  BY <1>4, <1>5, <1>6, <1>7, <1>8

(* A frame is read: as many bytes as its length says leave the ring.       *)
LEMMA FrameLeaves ==
  ASSUME FramingInv, NEW size \in HeaderLen..(Cap + 1), Read(size)
  PROVE  /\ Stream(readBuf, taken, got) /\ ReadableLen(readBuf) >= HeaderLen
         /\ size \in FrameSizes /\ size \in Nat \ {0} /\ taken' = taken + size
         /\ size <= ReadableLen(readBuf) /\ taken + size \in 0..got
         /\ readBuf' \in Ring /\ Stream(readBuf', taken + size, got)
<1>1. Peeked(size) /\ CheckRead(LengthRead, size) /\ ReadableLen(readBuf) >= size
      /\ readBuf' = GetMany(LengthRead, size) /\ taken' = taken + size
  BY DEF Read
<1>2. /\ Stream(readBuf, taken, got)
      /\ IsFull(readBuf) => LengthRead \in Ring /\ Jammed(LengthRead)
      /\ ~IsFull(readBuf) => LengthRead = readBuf
      /\ size \in Nat \ {0}
  BY <1>1, PeekedIs
<1>3. ReadableLen(readBuf) >= HeaderLen /\ size \in FrameSizes
  BY <1>1 DEF Peeked
<1>4. LengthRead = readBuf
  BY <1>1, <1>2, JammedIsDead
<1>5. /\ readBuf \in Ring /\ got \in Nat /\ taken \in 0..got
      /\ ReadableLen(readBuf) = got - taken
  <2>1. End[NMsgs] \in Nat
    BY EndsGrow, BytesArePlaces DEF FramingInv, FramingTyped
  <2> QED
    BY <1>2, <2>1 DEF FramingInv, FramingTyped, Stream
<1>6. size <= got - taken /\ taken \in Nat /\ taken + size \in 0..got
  BY <1>1, <1>2, <1>5
<1>7. /\ GetMany(readBuf, size) \in Ring
      /\ Stream(GetMany(readBuf, size), taken + size, got)
  BY <1>2, <1>5, <1>6, GetManyStream
<1> QED
  BY <1>1, <1>2, <1>3, <1>4, <1>5, <1>6, <1>7

(* When what was taken ends where a message ends, reading a frame gives    *)
(* the next message to client_onMessage and takes just its bytes.          *)
LEMMA NextIsRead ==
  ASSUME FramingInv, NEW size \in HeaderLen..(Cap + 1), Read(size),
         NEW k \in 0..NMsgs, taken = End[k]
  PROVE  /\ k + 1 \in Messages /\ k + 1 \in 0..NMsgs
         /\ taken' = End[k + 1]
         /\ delivered' = Append(delivered, k + 1)
         /\ UNCHANGED crashed
<1>1. /\ Stream(readBuf, taken, got) /\ ReadableLen(readBuf) >= HeaderLen
      /\ size \in FrameSizes /\ taken' = taken + size
      /\ size <= ReadableLen(readBuf)
  BY FrameLeaves
<1>2. /\ k + 1 \in Messages
      /\ FrameSizes = {sizes[k + 1]}
      /\ End[k + 1] = taken + sizes[k + 1]
      /\ \A m \in Messages : ByteAt(readBuf) = FirstByte(m) <=> m = k + 1
      /\ ReadableLen(readBuf) >= sizes[k + 1] => Whole(k + 1)
  BY <1>1, AlignedFrame DEF FramingInv
<1>3. size = sizes[k + 1]
  BY <1>1, <1>2
<1>4. /\ size \in Nat /\ ReadableLen(readBuf) \in 0..Cap
  BY <1>1, FrameLeaves, LengthsAddUp DEF Stream, FramingInv, FramingTyped
<1>5. Whole(k + 1)
  BY <1>1, <1>2, <1>3, <1>4, CapPositive
<1>6. \A m \in Messages : Whole(m) => m = k + 1
  BY <1>2 DEF Whole
<1>7. delivered' = Append(delivered, k + 1) /\ UNCHANGED crashed
  BY <1>2, <1>5, <1>6 DEF Read
<1>8. k + 1 \in 0..NMsgs
  BY <1>2, BytesArePlaces DEF Messages
<1> QED
  BY <1>1, <1>2, <1>3, <1>7, <1>8

LEMMA ReadInv ==
  ASSUME FramingInv, NEW size \in HeaderLen..(Cap + 1), Read(size)
  PROVE  FramingInv'
<1>1. /\ size \in Nat \ {0} /\ taken' = taken + size /\ taken + size \in 0..got
      /\ readBuf' \in Ring /\ Stream(readBuf', taken + size, got)
  BY FrameLeaves
<1>2. /\ UNCHANGED <<sizes, datagram, got, intact>> /\ phase = "read"
      /\ phase' = IF crashed' THEN "recv" ELSE phase
  BY DEF Read, Peeked
<1>3. End' = End /\ NMsgs \in Nat
  BY <1>2, EndStays, BytesArePlaces
<1>4. delivered \in Seq(0..NMsgs) /\ crashed \in BOOLEAN
  BY DEF FramingInv, FramingTyped
<1>5. delivered' \in Seq(0..NMsgs) /\ crashed' \in BOOLEAN
  <2>1. \A m \in 0..NMsgs : Append(delivered, m) \in Seq(0..NMsgs)
    BY <1>4
  <2>2. 0 \in 0..NMsgs /\ \A m \in Messages : m \in 0..NMsgs
    BY <1>3 DEF Messages
  <2>3. CASE \E m \in Messages : delivered' = Append(delivered, m) /\ UNCHANGED crashed
    BY <1>4, <2>1, <2>2, <2>3
  <2>4. CASE delivered' = Append(delivered, 0) /\ UNCHANGED crashed
    BY <1>4, <2>1, <2>2, <2>4
  <2>5. CASE crashed' = TRUE /\ UNCHANGED delivered
    BY <1>4, <2>5
  <2> QED
    BY <2>3, <2>4, <2>5 DEF Read
<1>6. FramingTyped'
  <2>1. /\ sizes' \in [Messages -> Sizes] /\ datagram' \in BOOLEAN /\ intact' \in BOOLEAN
        /\ got' \in 0..End'[NMsgs] /\ phase' \in {"recv", "read"}
    BY <1>2, <1>3 DEF FramingInv, FramingTyped
  <2>2. taken' \in 0..got'
    BY <1>1, <1>2
  <2> QED
    BY <1>1, <1>5, <2>1, <2>2 DEF FramingTyped, Messages
<1>7. Held'
  BY <1>1, <1>2 DEF Held
<1>8. InOrder'
  <2> SUFFICES ASSUME intact' PROVE InOrder'
    BY DEF InOrder
  <2> DEFINE k == Len(delivered)
  <2>1. /\ ~crashed /\ k \in 0..NMsgs /\ taken = End[k]
        /\ \A i \in 1..k : delivered[i] = i
    BY <1>2 DEF FramingInv, InOrder
  <2> HIDE DEF k
  <2>2. /\ k + 1 \in 0..NMsgs /\ taken' = End[k + 1]
        /\ delivered' = Append(delivered, k + 1) /\ crashed' = crashed
    BY <2>1, NextIsRead
  <2>3. Len(delivered') = k + 1
    BY <1>4, <2>2 DEF k
  <2>4. \A i \in 1..(k + 1) : delivered'[i] = i
    <3>1. k \in Nat /\ \A i \in 1..(k + 1) : i = k + 1 \/ i \in 1..k
      BY <2>1
    <3>2. \A i \in 1..k : delivered'[i] = delivered[i]
      BY <1>4, <2>2 DEF k
    <3>3. delivered'[k + 1] = k + 1
      BY <1>4, <2>2 DEF k
    <3> QED
      BY <2>1, <3>1, <3>2, <3>3
  <2>5. StatusExact(readBuf')
    BY <1>1 DEF Stream
  <2> QED
    BY <1>3, <2>1, <2>2, <2>3, <2>4, <2>5 DEF InOrder
<1>9. AtEnds'
  <2> SUFFICES ASSUME datagram' PROVE AtEnds'
    BY DEF AtEnds
  <2>1. PICK k \in 0..NMsgs : taken = End[k] /\ Past(delivered, k)
    BY <1>2 DEF FramingInv, AtEnds
  <2>2. ~crashed /\ \E g \in 0..NMsgs : got = End[g]
    BY <1>2 DEF FramingInv, AtEnds
  <2>3. /\ k + 1 \in 0..NMsgs /\ taken' = End[k + 1]
        /\ delivered' = Append(delivered, k + 1) /\ crashed' = crashed
    BY <2>1, NextIsRead
  <2>4. Past(delivered', k + 1)
    <3> DEFINE n == Len(delivered)
    <3>1. n \in Nat /\ Len(delivered') = n + 1
      BY <1>4, <2>3
    <3>2. /\ \A i \in 1..n : delivered'[i] = delivered[i]
          /\ delivered'[n + 1] = k + 1
      BY <1>4, <2>3
    <3>3. /\ \A i \in 1..n : delivered[i] \in 1..k
          /\ \A i, j \in 1..n : i < j => delivered[i] < delivered[j]
      BY <2>1 DEF Past
    <3> HIDE DEF n
    <3>4. \A i \in 1..(n + 1) : i = n + 1 \/ i \in 1..n
      BY <3>1
    <3>5. \A i \in 1..(n + 1) : delivered'[i] \in 1..(k + 1)
      BY <3>2, <3>3, <3>4
    <3>6. ASSUME NEW i \in 1..(n + 1), NEW j \in 1..(n + 1), i < j
          PROVE  delivered'[i] < delivered'[j]
      <4>1. i \in 1..n
        BY <3>1, <3>6
      <4>2. CASE j = n + 1
        BY <3>2, <3>3, <4>1, <4>2
      <4>3. CASE j \in 1..n
        BY <3>2, <3>3, <3>6, <4>1, <4>3
      <4> QED
        BY <3>4, <4>2, <4>3
    <3> QED
      BY <3>1, <3>5, <3>6 DEF Past
  <2> QED
    BY <1>2, <1>3, <2>2, <2>3, <2>4 DEF AtEnds
<1>10. CompleteMessageIsRead'
  BY <1>2 DEF CompleteMessageIsRead
<1> QED
  BY <1>6, <1>7, <1>8, <1>9, <1>10 DEF FramingInv

(* No step of the loops, whatever the chunks and the losses, leaves the    *)
(* invariant.                                                              *)
LEMMA FramingInvStable == FramingInv /\ [FramingNext]_framingVars => FramingInv'
<1> SUFFICES ASSUME FramingInv, [FramingNext]_framingVars PROVE FramingInv'
  OBVIOUS
<1>1. ASSUME NEW n \in 1..Cap, Store(n) PROVE FramingInv'
  BY <1>1, StoreInv
<1>2. ASSUME NEW n \in 1..Cap, Overflow(n) PROVE FramingInv'
  BY <1>2, OverflowInv
<1>3. ASSUME NEW m \in Messages, LoseDatagram(m) PROVE FramingInv'
  BY <1>3, LoseInv
<1>4. CASE TooShort
  BY <1>4, TooShortInv
<1>5. ASSUME NEW size \in HeaderLen..(Cap + 1), NotRead(size) PROVE FramingInv'
  BY <1>5, NotReadInv
<1>6. ASSUME NEW size \in HeaderLen..(Cap + 1), Read(size) PROVE FramingInv'
  BY <1>6, ReadInv
<1>7. CASE UNCHANGED framingVars
  <2>1. End' = End /\ UNCHANGED <<sizes, datagram, got, readBuf, phase, delivered,
                                  crashed, taken, intact>>
    BY <1>7, EndStays DEF framingVars
  <2> QED
    BY <2>1 DEF FramingInv, FramingTyped, Held, InOrder, AtEnds, CompleteMessageIsRead,
                Messages, Stuck
<1> QED
  BY <1>1, <1>2, <1>3, <1>4, <1>5, <1>6, <1>7 DEF FramingNext

LEMMA FramingInvariant == FramingSpec => []FramingInv
<1> QED
  BY FramingInitInv, FramingInvStable, PTL DEF FramingSpec

(* However the stream is cut into chunks and wherever the ring wraps, as   *)
(* long as nothing was lost and no length was read from a full ring: the   *)
(* messages come out in order, each once, and readBuf holds just the bytes *)
(* behind the last of them.                                                *)
THEOREM FramingStreamPreserved == FramingSpec => []StreamPreserved
<1>1. FramingInv => StreamPreserved
  <2> SUFFICES ASSUME FramingInv, intact PROVE StreamPreserved
    BY DEF StreamPreserved
  <2> DEFINE k == Len(delivered)
  <2>1. /\ StatusExact(readBuf) /\ ~crashed /\ k \in 0..NMsgs
        /\ \A i \in 1..k : delivered[i] = i
        /\ taken = End[k] /\ delivered \in Seq(0..NMsgs) /\ readBuf \in Ring
    BY DEF FramingInv, InOrder, FramingTyped
  <2>2. delivered = [i \in 1..Len(delivered) |-> i]
    BY <2>1
  <2>3. /\ ReadableLen(readBuf) = got - taken
        /\ \A j \in 1..(got - taken) : Content(readBuf)[j] = taken + j
    BY <2>1, JammedIsDead DEF FramingInv, Held, Stream
  <2>4. Content(readBuf) = [i \in 1..(got - taken) |-> taken + i]
    BY <2>3 DEF Content
  <2> QED
    BY <2>1, <2>2, <2>4 DEF StreamPreserved
<1> QED
  BY <1>1, FramingInvariant, PTL

(* With datagrams no loss, overflow or stuck ring makes the reader take    *)
(* something else for a message, or one message twice.                     *)
THEOREM FramingDatagramsStayAligned == FramingSpec => []DatagramsStayAligned
<1>1. FramingInv => DatagramsStayAligned
  <2> SUFFICES ASSUME FramingInv, datagram PROVE DatagramsStayAligned
    BY DEF DatagramsStayAligned
  <2>1. ~crashed /\ delivered \in Seq(0..NMsgs)
    BY DEF FramingInv, AtEnds, FramingTyped
  <2>2. PICK k \in 0..NMsgs : Past(delivered, k)
    BY DEF FramingInv, AtEnds
  <2>3. DOMAIN delivered = 1..Len(delivered)
    BY <2>1
  <2>4. \A i \in 1..Len(delivered) : delivered[i] # 0
    BY <2>2 DEF Past
  <2> QED
    BY <2>1, <2>2, <2>3, <2>4 DEF DatagramsStayAligned, Past
<1> QED
  BY <1>1, FramingInvariant, PTL

(* When the loop goes back to recv no message that arrived completely is   *)
(* left behind, but for one that filled the ring to its last byte.         *)
THEOREM FramingCompleteMessageIsRead == FramingSpec => []CompleteMessageIsRead
<1>1. FramingInv => CompleteMessageIsRead
  BY DEF FramingInv
<1> QED
  BY <1>1, FramingInvariant, PTL

=============================================================================
