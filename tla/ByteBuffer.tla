----------------------------- MODULE ByteBuffer -----------------------------
(***************************************************************************)
(* A byte buffer of src/src/jm_buffer.c in use.  The operations on several *)
(* bytes (bb_put_chars, bb_put_bytes, bb_put_u16 to bb_put_s64, the reads) *)
(* check the length once and then move byte after byte through bb_put_u8   *)
(* and _bb_get_u8: each byte is a step here, and the bytes of one          *)
(* operation are not mixed with those of another.                          *)
(***************************************************************************)
EXTENDS RingOps, Sequences

CONSTANTS MaxOp   \* bound: bytes moved by one operation

ASSUME MaxOpIsNat == MaxOp \in Nat

VARIABLES
  buf,      \* the ring
  op,       \* the operation under way: its kind and the bytes it has left
  rmark,    \* rpos and the status bits kept by bb_rmark, in a set: {} for -1
  markOpen, \* wpos is where it was at bb_rmark: what a caller must ensure
            \* before it calls bb_rmark_reset
  moved,    \* how the positions were last moved without the status bits
            \* since the ring was reset: not at all, past bytes only, or
            \* from or to the point where they meet
  dropped   \* an operation lost a byte: bb_put_u8 refused it in the loop,
            \* where its result is not looked at, or a read found none

vars == <<buf, op, rmark, markOpen, moved, dropped>>

NoOp == [kind |-> "none", left |-> 0]
Op == [kind : {"none", "put", "get"}, left : 0..MaxOp]
Mark == [rpos : Pos, empty : BOOLEAN, full : BOOLEAN]

Loop(kind, n) == IF n = 0 THEN NoOp ELSE [kind |-> kind, left |-> n]

(* The length check of an operation that writes or reads n bytes; when it  *)
(* fails the operation returns false and touches nothing.                  *)
BeginPut(n) ==
  /\ op = NoOp
  /\ CheckWrite(buf, n)
  /\ op' = Loop("put", n)
  /\ UNCHANGED <<buf, rmark, markOpen, moved, dropped>>

BeginGet(n) ==
  /\ op = NoOp
  /\ CheckRead(buf, n)
  /\ op' = Loop("get", n)
  /\ UNCHANGED <<buf, rmark, markOpen, moved, dropped>>

(* One turn of the loop of a write: bb_put_u8 makes its own check.         *)
PutByte(x) ==
  /\ op.kind = "put"
  /\ op' = Loop("put", op.left - 1)
  /\ IF CheckWrite(buf, 1)
     THEN /\ buf' = PutRaw(buf, x)
          /\ markOpen' = FALSE
          /\ UNCHANGED dropped
     ELSE /\ dropped' = TRUE
          /\ UNCHANGED <<buf, markOpen>>
  /\ UNCHANGED <<rmark, moved>>

(* One turn of the loop of a read: _bb_get_u8 makes no check.              *)
GetByte ==
  /\ op.kind = "get"
  /\ op' = Loop("get", op.left - 1)
  /\ buf' = GetRaw(buf)
  /\ dropped' = (dropped \/ ReadableLen(buf) = 0)
  /\ UNCHANGED <<rmark, markOpen, moved>>

(* bb_rmove_forward does not check: its callers stay in what is readable.  *)
Forward(n) ==
  /\ op = NoOp
  /\ n <= ReadableLen(buf)
  /\ buf' = MoveForward(buf, n)
  /\ UNCHANGED <<op, rmark, markOpen, moved, dropped>>

ResetBuf ==
  /\ op = NoOp
  /\ buf' = Reset(buf)
  /\ markOpen' = FALSE
  /\ moved' = "no"
  /\ UNCHANGED <<op, rmark, dropped>>

ClearBuf ==
  /\ op = NoOp
  /\ buf' = Reset(buf)
  /\ markOpen' = FALSE
  /\ moved' = "no"
  /\ rmark' = {}
  /\ UNCHANGED <<op, dropped>>

(* bb_set_rpos and bb_set_wpos move one position and leave the status bits *)
(* as they are, which is right as long as the positions meet neither       *)
(* before nor after.                                                       *)
Moved(old, p, other) ==
  IF p = old THEN moved
  ELSE IF other \in {old, p} THEN "across"
  ELSE IF moved = "no" THEN "within" ELSE moved

SetRposTo(p) ==
  /\ op = NoOp
  /\ buf' = SetRpos(buf, p)
  /\ moved' = Moved(buf.rpos, p, buf.wpos)
  /\ UNCHANGED <<op, rmark, markOpen, dropped>>

SetWposTo(p) ==
  /\ op = NoOp
  /\ buf' = [buf EXCEPT !.wpos = p]
  /\ moved' = Moved(buf.wpos, p, buf.rpos)
  /\ markOpen' = (markOpen /\ p = buf.wpos)
  /\ UNCHANGED <<op, rmark, dropped>>

RMark ==
  /\ op = NoOp
  /\ rmark' = {[rpos |-> buf.rpos, empty |-> buf.empty, full |-> buf.full]}
  /\ markOpen' = (moved = "no")
  /\ UNCHANGED <<buf, op, moved, dropped>>

(* bb_rmark_reset brings rpos and the bits back as they were, which the    *)
(* bytes written since have made untrue.                                   *)
RMarkReset ==
  /\ op = NoOp
  /\ \E m \in rmark :
       buf' = [buf EXCEPT !.rpos = m.rpos,
                          !.empty = m.empty, !.full = m.full]
  /\ rmark' = {}
  /\ markOpen' = FALSE
  /\ moved' = IF markOpen THEN "no" ELSE "across"
  /\ UNCHANGED <<op, dropped>>

Init ==
  /\ buf = NewRing
  /\ op = NoOp
  /\ rmark = {}
  /\ markOpen = FALSE
  /\ moved = "no"
  /\ dropped = FALSE

Next ==
  \/ \E n \in 1..MaxOp : BeginPut(n)
  \/ \E n \in 1..MaxOp : BeginGet(n)
  \/ \E x \in Byte : PutByte(x)
  \/ GetByte
  \/ \E n \in 1..MaxOp : Forward(n)
  \/ ResetBuf
  \/ ClearBuf
  \/ \E p \in Pos : SetRposTo(p)
  \/ \E p \in Pos : SetWposTo(p)
  \/ RMark
  \/ RMarkReset

Spec == Init /\ [][Next]_vars

-----------------------------------------------------------------------------
(* Properties                                                              *)

(* Every variable has its type; both positions stay inside the data.       *)
TypeOK ==
  /\ buf \in Ring
  /\ op \in Op
  /\ rmark \in SUBSET Mark
  /\ markOpen \in BOOLEAN
  /\ moved \in {"no", "within", "across"}
  /\ dropped \in BOOLEAN

(* No sequence of operations, with wrap-around, filling up, draining and   *)
(* rewinding, leaves the status bits contradicting the positions: a buffer *)
(* is never neither empty nor full, or both, when rpos = wpos.  Until the  *)
(* next reset the two operations that set a position, and a rewind to a    *)
(* mark that bytes were written behind, void that: but only when the       *)
(* position set was, or becomes, the other one.                            *)
StatusIsExact == moved # "across" => StatusExact(buf)

(* The length check made once covers the whole loop: no byte of a write is *)
(* refused after the check, where nobody looks, and no read runs past the  *)
(* bytes there are.                                                        *)
NoByteDropped == ~dropped

(* The ring is a bounded queue of bytes: what is read is what was written, *)
(* in order, and rewinding to a mark brings back what was read, or skipped *)
(* by setting rpos, since.  Setting a position discards the queue: what is *)
(* read then is what the ring happens to hold, until it is reset or        *)
(* rewound to such a mark.                                                 *)
Queue == IF moved = "no" THEN Content(buf) ELSE <<>>
MarkedContent ==
  IF markOpen
  THEN {Content([buf EXCEPT !.rpos = m.rpos, !.empty = m.empty,
                            !.full = m.full]) : m \in rmark}
  ELSE {}
Fifo == INSTANCE ByteFifo WITH queue <- Queue, marked <- MarkedContent
IsFifo == Fifo!Spec
=============================================================================
