------------------------------ MODULE RingOps ------------------------------
(***************************************************************************)
(* One byte_buffer_t of src/src/jm_buffer.c as a record, and what each of  *)
(* its primitives makes of it.  The two bits of status tell an empty ring  *)
(* from a full one when rpos = wpos.  Wrap buffers (bb_buffer_wrap) are    *)
(* left out: nothing in the repository makes one.                          *)
(***************************************************************************)
EXTENDS Integers

CONSTANTS
  Cap,     \* capacity
  Byte,    \* the values a byte can take
  Zero     \* the byte os_zalloc fills the data with

ASSUME CapPositive == Cap \in Nat \ {0}
ASSUME ZeroIsByte == Zero \in Byte

Pos == 0..(Cap - 1)
Ring == [data : [Pos -> Byte], rpos : Pos, wpos : Pos,
         empty : BOOLEAN, full : BOOLEAN]

NewRing == [data |-> [i \in Pos |-> Zero], rpos |-> 0, wpos |-> 0,
            empty |-> TRUE, full |-> FALSE]

(* bb_reset, and bb_clear: the data stays.                                 *)
ResetKeepsStatus(b) == [b EXCEPT !.rpos = 0, !.wpos = 0]   \* deviation
Reset(b) ==
  [b EXCEPT !.rpos = 0, !.wpos = 0, !.empty = TRUE, !.full = FALSE]

Advance(p, n) == (p + n) % Cap

IsFull(b) == b.rpos = b.wpos /\ b.full
IsEmpty(b) == b.rpos = b.wpos /\ b.empty

ReadableLen(b) ==
  IF b.wpos = b.rpos THEN IF IsFull(b) THEN Cap ELSE 0
  ELSE IF b.wpos > b.rpos THEN b.wpos - b.rpos
  ELSE Cap - (b.rpos - b.wpos)

WriteableLen(b) ==
  IF b.wpos = b.rpos THEN IF IsEmpty(b) THEN Cap ELSE 0
  ELSE IF b.wpos > b.rpos THEN Cap - (b.wpos - b.rpos)
  ELSE b.rpos - b.wpos

(* bb_check_read_len refuses an empty ring whatever the length, and        *)
(* bb_check_write_len a full one.                                          *)
CheckRead(b, n) == ~IsEmpty(b) /\ ReadableLen(b) >= n
CheckWrite(b, n) == ~IsFull(b) /\ WriteableLen(b) >= n

(* _bb_get_u8: the byte at rpos, and the ring it leaves.                   *)
ByteAt(b) == b.data[b.rpos]
GetRaw(b) ==
  LET r == Advance(b.rpos, 1)
  IN [b EXCEPT !.rpos = r,
               !.full = b.full /\ ~IsFull(b),
               !.empty = b.empty \/ r = b.wpos]

(* bb_put_u8 and bb_put_s8 once their check has passed.                    *)
PutRawKeepsEmpty(b, x) ==                  \* deviation: EMPTY not cleared
  LET w == Advance(b.wpos, 1)
  IN [b EXCEPT !.data[b.wpos] = x, !.wpos = w,
               !.full = b.full \/ w = b.rpos]
PutRaw(b, x) ==
  LET w == Advance(b.wpos, 1)
  IN [b EXCEPT !.data[b.wpos] = x,
               !.wpos = w,
               !.empty = b.empty /\ ~IsEmpty(b),
               !.full = b.full \/ w = b.rpos]

(* bb_set_rpos moves rpos and nothing else.                                *)
SetRposIgnored(b, p) == b                 \* deviation: not restored
SetRpos(b, p) == [b EXCEPT !.rpos = p]

(* bb_rmove_forward: n bytes are skipped unread.                           *)
MoveForward(b, n) ==
  LET r == Advance(b.rpos, n)
  IN [b EXCEPT !.rpos = r,
               !.full = b.full /\ ~IsFull(b),
               !.empty = b.empty \/ r = b.wpos]

(* The status bits say what they should: one of them when rpos = wpos,     *)
(* none otherwise.                                                         *)
StatusExact(b) ==
  IF b.rpos = b.wpos THEN b.empty <=> ~b.full ELSE ~b.empty /\ ~b.full

(* The bytes waiting to be read, oldest first.                             *)
Content(b) ==
  [i \in 1..ReadableLen(b) |-> b.data[Advance(b.rpos, i - 1)]]
=============================================================================
