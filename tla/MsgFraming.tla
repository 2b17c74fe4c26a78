----------------------------- MODULE MsgFraming -----------------------------
(***************************************************************************)
(* From the socket to client_onMessage: the receive loops                  *)
(* client_recv_one_loop (testcase/jm_client_winsocket.c, a TCP stream) and *)
(* udp_client_recv_one_loop (testcase/test_udp.c, datagrams) put what they *)
(* receive into readBuf and take messages out with msg_readMessage         *)
(* (jm_msg.c) until it returns NULL.                                       *)
(*                                                                         *)
(* The peer sends messages 1, 2, ...; a byte is its place in the stream,   *)
(* so that the model knows what every byte of the ring belongs to.  The    *)
(* first LenLen of the HeaderLen bytes of a header (2 of flag, 2 of        *)
(* length, of 13) tell the length.  The variant with a 4-byte length has   *)
(* the same steps; no message that needs it fits in readBuf.               *)
(***************************************************************************)
EXTENDS RingOps, Sequences

CONSTANTS
  NMsgs,      \* bound: messages the peer sends
  Sizes,      \* the sizes, header included, that a message may have
  HeaderLen,  \* HEADER_LEN
  LenLen      \* the bytes of the header read to learn the length

ASSUME HeaderHoldsLength == HeaderLen \in Nat /\ LenLen \in 1..(HeaderLen - 1)
ASSUME MessagesFitRing == Sizes \subseteq HeaderLen..Cap
ASSUME BytesArePlaces == NMsgs \in Nat /\ Zero = 0 /\ Byte = 0..(NMsgs * Cap)

VARIABLES
  sizes,      \* the size of each message
  datagram,   \* the peer is reached by UDP: a chunk is whole messages
  got,        \* the bytes that have been received
  readBuf,    \* the receive buffer
  phase,      \* in recv, or in the loop that reads messages
  delivered,  \* the messages given to client_onMessage; 0: not a message
  crashed,    \* msg_readMessage used the NULL that msg_decode returned
  (* Kept for the properties.                                              *)
  taken,      \* the bytes no longer in readBuf: read out or cleared away
  intact      \* nothing was cleared or lost, and no header was read while
              \* the ring was full

framingVars ==
  <<sizes, datagram, got, readBuf, phase, delivered, crashed, taken, intact>>

(* The stream: message m ends at byte End[m].                              *)
End[m \in 0..NMsgs] == IF m = 0 THEN 0 ELSE End[m - 1] + sizes[m]
Messages == 1..NMsgs
FirstByte(m) == End[m - 1] + 1

(* The loops of bb_put_chars, and of bb_get_buf and the other reads.       *)
PutFrom(b, first, n) ==
  LET p[i \in 0..n] == IF i = 0 THEN b ELSE PutRaw(p[i - 1], first + i - 1)
  IN p[n]
GetMany(b, n) ==
  LET g[i \in 0..n] == IF i = 0 THEN b ELSE GetRaw(g[i - 1])
  IN g[n]

-----------------------------------------------------------------------------
(* recv brings n bytes, at most as many as readBuf can hold in all.        *)
Chunk(n) ==
  /\ got + n <= End[NMsgs]
  /\ datagram => \E m \in Messages : got + n = End[m]

Store(n) ==
  /\ phase = "recv"
  /\ ~crashed
  /\ Chunk(n)
  /\ CheckWrite(readBuf, n)
  /\ readBuf' = PutFrom(readBuf, got + 1, n)
  /\ got' = got + n
  /\ phase' = "read"
  /\ UNCHANGED <<sizes, datagram, delivered, crashed, taken, intact>>

(* bb_put_chars refuses: readBuf is cleared and the chunk is gone too.     *)
OverflowKeeps(n) ==                    \* deviation: bb_clear is left out
  /\ phase = "recv"
  /\ ~crashed
  /\ Chunk(n)
  /\ ~CheckWrite(readBuf, n)
  /\ got' = got + n
  /\ intact' = FALSE
  /\ UNCHANGED <<sizes, datagram, readBuf, phase, delivered, crashed, taken>>

OverflowTail(n) ==                     \* deviation: what fits is stored
  /\ phase = "recv"
  /\ ~crashed
  /\ Chunk(n)
  /\ ~CheckWrite(readBuf, n)
  /\ readBuf' = PutFrom(Reset(readBuf), got + 2, n - 1)
  /\ got' = got + n
  /\ taken' = got + 1
  /\ phase' = "read"
  /\ intact' = FALSE
  /\ UNCHANGED <<sizes, datagram, delivered, crashed>>

Overflow(n) ==
  /\ phase = "recv"
  /\ ~crashed
  /\ Chunk(n)
  /\ ~CheckWrite(readBuf, n)
  /\ readBuf' = Reset(readBuf)
  /\ got' = got + n
  /\ taken' = got + n
  /\ intact' = FALSE
  /\ UNCHANGED <<sizes, datagram, phase, delivered, crashed>>

(* The network loses the next datagram.                                    *)
LoseDatagram(m) ==
  /\ phase = "recv"
  /\ ~crashed
  /\ datagram
  /\ got = End[m - 1]
  /\ taken = got
  /\ got' = End[m]
  /\ taken' = End[m]
  /\ intact' = FALSE
  /\ UNCHANGED <<sizes, datagram, readBuf, phase, delivered, crashed>>

-----------------------------------------------------------------------------
(* msg_readMessage                                                         *)

TooShortEqual ==                       \* deviation: a bare header is too short
  /\ phase = "read"
  /\ ReadableLen(readBuf) <= HeaderLen
  /\ phase' = "recv"
  /\ UNCHANGED <<sizes, datagram, got, readBuf, delivered, crashed, taken, intact>>
TooShort ==
  /\ phase = "read"
  /\ ReadableLen(readBuf) < HeaderLen
  /\ phase' = "recv"
  /\ UNCHANGED <<sizes, datagram, got, readBuf, delivered, crashed, taken, intact>>

(* The length is read, then rpos is put back where it was.                 *)
LengthRead == SetRpos(GetMany(readBuf, LenLen), readBuf.rpos)

(* What the length field says: at the start of a message its size, else    *)
(* whatever the bytes there make.                                          *)
FrameSizes ==
  IF \E m \in Messages : ByteAt(readBuf) = FirstByte(m)
  THEN {sizes[m] : m \in {k \in Messages : ByteAt(readBuf) = FirstByte(k)}}
  ELSE HeaderLen..(Cap + 1)

Peeked(size) ==
  /\ phase = "read"
  /\ ReadableLen(readBuf) >= HeaderLen
  /\ size \in FrameSizes

(* Not all of the message is there, or bb_get_buf refuses: NULL is         *)
(* returned and the loop goes back to recv.                                *)
NotRead(size) ==
  /\ Peeked(size)
  /\ \/ ReadableLen(readBuf) < size
     \/ ~CheckRead(LengthRead, size)
  /\ readBuf' = LengthRead
  /\ phase' = "recv"
  /\ intact' = (intact /\ ~IsFull(readBuf))
  /\ UNCHANGED <<sizes, datagram, got, delivered, crashed, taken>>

(* The frame's bytes are copied out.  When they are a message it is        *)
(* delivered; when they are not, msg_decode returns NULL or something that *)
(* passes for a message.                                                   *)
Whole(m) ==
  /\ ByteAt(readBuf) = FirstByte(m)
  /\ SubSeq(Content(readBuf), 1, sizes[m]) = [i \in 1..sizes[m] |-> End[m - 1] + i]

Read(size) ==
  /\ Peeked(size)
  /\ ReadableLen(readBuf) >= size
  /\ CheckRead(LengthRead, size)
  /\ readBuf' = GetMany(LengthRead, size)
  /\ taken' = taken + size
  /\ \/ \E m \in Messages : Whole(m) /\ delivered' = Append(delivered, m)
        /\ UNCHANGED crashed
     \/ /\ \A m \in Messages : ~Whole(m)
        /\ \/ delivered' = Append(delivered, 0) /\ UNCHANGED crashed
           \/ crashed' = TRUE /\ UNCHANGED delivered
  /\ phase' = IF crashed' THEN "recv" ELSE phase
  /\ UNCHANGED <<sizes, datagram, got, intact>>

-----------------------------------------------------------------------------
FramingInit ==
  /\ sizes \in [Messages -> Sizes]
  /\ datagram \in BOOLEAN
  /\ got = 0
  /\ readBuf = NewRing
  /\ phase = "recv"
  /\ delivered = <<>>
  /\ crashed = FALSE
  /\ taken = 0
  /\ intact = TRUE

FramingNext ==
  \/ \E n \in 1..Cap : Store(n)
  \/ \E n \in 1..Cap : Overflow(n)
  \/ \E m \in Messages : LoseDatagram(m)
  \/ TooShort
  \/ \E size \in HeaderLen..(Cap + 1) : NotRead(size)
  \/ \E size \in HeaderLen..(Cap + 1) : Read(size)

Receive == \E n \in 1..Cap : Store(n) \/ Overflow(n)
ReadLoop ==
  \/ TooShort
  \/ \E size \in HeaderLen..(Cap + 1) : NotRead(size) \/ Read(size)

(* While there are bytes to come the loop receives them, and it never      *)
(* stops between two messages.                                             *)
FramingSpec ==
  /\ FramingInit /\ [][FramingNext]_framingVars
  /\ WF_framingVars(Receive) /\ WF_framingVars(ReadLoop)

-----------------------------------------------------------------------------
(* Properties                                                              *)

(* However the stream is cut into chunks, and wherever the ring wraps, as  *)
(* long as nothing was lost and no header was read from a full ring: the   *)
(* messages come out in order, each once, and readBuf holds exactly the    *)
(* bytes that follow the last of them.                                     *)
StreamPreserved ==
  intact =>
    /\ ~crashed
    /\ delivered = [i \in 1..Len(delivered) |-> i]
    /\ LET from == End[Len(delivered)]
       IN Content(readBuf) = [i \in 1..(got - from) |-> from + i]

(* With datagrams no loss, overflow or stuck ring ever makes the reader    *)
(* take something else for a message, or one message twice.                *)
DatagramsStayAligned ==
  datagram =>
    /\ ~crashed
    /\ \A i \in DOMAIN delivered : delivered[i] # 0
    /\ \A i, j \in DOMAIN delivered : i < j => delivered[i] < delivered[j]

(* Reading the length from a full ring leaves it neither full nor empty    *)
(* with rpos = wpos: nothing can be read or written.  The next chunk gets  *)
(* the reader out of it.                                                   *)
Stuck == ~StatusExact(readBuf)
StuckRingRecovers ==
  (Stuck /\ got < End[NMsgs]) ~> (~Stuck \/ crashed)

(* When the loop goes back to recv no message that arrived completely is   *)
(* left behind (testcase/test_jm_client.c:80), but for one that filled the *)
(* ring to its last byte.                                                  *)
CompleteMessageIsRead ==
  phase = "recv" /\ ~crashed /\ ~Stuck =>
    \A m \in Messages : taken = End[m - 1] => got < End[m]
=============================================================================
