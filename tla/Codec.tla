-------------------------------- MODULE Codec --------------------------------
(***************************************************************************)
(* The two encodings of typed values: extra_encode/extra_decode of         *)
(* src/src/jm_msg.c (header data of messages, contexts and data of items)  *)
(* and client_encodeExtra/client_decodeExtra of src/src/jm_client.c (RPC   *)
(* parameters and results).  Bytes are 0..255, big-endian as               *)
(* NET_DATA_BIG_END is by default.  A buffer that is written once and read *)
(* once is a sequence of bytes: RingOps and ByteBuffer are about the ring. *)
(* Lengths from 32767 on, for which a prefix of seven bytes exists, fit no *)
(* buffer of the program and are left out.                                 *)
(*                                                                         *)
(* A msg_extra_data_t is [key, type, val], a linked list of them a         *)
(* sequence; <<>> is the NULL list.  val is an integer, the bytes of a     *)
(* string or byte buffer, or the list in a container, or Null.             *)
(*                                                                         *)
(* Where the code calls itself for what is inside a container, a function  *)
(* of the depth is defined: inner is what the call one deeper does.        *)
(***************************************************************************)
EXTENDS Integers, Sequences

CONSTANTS
  Null,    \* a NULL pointer
  Depth    \* how deep there are lists inside the elements of a list, at most

ASSUME DepthIsNat == Depth \in Nat

Between(low, high) == {n \in Int : low <= n /\ n <= high}
Byte == Between(0, 255)
Name == Seq(Byte)

ASSUME NullIsNothing ==
  Null \notin Int /\ Null \notin Name

PREFIX_TYPE_NULL == 128
PREFIX_TYPE_LIST == 132
PREFIX_TYPE_SET == 133
PREFIX_TYPE_MAP == 134
PREFIX_TYPE_BYTE == 135
PREFIX_TYPE_SHORTT == 136
PREFIX_TYPE_INT == 137
PREFIX_TYPE_LONG == 138
PREFIX_TYPE_FLOAT == 139
PREFIX_TYPE_DOUBLE == 140
PREFIX_TYPE_CHAR == 141
PREFIX_TYPE_BOOLEAN == 142
PREFIX_TYPE_STRINGG == 143
PREFIX_TYPE_BYTEBUFFER == 145
PREFIX_TYPE_PROXY == 148

Scalars == {PREFIX_TYPE_BYTE, PREFIX_TYPE_SHORTT, PREFIX_TYPE_INT,
            PREFIX_TYPE_LONG, PREFIX_TYPE_CHAR, PREFIX_TYPE_BOOLEAN}
Keyed == {PREFIX_TYPE_MAP, PREFIX_TYPE_PROXY}
Unkeyed == {PREFIX_TYPE_LIST, PREFIX_TYPE_SET}

WidthNoShort(type) ==          \* deviation: no case for shorts
  CASE type = PREFIX_TYPE_INT -> 4 [] type = PREFIX_TYPE_LONG -> 8 [] OTHER -> 1
Width(type) ==
  CASE type = PREFIX_TYPE_SHORTT -> 2
    [] type = PREFIX_TYPE_INT -> 4
    [] type = PREFIX_TYPE_LONG -> 8
    [] OTHER -> 1

Extra(key, type, val) == [key |-> key, type |-> type, val |-> val]

Int8(n) == ((n + 128) % 256) - 128

SmallInt == Between(-128, 127)
ShortInt == Between(-32768, 32767)
Int32 == Between(-2147483647 - 1, 2147483647)     \* a long is one, too

(* What may be encoded under a key of K: in a container are elements of S, *)
(* and those of a map have names.                                          *)
Named(S) == {e \in S : e.key # Null}
ExtraIn(K, S) ==
  [key : K, val : SmallInt,
   type : {PREFIX_TYPE_BYTE, PREFIX_TYPE_CHAR, PREFIX_TYPE_BOOLEAN}]
  \cup [key : K, type : {PREFIX_TYPE_SHORTT}, val : ShortInt]
  \cup [key : K, type : {PREFIX_TYPE_INT, PREFIX_TYPE_LONG}, val : Int32]
  \cup [key : K, val : Name \cup {Null},
        type : {PREFIX_TYPE_STRINGG, PREFIX_TYPE_BYTEBUFFER}]
  \cup [key : K, val : {Null},
        type : {PREFIX_TYPE_NULL, PREFIX_TYPE_FLOAT, PREFIX_TYPE_DOUBLE}]
  \cup [key : K, type : Unkeyed, val : Seq(S)]
  \cup [key : K, type : Keyed, val : Seq(Named(S))]

Tree[d \in 0..Depth] ==
  IF d = 0 THEN {} ELSE ExtraIn(Name \cup {Null}, Tree[d - 1])

-----------------------------------------------------------------------------
(* Writing.  ok is FALSE once a writer has returned false; lost says that  *)
(* a put was refused whose result nobody looked at.                        *)

Writing(bytes, cap, ok, lost) ==
  [bytes |-> bytes, cap |-> cap, ok |-> ok, lost |-> lost]
Writer(cap) == Writing(<<>>, cap, TRUE, FALSE)
Refused(w) == Writing(w.bytes, w.cap, FALSE, w.lost)

Room(w, n) == Len(w.bytes) < w.cap /\ Len(w.bytes) + n <= w.cap

Put(w, s) ==
  IF ~w.ok THEN w
  ELSE IF Room(w, Len(s)) THEN Writing(w.bytes \o s, w.cap, TRUE, w.lost)
  ELSE Refused(w)

PutUnchecked(w, s) ==
  IF w.ok /\ ~Room(w, Len(s)) THEN Writing(w.bytes, w.cap, TRUE, TRUE)
  ELSE Put(w, s)

WriterState ==
  [bytes : Seq(Byte), cap : Nat, ok : BOOLEAN, lost : BOOLEAN]

ShiftRight(v, bytes) ==
  CASE bytes = 0 -> v
    [] bytes = 1 -> v \div 256
    [] bytes = 2 -> v \div 65536
    [] bytes = 3 -> v \div 16777216
    [] OTHER -> IF v < 0 THEN -1 ELSE 0
BigEnd(n, v) == [i \in 1..n |-> ShiftRight(v, n - i) % 256]

(* bb_writeString: keys of maps, strings of items.                         *)
WriteString(w, s) ==
  IF s = Null THEN Put(w, <<0>>)
  ELSE IF Len(s) < 127 THEN Put(Put(w, <<Len(s)>>), s)
  ELSE Put(Put(Put(w, <<127>>), BigEnd(2, Len(s))), s)

(* A string as a value: its length is taken into a sint8_t first.          *)
PutString(w, s) ==
  LET len == Int8(Len(s))
      p == IF len < 127 THEN PutUnchecked(w, <<len % 256>>)
           ELSE PutUnchecked(PutUnchecked(w, <<127>>), BigEnd(2, len))
  IN IF len > 0 THEN Put(p, SubSeq(s, 1, len)) ELSE p

(* A value that is no container; of FLOAT and DOUBLE only the type is      *)
(* written, and an empty byte buffer is refused after its length.          *)
PutPlain(w, e) ==
  CASE e.type \in Scalars -> Put(w, BigEnd(Width(e.type), e.val))
    [] e.type = PREFIX_TYPE_STRINGG -> PutString(w, e.val)
    [] e.type = PREFIX_TYPE_BYTEBUFFER ->
         IF e.val = <<>> THEN Refused(PutUnchecked(w, <<0, 0>>))
         ELSE Put(Put(w, BigEnd(2, Len(e.val))), e.val)
    [] OTHER -> w

NullPlain(e) ==
  e.type \in {PREFIX_TYPE_STRINGG, PREFIX_TYPE_BYTEBUFFER} /\ e.val = Null

(* The call one deeper, for what is inside.                                *)
Called(inner, w, x) == inner[<<w, x>>]

(* extra_encode: the number of elements, the kind of keys, the elements.   *)
PutKeyAndType(w, e, strKey) ==
  Put(IF strKey THEN WriteString(w, e.key) ELSE Put(w, BigEnd(1, e.key)),
      <<IF NullPlain(e) THEN PREFIX_TYPE_NULL ELSE e.type>>)
PutElement(w, e, strKey, inner) ==
  LET t == PutKeyAndType(w, e, strKey)
  IN IF ~t.ok \/ NullPlain(e) THEN t
     ELSE IF e.type = PREFIX_TYPE_MAP THEN Called(inner, t, e.val)
     ELSE PutPlain(t, e)
PutElements(w, list, strKey, inner) ==
  LET v[i \in 0..Len(list)] ==
        IF i = 0 THEN w ELSE PutElement(v[i - 1], list[i], strKey, inner)
  IN v[Len(list)]
PutList(w, list, strKey, inner) ==
  IF list = <<>> THEN Refused(w)
  ELSE PutElements(Put(PutUnchecked(w, <<Len(list) % 256>>),
                       <<IF strKey THEN 1 ELSE 0>>),
                   list, strKey, inner)
PutMap[d \in 0..Depth] ==
  [x \in WriterState \X Seq(Named(Tree[d])) |->
     PutList(x[1], x[2], TRUE, IF d = 0 THEN <<>> ELSE PutMap[d - 1])]
EncodeExtras(w, list, strKey) == PutList(w, list, strKey, PutMap[Depth])

(* What extra_encode reports as written into a fresh buffer: wpos has gone *)
(* round when the buffer is full.                                          *)
WrittenLen(w) == Len(w.bytes) % w.cap

(* client_encodeExtra: a count that cannot be written is taken for 0.      *)
KeyPut(w, e, k) == IF e.type \in Keyed THEN WriteString(w, e.val[k].key) ELSE w
PutItems(w, e, inner) ==
  LET v[i \in 0..Len(e.val)] ==
        IF i = 0 THEN w
        ELSE Called(inner, KeyPut(v[i - 1], e, i), e.val[i])
  IN v[Len(e.val)]
PutContainer(w, e, inner) ==
  LET v == PutUnchecked(Put(w, <<e.type>>), BigEnd(2, Len(e.val)))
  IN IF v.ok /\ ~v.lost THEN PutItems(v, e, inner) ELSE v
NullList(e) == e.type \in Unkeyed \cup {PREFIX_TYPE_MAP} /\ e.val = <<>>
PutParam(w, e, inner) ==
  IF NullPlain(e) \/ NullList(e) THEN Put(w, <<PREFIX_TYPE_NULL>>)
  ELSE IF e.type \in Keyed \cup Unkeyed THEN PutContainer(w, e, inner)
  ELSE PutPlain(Put(w, <<e.type>>), e)
PutInner[d \in 0..Depth] ==
  [x \in WriterState \X Tree[d] |->
     PutParam(x[1], x[2], IF d = 0 THEN <<>> ELSE PutInner[d - 1])]
EncodeExtra(w, e) == PutParam(w, e, PutInner[Depth])

-----------------------------------------------------------------------------
(* Reading.  val is what the last read brought; past says that a byte was  *)
(* taken where none was left, or that, for want of the byte with the type, *)
(* a pointer was freed that had no value yet (goto error over rst).        *)

Reading(bytes, ok, past, val) ==
  [bytes |-> bytes, ok |-> ok, past |-> past, val |-> val]
Reader(s) == Reading(s, TRUE, FALSE, Null)

Failed(r) == Reading(r.bytes, FALSE, r.past, r.val)
WithVal(r, val) == Reading(r.bytes, r.ok, r.past, val)
IfFailed(r, val) == IF r.ok THEN r ELSE WithVal(r, val)
(* t was read from r by a caller that does not ask whether it could be.    *)
Unasked(r, t) ==
  IF r.ok /\ ~t.ok THEN Reading(t.bytes, t.ok, TRUE, t.val) ELSE t

Take(r, n) ==
  IF r.ok /\ r.bytes # <<>> /\ n \in 0..Len(r.bytes)
  THEN Reading(SubSeq(r.bytes, n + 1, Len(r.bytes)), TRUE, r.past,
               SubSeq(r.bytes, 1, n))
  ELSE Failed(r)

Unsigned(s) == s[1] * 256 + s[2]
Signed(s) ==
  LET v[i \in 0..Len(s)] ==
        IF i = 0 THEN IF s[1] > 127 THEN -1 ELSE 0 ELSE v[i - 1] * 256 + s[i]
  IN v[Len(s)]
TakeInt(r, n) ==
  LET t == Take(r, n) IN IF t.ok THEN WithVal(t, Signed(t.val)) ELSE t
TakeLen(r) ==
  LET t == Take(r, 2) IN IF t.ok THEN WithVal(t, Unsigned(t.val)) ELSE t

(* bb_readString looks for no byte before it takes the first, and does not *)
(* ask whether the second length was there.                                *)
ReadStringNoMark(r) ==         \* deviation: the second length is not read
  LET n == Unasked(r, Take(r, 1))
  IN IF ~n.ok THEN n
     ELSE IF n.val[1] = 0 THEN WithVal(n, <<>>)
     ELSE Take(n, n.val[1])
ReadString(r) ==
  LET n == Unasked(r, Take(r, 1))
      long == Unasked(n, TakeLen(n))
  IN IF ~n.ok THEN n
     ELSE CASE n.val[1] = 0 -> WithVal(n, <<>>)
            [] n.val[1] = 127 -> IF long.ok THEN Take(long, long.val) ELSE long
            [] OTHER -> Take(n, n.val[1])

(* A string as a value: for a negative length other than -1 there is not   *)
(* enough memory or there are not enough bytes.                            *)
TakeString(r) ==
  LET n == TakeInt(r, 1)
      long == TakeInt(n, 2)
  IN IF ~n.ok THEN n
     ELSE CASE n.val = -1 -> WithVal(n, Null)
            [] n.val = 0 -> WithVal(n, <<>>)
            [] n.val = 127 -> IF long.ok THEN Take(long, long.val) ELSE long
            [] OTHER -> Take(n, n.val)

TakeBlock(r) ==
  LET n == TakeInt(r, 2)
  IN IF ~n.ok THEN n
     ELSE IF n.val = 0 THEN WithVal(n, Null)
     ELSE Take(n, n.val)

TakePlain(r, type) ==
  CASE type \in Scalars -> TakeInt(r, Width(type))
    [] type = PREFIX_TYPE_STRINGG -> TakeString(r)
    [] type = PREFIX_TYPE_BYTEBUFFER -> TakeBlock(r)
    [] OTHER -> WithVal(r, Null)

(* inner gives the reader that a call leaves, for the bytes it begins at.  *)
TakeInner(r, inner) ==
  LET t == inner[r.bytes]
  IN Reading(t.bytes, t.ok, t.past \/ r.past, t.val)

(* Whether the read failed is not asked.                                   *)
Unharmed(r) == Reading(r.bytes, TRUE, r.past, r.val)

(* An element that cannot be read is left out, and what comes next is      *)
(* taken for the next element; list is what was there before.              *)
Joined(list, e, new) ==
  Reading(e.bytes, TRUE, e.past, IF e.ok THEN new ELSE list)

(* The extra that v brought the value of.                                  *)
WithExtra(v, key, type) ==
  IF ~v.ok THEN v ELSE WithVal(v, Extra(key, type, v.val))

(* extra_decode: the list comes out in the reverse order.                  *)
TakeExtraVal(t, type, inner) ==
  IF type = PREFIX_TYPE_MAP THEN Unharmed(TakeInner(t, inner))
  ELSE TakePlain(t, type)
TakeExtra(k, inner) ==
  LET t == Unasked(k, Take(k, 1))
  IN IF ~t.ok THEN t
     ELSE WithExtra(TakeExtraVal(t, t.val[1], inner), k.val, t.val[1])
AtFront(list, e) == Joined(list, e, <<e.val>> \o list)
TakeElement(r, strKey, inner) ==
  LET k == IF strKey THEN ReadString(r) ELSE TakeInt(r, 1)
  IN IF k.ok THEN AtFront(r.val, TakeExtra(k, inner)) ELSE k
TakeElements(r, count, strKey, inner) ==
  LET a[i \in 0..count] ==
        IF i = 0 THEN WithVal(r, <<>>)
        ELSE LET before == a[i - 1]
             IN IF before.ok THEN TakeElement(before, strKey, inner) ELSE before
  IN a[count]
TakeList(r, inner) ==
  LET n == Take(r, 1)
      kind == Take(n, 1)
  IN IfFailed(IF ~n.ok THEN n
              ELSE IF n.val[1] = 0 THEN Failed(n)
              ELSE IF ~kind.ok THEN kind
              ELSE TakeElements(kind, n.val[1], kind.val[1] = 1, inner),
              <<>>)
(* With each call inside another there is a byte less.                     *)
DecodeExtras(r) ==
  LET call[n \in 0..Len(r.bytes)] ==
        [s \in Seq(Byte) |->
           TakeList(Reader(s), IF n = 0 THEN <<>> ELSE call[n - 1])]
  IN TakeInner(r, call[Len(r.bytes)])

Under(key, e) == Extra(key, e.type, e.val)

(* client_decodeExtra: elements keep their order; an unknown type fails,   *)
(* and so does a string of length -1, which is 65535 to its uint16_t.      *)
AtEnd(list, e, key) == Joined(list, e, Append(list, Under(key, e.val)))
TakeItem(r, keyed, inner) ==
  LET k == IF keyed THEN ReadString(r) ELSE WithVal(r, Null)
  IN IF k.ok THEN AtEnd(r.val, TakeInner(k, inner), k.val) ELSE k
TakeItems(r, count, keyed, inner) ==
  LET a[i \in 0..count] ==
        IF i = 0 THEN WithVal(r, <<>>)
        ELSE LET before == a[i - 1]
             IN IF before.ok THEN TakeItem(before, keyed, inner) ELSE before
  IN a[count]
TakeParamVal(t, type, inner) ==
  CASE type \in Keyed \cup Unkeyed ->
         LET n == TakeLen(t)
         IN IF n.ok THEN TakeItems(n, n.val, type \in Keyed, inner) ELSE n
    [] type = PREFIX_TYPE_STRINGG ->
         LET v == TakeString(t)
         IN IF v.ok /\ v.val = Null THEN Failed(v) ELSE v
    [] type \in Scalars \cup {PREFIX_TYPE_NULL, PREFIX_TYPE_FLOAT,
                  PREFIX_TYPE_DOUBLE, PREFIX_TYPE_BYTEBUFFER} ->
         TakePlain(t, type)
    [] OTHER -> Failed(t)
TakeParam(r, inner) ==
  LET t == Unasked(r, Take(r, 1))
  IN IF ~t.ok THEN t
     ELSE WithExtra(TakeParamVal(t, t.val[1], inner), Null, t.val[1])
DecodeExtra(r) ==
  LET call[n \in 0..Len(r.bytes)] ==
        [s \in Seq(Byte) |->
           TakeParam(Reader(s), IF n = 0 THEN <<>> ELSE call[n - 1])]
  IN TakeInner(r, call[Len(r.bytes)])
=============================================================================
