------------------------------- MODULE Message -------------------------------
(***************************************************************************)
(* The way of one message from the program that asks for it to the program *)
(* it is for: client_invokeRpc and client_publishPubsubItem make the       *)
(* payload, client_sendMessage and msg_encode the bytes, msg_decode takes  *)
(* them apart, the UDP receive loop notes whom to answer, and the payload  *)
(* is parsed.  The receiver is another device or the test that decodes     *)
(* what it has encoded: both run this code.                                *)
(***************************************************************************)
EXTENDS Codec

CONSTANTS
  Params,     \* sequence of the RPC parameter lists a program may pass
  Items,      \* sequence of the items a program may publish
  Headers,    \* sequence of the extras it may publish an item with
  LoginKeys,  \* values of loginKey, Null among them
  Sources     \* senders the UDP loop sees: records [host, port]

CONSTANTS ParamCap, ItemCap, ExtraCap, SendCap   \* sizes of the buffers

(* The buffers of the code have 128, 256, 512 and 1024 bytes.  A message   *)
(* finds room for its header, its extras and its payload, and a buffer has *)
(* room for fewer than 256 extras, of two bytes each and two in front.     *)
HeaderLen == 13

ASSUME CapsFit ==
  /\ {ParamCap, ItemCap, ExtraCap, SendCap} \subseteq Nat
  /\ 0 < ParamCap /\ ParamCap <= ItemCap
  /\ 6 <= ItemCap /\ ItemCap <= ExtraCap
  /\ ExtraCap <= 513
  /\ HeaderLen + ExtraCap + ItemCap <= SendCap /\ SendCap < 32768

VARIABLES
  stage,    \* how far the message has come
  asked,    \* what the program passed: an index of Params or of Items
  payload,  \* the writer the payload was made with
  msg,      \* the message that is sent
  wire,     \* the writers of its extras and of the whole message
  got,      \* the message as it is received, and from whom
  value     \* the reader that the payload was parsed with

vars == <<stage, asked, payload, msg, wire, got, value>>

EXTRA_KEY_SM_CODE == -124
EXTRA_KEY_LOGIN_KEY == -119
EXTRA_KEY_FLAG == -118
EXTRA_KEY_UDP_PORT == -111
EXTRA_KEY_UDP_HOST == -110
EXTRA_KEY_UDP_ACK == -109
EXTRA_SKEY_UDP_PORT == <<45, 49, 49, 49>>      \* "-111"
EXTRA_SKEY_UDP_HOST == <<45, 49, 49, 48>>
EXTRA_SKEY_UDP_ACK == <<45, 49, 48, 57>>

MSG_TYPE_REQ_JRPC == 1
MSG_TYPE_PUBSUB == 3
PROTOCOL_BIN == 0
PROTOCOL_EXTRA == 2
PROTOCOL_RAW == 3

-----------------------------------------------------------------------------
(* Lists of extras.                                                        *)

IntExtra(key, n) == Extra(key, PREFIX_TYPE_INT, n)
StrExtra(key, s) == Extra(key, PREFIX_TYPE_STRINGG, s)

(* extra_get and extra_sget: the first element with the key, in a set.     *)
Found(list, key) ==
  {i \in DOMAIN list : list[i].key = key
     /\ \A j \in 1..(i - 1) : list[j].key # key}
ValueOf(list, key) ==
  IF Found(list, key) = {} THEN Null
  ELSE list[CHOOSE i \in Found(list, key) : TRUE].val

(* list = extra_put(list, ...), by which all callers add to a list: a new  *)
(* element becomes the head, but an old one is returned as the head too.   *)
PutExtra(list, e) ==
  IF Found(list, e.key) = {} THEN <<e>> \o list
  ELSE <<e>> \o SubSeq(list, 1 + CHOOSE i \in Found(list, e.key) : TRUE,
                       Len(list))

(* extra_sput: a new element becomes the last one.                         *)
SPutExtra(list, e) ==
  IF Found(list, e.key) = {} THEN Append(list, e)
  ELSE [i \in DOMAIN list |-> IF i \in Found(list, e.key) THEN e ELSE list[i]]

-----------------------------------------------------------------------------
(* Bits and fields of flag and extrFlag, each named by its lowest bit.     *)

FLAG_UP_PROTOCOL == 2
FLAG_EXTRA == 16
FLAG_OUT_MESSAGE == 32
FLAG_DOWN_PROTOCOL == 256
FLAG_DEV == 1024
EXTRA_FLAG_RPC_MCODE == 2048
EXTRA_FLAG_FROM_APIGATEWAY == 16384
EXTRA_FLAG_UDP == 32768

(* unit is the value of a field's lowest bit, size how many values it has. *)
Field(f, unit, size) == (f \div unit) % size
OrField(f, unit, size, v) ==   \* deviation: the field is not cleared first
  IF Field(f, unit, size) = 0 THEN f + v * unit ELSE f
SetField(f, unit, size, v) == f + (v - Field(f, unit, size)) * unit
SetBit(f, unit, b) == SetField(f, unit, 2, IF b THEN 1 ELSE 0)

SetProtocols(f, up, down) ==
  SetField(SetField(f, FLAG_UP_PROTOCOL, 4, up), FLAG_DOWN_PROTOCOL, 4, down)

(* msg_create_msg: all other bits are clear.                               *)
NewMsg(type, data) ==
  [type |-> type, id |-> 1, payload |-> data, extras |-> <<>>,
   flag |-> SetProtocols(SetBit(SetBit(0, FLAG_OUT_MESSAGE, TRUE),
                                FLAG_DEV, TRUE),
                         PROTOCOL_EXTRA, PROTOCOL_EXTRA),
   extrFlag |-> SetBit(0, EXTRA_FLAG_FROM_APIGATEWAY, TRUE)]

-----------------------------------------------------------------------------
(* Items.                                                                  *)

FLAG_DATA_STRING == 0
FLAG_DATA_BIN == 1
FLAG_DATA_JSON == 2
FLAG_DATA_EXTRA == 3

(* The bits of dataFlag: which fields follow, in this order.               *)
Present(it) ==
  <<it.id # 0, it.type # 0, it.topic # Null, it.srcClientId # 0, it.to # 0,
    it.callback # Null, it.cxt # <<>>, it.data # Null>>
FieldBit == <<1, 2, 4, 8, 16, 32, 64, 128>>
DataBit(it, i) == IF Present(it)[i] THEN FieldBit[i] ELSE 0
DataFlagNoData(it) ==          \* deviation: no bit for the data
  DataBit(it, 1) + DataBit(it, 2) + DataBit(it, 3) + DataBit(it, 4)
    + DataBit(it, 5) + DataBit(it, 6) + DataBit(it, 7)
DataFlag(it) ==
  DataBit(it, 1) + DataBit(it, 2) + DataBit(it, 3) + DataBit(it, 4)
    + DataBit(it, 5) + DataBit(it, 6) + DataBit(it, 7) + DataBit(it, 8)
TypeIn(flag) == Field(flag, 32, 4)
DataType(it) == TypeIn(it.flag)

(* What a program may publish.                                             *)
Map == Seq(ExtraIn(Name, Tree[Depth]))
ItemData(type) ==
  {Null} \cup IF type = FLAG_DATA_EXTRA THEN Map \ {<<>>} ELSE Name
IsItem(it) ==
  /\ it \in [flag : Byte, fr : Int32, id : Int32, type : SmallInt,
             topic : Name \cup {Null}, srcClientId : Int32, to : Int32,
             callback : Name \cup {Null}, cxt : Map, data : {it.data}]
  /\ it.data \in ItemData(DataType(it))

PutData(w, it) ==
  CASE DataType(it) = FLAG_DATA_BIN ->
         LET n == PutUnchecked(w, BigEnd(2, Len(it.data)))
         IN IF it.data = <<>> THEN n ELSE Put(n, it.data)
    [] DataType(it) = FLAG_DATA_EXTRA -> EncodeExtras(w, it.data, TRUE)
    [] OTHER -> WriteString(w, it.data)

PutField(w, it, i) ==
  CASE i = 1 -> Put(w, BigEnd(8, it.id))
    [] i = 2 -> Put(w, BigEnd(1, it.type))
    [] i = 3 -> WriteString(w, it.topic)
    [] i = 4 -> Put(w, BigEnd(4, it.srcClientId))
    [] i = 5 -> Put(w, BigEnd(4, it.to))
    [] i = 6 -> WriteString(w, it.callback)
    [] i = 7 -> EncodeExtras(w, it.cxt, TRUE)
    [] OTHER -> PutData(w, it)

(* _c_serialPsItem; the caller does not look at ok.                        *)
SerialPsItem(it) ==
  LET v[i \in 0..8] ==
        IF i = 0
        THEN PutUnchecked(Writer(ItemCap),
                          <<DataFlag(it), it.flag>> \o BigEnd(4, it.fr))
        ELSE IF Present(it)[i] THEN PutField(v[i - 1], it, i) ELSE v[i - 1]
  IN v[8]

(* Whom to answer, out of the message's extras, into the item's context    *)
(* (a context that was NULL does not get the UDP_ACK alone).               *)
ReplyKeys == {EXTRA_SKEY_UDP_PORT, EXTRA_SKEY_UDP_HOST, EXTRA_SKEY_UDP_ACK}
AddPort(cxt, port) ==
  IF port \in {Null, 0} THEN cxt
  ELSE SPutExtra(cxt, IntExtra(EXTRA_SKEY_UDP_PORT, port))
AddHost(cxt, host) ==
  IF host = Null THEN cxt
  ELSE SPutExtra(cxt, StrExtra(EXTRA_SKEY_UDP_HOST, host))
AddAck(cxt, ack) ==
  IF cxt = <<>> THEN <<>>
  ELSE SPutExtra(cxt, Extra(EXTRA_SKEY_UDP_ACK, PREFIX_TYPE_BOOLEAN,
                            IF ack = Null THEN 0 ELSE ack))
WithSource(cxt, extras) ==
  AddAck(AddHost(AddPort(cxt, ValueOf(extras, EXTRA_KEY_UDP_PORT)),
                 ValueOf(extras, EXTRA_KEY_UDP_HOST)),
         ValueOf(extras, EXTRA_KEY_UDP_ACK))

(* The fields that may be there, and what they are when they are not.      *)
NoField(flag, fr) ==
  [flag |-> flag, fr |-> fr, id |-> 0, type |-> 0, topic |-> Null,
   srcClientId |-> 0, to |-> 0, callback |-> Null, cxt |-> <<>>, data |-> Null]
FieldName ==
  <<"id", "type", "topic", "srcClientId", "to", "callback", "cxt", "data">>

(* What extra_decode returns is not looked at.  Binary data is all that is *)
(* left: the length in front of it is not taken off.                       *)
TakeMap(r) == Unharmed(DecodeExtras(r))
TakeData(r, type) ==
  CASE type = FLAG_DATA_BIN ->
         Reading(<<>>, TRUE, r.past, IF r.bytes = <<>> THEN Null ELSE r.bytes)
    [] type = FLAG_DATA_EXTRA -> TakeMap(r)
    [] OTHER -> ReadString(r)
TakeField(r, i, type) ==
  CASE i = 1 -> TakeInt(r, 8)
    [] i = 2 -> TakeInt(r, 1)
    [] i \in {3, 6} -> ReadString(r)
    [] i \in {4, 5} -> TakeInt(r, 4)
    [] i = 7 -> TakeMap(r)
    [] OTHER -> TakeData(r, type)

(* _psitem_pubsubItemParseBin.                                             *)
WithField(it, i, field) ==
  IF ~field.ok THEN field
  ELSE WithVal(field, [it EXCEPT ![FieldName[i]] = field.val])
TakeFields(r, dataFlag, flag) ==
  LET a[i \in 0..8] ==
        IF i = 0 THEN WithVal(r, NoField(flag, r.val))
        ELSE LET before == a[i - 1]
             IN IF ~before.ok \/ Field(dataFlag, FieldBit[i], 2) = 0 THEN before
                ELSE WithField(before.val, i, TakeField(before, i, TypeIn(flag)))
  IN a[8]
AnswerTo(it, extras) ==
  IF ~it.ok THEN it ELSE [it EXCEPT !.val.cxt = WithSource(@, extras)]
ParseItem(m) ==
  LET flags == Take(Reader(m.payload), 2)
      fr == TakeInt(flags, 4)
  IN IfFailed(IF ~flags.ok THEN flags
              ELSE IF ~fr.ok THEN fr
              ELSE AnswerTo(TakeFields(fr, flags.val[1], flags.val[2]),
                            m.extras),
              Null)

-----------------------------------------------------------------------------
(* Messages as bytes.  Each part of the header is checked when it is put,  *)
(* the payload is not.  With the sizes of the buffers no message is long   *)
(* enough for a length of four bytes (msg_setLengthType).                  *)

(* msg_encode.                                                             *)
WithFlags(m) ==
  IF m.extrFlag = 0 THEN m
  ELSE [m EXCEPT !.extras = PutExtra(@, IntExtra(EXTRA_KEY_FLAG, m.extrFlag))]
MarkExtras(m) ==
  IF m.extras = <<>> THEN m
  ELSE [m EXCEPT !.flag = SetBit(@, FLAG_EXTRA, TRUE)]
Header(m, len) ==
  BigEnd(2, m.flag) \o BigEnd(2, len) \o <<m.type>> \o BigEnd(8, m.id)
PutMessage(m, ext) ==
  LET len == WrittenLen(ext) + IF m.payload = Null THEN 0 ELSE Len(m.payload)
      body == Put(Put(Writer(SendCap), Header(m, len)), ext.bytes)
  IN [msg |-> m, ext |-> ext,
      w |-> IF ~ext.ok THEN Refused(body)
            ELSE IF m.payload = Null THEN body
            ELSE PutUnchecked(body, m.payload)]
EncodeMarked(m) ==
  PutMessage(m, IF m.extras = <<>> THEN Writer(ExtraCap)
                ELSE EncodeExtras(Writer(ExtraCap), m.extras, FALSE))
Encode(m) == EncodeMarked(MarkExtras(WithFlags(m)))

(* msg_decode: the reader's val is the message.                            *)
FlagsIn(extras) ==
  IF ValueOf(extras, EXTRA_KEY_FLAG) = Null THEN 0
  ELSE ValueOf(extras, EXTRA_KEY_FLAG)
TakePayload(r, left) ==
  IF left > 0 THEN Take(r, left) ELSE WithVal(r, Null)
NotNull(x) == IF x.ok /\ x.val = <<>> THEN Failed(x) ELSE x
TakeHeaderData(r, flag) ==
  IF Field(flag, FLAG_EXTRA, 2) = 0 THEN WithVal(r, <<>>)
  ELSE NotNull(DecodeExtras(r))
WithPayload(data, id, flag, type, x) ==
  IF ~data.ok THEN data
  ELSE WithVal(data,
         [type |-> type, id |-> id.val, flag |-> flag, extras |-> x.val,
          payload |-> data.val, extrFlag |-> FlagsIn(x.val)])
TakeRest(x, id, flag, len, type) ==
  IF ~x.ok THEN x
  ELSE WithPayload(TakePayload(x, len - (Len(id.bytes) - Len(x.bytes))),
                   id, flag, type, x)
TakeBody(id, flag, len, type) ==
  TakeRest(TakeHeaderData(id, flag), id, flag, len, type)
Decode(bytes) ==
  LET flag == Take(Reader(bytes), 2)
      len == TakeInt(flag, 2)
      type == Take(len, 1)
      id == TakeInt(type, 8)
  IN IF ~len.ok THEN len
     ELSE IF Len(len.bytes) < len.val THEN Failed(len)
     ELSE IF ~id.ok THEN id
     ELSE TakeBody(id, Unsigned(flag.val), len.val, type.val[1])

(* client_sendMessage up to the sender, which RpcWait has.                 *)
ToSend(m, loginKey, useUdp) ==
  LET udp == [m EXCEPT !.extrFlag = SetBit(@, EXTRA_FLAG_UDP, useUdp)]
  IN IF Found(m.extras, EXTRA_KEY_UDP_HOST) = {} /\ loginKey # Null
     THEN [udp EXCEPT !.extras =
             PutExtra(@, StrExtra(EXTRA_KEY_LOGIN_KEY, loginKey))]
     ELSE udp

(* The UDP loop, for each message that it has read.                        *)
NoteSource(m, source) ==
  LET Noted(extras) ==
        PutExtra(PutExtra(PutExtra(extras,
          IntExtra(EXTRA_KEY_UDP_PORT, source.port)),
          StrExtra(EXTRA_KEY_UDP_HOST, source.host)),
          Extra(EXTRA_KEY_UDP_ACK, PREFIX_TYPE_BOOLEAN, 1))
  IN [m EXCEPT !.extras = Noted(@),
               !.extrFlag = SetBit(@, EXTRA_FLAG_UDP, TRUE)]

-----------------------------------------------------------------------------
(* What programs pass, and the login service and recvfrom give.  Extras    *)
(* are as extra_put makes them: no two of a list have the same key.        *)
Extras == Seq(ExtraIn(SmallInt, Tree[Depth]))
Distinct(list) ==
  \A i, j \in 1..Len(list) : i # j => list[i].key # list[j].key

ASSUME InputsTyped ==
  /\ Params \in Seq(Seq(ExtraIn(Name \cup {Null}, Tree[Depth])))
  /\ DOMAIN Items = 1..Len(Items) /\ \A n \in DOMAIN Items : IsItem(Items[n])
  /\ \A n \in DOMAIN Headers : Headers[n] \in Extras /\ Distinct(Headers[n])
  /\ LoginKeys \subseteq Name \cup {Null}
  /\ Sources \subseteq [host : Name, port : Between(1, 65535)]

(* client_invokeRpc: only the first element of the list is a parameter.    *)
InvokeRpc(n) ==
  LET params == Params[n] IN
  /\ stage = "idle"
  /\ payload' = IF params = <<>> THEN Writer(ParamCap)
                ELSE EncodeExtra(Writer(ParamCap), params[1])
  /\ asked' = n
  /\ IF payload'.ok
     THEN LET m == NewMsg(MSG_TYPE_REQ_JRPC,
                          IF params = <<>> THEN Null ELSE payload'.bytes)
          IN /\ stage' = "made"
             /\ msg' = [m EXCEPT
                  !.extrFlag = SetBit(@, EXTRA_FLAG_RPC_MCODE, TRUE),
                  !.extras = PutExtra(@, IntExtra(EXTRA_KEY_SM_CODE, 7))]
     ELSE stage' = "refused" /\ UNCHANGED msg
  /\ UNCHANGED <<wire, got, value>>

(* client_publishPubsubItem refuses an item without topic; one that could  *)
(* not be serialized goes out as a message without payload.                *)
Publish(n, extras) ==
  /\ stage = "idle"
  /\ Items[n].topic \notin {Null, <<>>}
  /\ payload' = SerialPsItem(Items[n])
  /\ asked' = n
  /\ LET ack == ValueOf(extras, EXTRA_KEY_UDP_ACK) \notin {Null, 0}
         m == NewMsg(MSG_TYPE_PUBSUB,
                     IF payload'.ok THEN payload'.bytes ELSE Null)
     IN msg' = [m EXCEPT !.flag = SetProtocols(@, PROTOCOL_RAW, PROTOCOL_BIN),
                         !.extras = extras \o @,
                         !.extrFlag = SetBit(@, EXTRA_FLAG_UDP, ack)]
  /\ stage' = "made"
  /\ UNCHANGED <<wire, got, value>>

SendMessage(loginKey, useUdp) ==
  /\ stage = "made"
  /\ \E e \in {Encode(ToSend(msg, loginKey, useUdp))} :
        /\ stage' = IF e.w.ok THEN "sent" ELSE "refused"
        /\ msg' = e.msg
        /\ wire' = [ext |-> e.ext, w |-> e.w]
  /\ UNCHANGED <<asked, payload, got, value>>

Receive ==
  /\ stage = "sent"
  /\ \E r \in {Decode(wire.w.bytes)} :
        IF r.ok THEN stage' = "received" /\ got' = [msg |-> r.val, from |-> Null]
        ELSE stage' = "unread" /\ UNCHANGED got
  /\ UNCHANGED <<asked, payload, msg, wire, value>>

ComesByUdp(source) ==
  /\ stage = "received"
  /\ got' = [msg |-> NoteSource(got.msg, source), from |-> source]
  /\ stage' = "noted"
  /\ UNCHANGED <<asked, payload, msg, wire, value>>

(* The payload is parsed; without one an item cannot be (bb_get_u8(NULL)). *)
Parse ==
  /\ stage \in {"received", "noted"}
  /\ IF got.msg.payload = Null
     THEN /\ got.msg.type = MSG_TYPE_PUBSUB
          /\ stage' = "crashed"
          /\ UNCHANGED value
     ELSE /\ stage' = "parsed"
          /\ value' = IF got.msg.type = MSG_TYPE_PUBSUB THEN ParseItem(got.msg)
                      ELSE DecodeExtra(Reader(got.msg.payload))
  /\ UNCHANGED <<asked, payload, msg, wire, got>>

Init ==
  /\ stage = "idle"
  /\ asked = 0
  /\ payload = Writer(ParamCap)
  /\ msg = NewMsg(MSG_TYPE_REQ_JRPC, Null)
  /\ wire = [ext |-> Writer(ExtraCap), w |-> Writer(SendCap)]
  /\ got = [msg |-> msg, from |-> Null]
  /\ value = Reader(<<>>)

Next ==
  \/ \E n \in DOMAIN Params : InvokeRpc(n)
  \/ \E n \in DOMAIN Items, h \in DOMAIN Headers : Publish(n, Headers[h])
  \/ \E key \in LoginKeys, useUdp \in BOOLEAN : SendMessage(key, useUdp)
  \/ Receive
  \/ \E source \in Sources : ComesByUdp(source)
  \/ Parse

Spec == Init /\ [][Next]_vars

-----------------------------------------------------------------------------
(* Properties                                                              *)

(* What the receiver should make of a list of extras, or of a parameter:   *)
(* the same values.  A NULL string arrives as NULL, and no value is        *)
(* expected of the types that the encodings do not carry.                  *)
PlainVal(e) ==
  IF e.type \in Scalars \cup {PREFIX_TYPE_STRINGG, PREFIX_TYPE_BYTEBUFFER}
  THEN e.val ELSE Null
ElementArrived(e, inner) ==
  IF NullPlain(e) THEN Extra(e.key, PREFIX_TYPE_NULL, Null)
  ELSE IF e.type = PREFIX_TYPE_MAP THEN Extra(e.key, e.type, inner[e.val])
  ELSE Extra(e.key, e.type, PlainVal(e))
ListArrived(list, inner) ==
  [i \in 1..Len(list) |-> ElementArrived(list[Len(list) + 1 - i], inner)]
MapArrived[d \in 0..Depth] ==
  [list \in Seq(Named(Tree[d])) |->
     ListArrived(list, IF d = 0 THEN <<>> ELSE MapArrived[d - 1])]
ExtrasArrived(list) == ListArrived(list, MapArrived[Depth])

KeyIn(e, i) == IF e.type \in Keyed THEN e.val[i].key ELSE Null
ValueArrived(e, inner) ==
  IF NullPlain(e) \/ NullList(e) THEN Extra(e.key, PREFIX_TYPE_NULL, Null)
  ELSE IF e.type \in Keyed \cup Unkeyed
  THEN Extra(e.key, e.type, [i \in 1..Len(e.val) |->
                               Under(KeyIn(e, i), inner[e.val[i]])])
  ELSE Extra(e.key, e.type, PlainVal(e))
InnerArrived[d \in 0..Depth] ==
  [e \in Tree[d] |->
     ValueArrived(e, IF d = 0 THEN <<>> ELSE InnerArrived[d - 1])]
ParamArrived(e) == Under(Null, ValueArrived(e, InnerArrived[Depth]))

(* A string in e is too long for a sint8_t.                                *)
LongIn(e, inner) ==
  CASE e.type = PREFIX_TYPE_STRINGG -> e.val # Null /\ Len(e.val) > 127
    [] e.type \in Keyed \cup Unkeyed -> \E i \in 1..Len(e.val) : inner[e.val[i]]
    [] OTHER -> FALSE
InnerLong[d \in 0..Depth] ==
  [e \in Tree[d] |-> LongIn(e, IF d = 0 THEN <<>> ELSE InnerLong[d - 1])]
HasLong(e) == LongIn(e, InnerLong[Depth])
MapHasLong(list) == \E i \in 1..Len(list) : HasLong(list[i])
ItemHasLong(it) ==
  \/ MapHasLong(it.cxt)
  \/ DataType(it) = FLAG_DATA_EXTRA /\ it.data # Null /\ MapHasLong(it.data)

(* The elements of a list with other keys than these.                      *)
Without(list, keys) ==
  LET rest[n \in 0..Len(list)] ==     \* of the last n elements
        IF n = 0 THEN <<>>
        ELSE LET e == list[Len(list) + 1 - n]
             IN IF e.key \in keys THEN rest[n - 1] ELSE <<e>> \o rest[n - 1]
  IN rest[Len(list)]
LongKeys ==
  {msg.extras[i].key : i \in {j \in 1..Len(msg.extras) :
                                HasLong(msg.extras[j])}}

(* The extras do not fill their buffer exactly: extra_encode would report  *)
(* that it wrote nothing, and could not write the length of a string.      *)
SentWhole == Len(wire.ext.bytes) < ExtraCap

(* A message comes out of msg_decode as it went into msg_encode: payload,  *)
(* flags, the protocols its maker chose, and each extra except those with  *)
(* too long a string, which do no harm to the others.                      *)
MessageArrives ==
  SentWhole =>
    /\ stage # "unread"
    /\ stage = "received" =>
         /\ \A f \in {"type", "id", "payload", "flag", "extrFlag"} :
              got.msg[f] = msg[f]
         /\ Field(got.msg.flag, FLAG_DOWN_PROTOCOL, 4) =
              IF msg.type = MSG_TYPE_PUBSUB THEN PROTOCOL_BIN
              ELSE PROTOCOL_EXTRA
         /\ Without(got.msg.extras, LongKeys)
              = Without(ExtrasArrived(msg.extras), LongKeys)

(* The parameter of a call arrives with all that is in it, in order,       *)
(* unless a string is too long or the end of a full buffer was lost.       *)
ParamsArrive ==
  stage = "parsed" /\ SentWhole /\ msg.type = MSG_TYPE_REQ_JRPC
    /\ ~payload.lost /\ ~HasLong(Params[asked][1])
  => value.ok /\ value.val = ParamArrived(Params[asked][1])

(* Whom to answer, as a listener finds it in the item's context.           *)
ReplyAddress ==
  [host |-> ValueOf(value.val.cxt, EXTRA_SKEY_UDP_HOST),
   port |-> ValueOf(value.val.cxt, EXTRA_SKEY_UDP_PORT)]
FoundByUdp ==
  /\ stage = "parsed" /\ msg.type = MSG_TYPE_PUBSUB /\ value.ok
  /\ got.from # Null

(* An item that came by UDP can be answered, provided its message did not  *)
(* say already whom the sender wanted to reach.                            *)
ReplyAddressNoted ==
  FoundByUdp /\ (\A key \in {EXTRA_KEY_UDP_PORT, EXTRA_KEY_UDP_HOST,
                              EXTRA_KEY_UDP_ACK} : Found(msg.extras, key) = {})
  => ReplyAddress = got.from

(* Binary data has its length in front.                                    *)
DataArrived(it) ==
  CASE DataType(it) = FLAG_DATA_BIN -> BigEnd(2, Len(it.data)) \o it.data
    [] DataType(it) = FLAG_DATA_EXTRA -> ExtrasArrived(it.data)
    [] OTHER -> it.data

(* A published item arrives with all its fields; its context may get the   *)
(* keys that say whom to answer.  A receiver gets an item without payload  *)
(* only when it did not fit into its buffer.  And by UDP it can be         *)
(* answered.                                                               *)
ItemArrives ==
  /\ ReplyAddressNoted
  /\ msg.type = MSG_TYPE_PUBSUB /\ SentWhole /\ ~payload.lost =>
      LET item == Items[asked] IN
      /\ stage = "crashed" => ~payload.ok
      /\ stage = "parsed" /\ ~ItemHasLong(item) =>
           /\ value.ok
           /\ \A f \in DOMAIN item \ {"cxt", "data"} : value.val[f] = item[f]
           /\ \A i \in 1..Len(item.cxt) :
                ExtrasArrived(item.cxt)[i].key \in ReplyKeys
                  \/ value.val.cxt[i] = ExtrasArrived(item.cxt)[i]
           /\ value.val.data = IF item.data = Null THEN Null ELSE DataArrived(item)

(* No reader is taken past the end of what was sent, not even when a       *)
(* string was too long or a byte was lost at the end of a full buffer.     *)
NeverReadsPast == ~value.past

=============================================================================
