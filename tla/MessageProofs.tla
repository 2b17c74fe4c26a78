---------------------------- MODULE MessageProofs ----------------------------
(***************************************************************************)
(* That a message, with a parameter or an item in it, arrives as it was    *)
(* sent, and that no reader is taken past its end.                         *)
(***************************************************************************)
EXTENDS CodecProofs

-----------------------------------------------------------------------------
(* Messages                                                                *)

\* extra_put: the element becomes the head, and no other has its key.
LEMMA PutExtraIs ==
  ASSUME NEW S, NEW list \in Seq(S), Distinct(list), NEW e \in S
  PROVE  /\ PutExtra(list, e) \in Seq(S) /\ Distinct(PutExtra(list, e))
         /\ Len(PutExtra(list, e)) \in Nat /\ Len(PutExtra(list, e)) >= 1
         /\ PutExtra(list, e)[1] = e
         /\ \A i \in 2 .. Len(PutExtra(list, e)) : PutExtra(list, e)[i].key # e.key
<1> DEFINE n == Len(list)
           m == PutExtra(list, e)
<1>1. n \in Nat /\ DOMAIN list = 1 .. n
  OBVIOUS
<1>2. PICK t \in Seq(S) : /\ m = <<e>> \o t /\ Distinct(t)
                          /\ \A i \in 1 .. Len(t) : t[i].key # e.key
  <2>1. CASE Found(list, e.key) = {}
    <3>1. m = <<e>> \o list
      BY <2>1 DEF PutExtra
    <3> HIDE DEF m
    <3>2. ASSUME NEW i \in 1 .. n, list[i].key = e.key PROVE FALSE
      <4> DEFINE T == {k \in Nat : \A j \in 1 .. n : j <= k => list[j].key # e.key}
      <4>1. 0 \in T
        OBVIOUS
      <4>2. ASSUME NEW k \in T PROVE k + 1 \in T
        <5>1. SUFFICES ASSUME k + 1 \in 1 .. n PROVE list[k + 1].key # e.key
          OBVIOUS
        <5>2. k + 1 \notin Found(list, e.key)
          BY <2>1
        <5>3. \A j \in 1 .. (k + 1) - 1 : list[j].key # e.key
          <6>1. \A j \in 1 .. (k + 1) - 1 : j \in 1 .. n /\ j <= k
            BY <1>1, <5>1
          <6> QED
            BY <6>1
        <5> QED
          BY <1>1, <5>1, <5>2, <5>3 DEF Found
      <4>3. T = Nat
        <5>1. T \in SUBSET Nat
          OBVIOUS
        <5> HIDE DEF T
        <5> QED
          BY <4>1, <4>2, <5>1, EveryNumber
      <4>4. n \in T
        BY <1>1, <4>3
      <4> QED
        BY <1>1, <3>2, <4>4
    <3> QED
      BY <3>1, <3>2
  <2>2. CASE Found(list, e.key) # {}
    <3> DEFINE k == CHOOSE i \in Found(list, e.key) : TRUE
               t == SubSeq(list, k + 1, n)
    <3>1. k \in Found(list, e.key)
      BY <2>2
    <3>2. m = <<e>> \o SubSeq(list, 1 + k, n)
      BY <2>2 DEF PutExtra
    <3> HIDE DEF k, m
    <3>3. k \in 1 .. n /\ list[k].key = e.key
      BY <1>1, <3>1 DEF Found
    <3>4. /\ t \in Seq(S) /\ Len(t) = n - k
          /\ \A i \in 1 .. n - k : t[i] = list[k + i]
      <4>1. k \in Nat /\ n \in Nat /\ k <= n /\ n <= Len(list)
        BY <1>1, <3>3
      <4> HIDE DEF n
      <4> QED
        BY <4>1, PartIs
    <3>5. m = <<e>> \o t
      <4>1. 1 + k = k + 1
        BY <3>3
      <4> QED
        BY <3>2, <4>1
    <3> HIDE DEF t
    <3>6. \A i \in 1 .. Len(t) : k + i \in 1 .. n /\ k + i # k /\ t[i] = list[k + i]
      BY <1>1, <3>3, <3>4
    <3>7. ASSUME NEW i \in 1 .. Len(t), NEW j \in 1 .. Len(t), i # j PROVE t[i].key # t[j].key
      <4>1. k + i # k + j
        BY <1>1, <3>3, <3>4, <3>7
      <4> QED
        BY <3>6, <4>1 DEF Distinct
    <3>8. ASSUME NEW i \in 1 .. Len(t) PROVE t[i].key # e.key
      BY <3>3, <3>6 DEF Distinct
    <3>9. Distinct(t)
      BY <3>7 DEF Distinct
    <3> QED
      BY <3>4, <3>5, <3>8, <3>9
  <2> QED
    BY <2>1, <2>2
<1> HIDE DEF m
<1>3. IsSeq(t)
  BY DEF IsSeq
<1>4. /\ Len(m) = Len(t) + 1 /\ m[1] = e /\ \A i \in 1 .. Len(t) : m[i + 1] = t[i]
  BY <1>2, <1>3, InFront
<1>5. Len(t) \in Nat /\ m \in Seq(S)
  BY <1>2
<1>6. ASSUME NEW i \in 2 .. Len(m) PROVE i - 1 \in 1 .. Len(t) /\ m[i] = t[i - 1]
  <2>1. i - 1 \in 1 .. Len(t) /\ (i - 1) + 1 = i
    BY <1>4, <1>5
  <2>2. m[(i - 1) + 1] = t[i - 1]
    BY <1>4, <2>1
  <2> QED
    BY <2>1, <2>2
<1>7. \A i \in 2 .. Len(m) : m[i].key # e.key
  BY <1>2, <1>6
<1>8. Distinct(m)
  <2>1. SUFFICES ASSUME NEW i \in 1 .. Len(m), NEW j \in 1 .. Len(m), i # j
                 PROVE  m[i].key # m[j].key
    BY DEF Distinct
  <2>2. Len(m) \in Nat
    BY <1>4, <1>5
  <2>3. CASE i = 1
    <3>1. j \in 2 .. Len(m)
      BY <2>1, <2>2, <2>3
    <3> QED
      BY <1>4, <1>7, <2>3, <3>1
  <2>4. CASE j = 1
    <3>1. i \in 2 .. Len(m)
      BY <2>1, <2>2, <2>4
    <3> QED
      BY <1>4, <1>7, <2>4, <3>1
  <2>5. CASE i # 1 /\ j # 1
    <3>1. i \in 2 .. Len(m) /\ j \in 2 .. Len(m) /\ i - 1 # j - 1
      BY <2>1, <2>2, <2>5
    <3>2. i - 1 \in 1 .. Len(t) /\ m[i] = t[i - 1] /\ j - 1 \in 1 .. Len(t) /\ m[j] = t[j - 1]
      BY <1>6, <3>1
    <3> QED
      BY <1>2, <3>1, <3>2 DEF Distinct
  <2> QED
    BY <2>3, <2>4, <2>5
<1>9. Len(m) \in Nat /\ Len(m) >= 1
  BY <1>4, <1>5
<1> QED
  BY <1>4, <1>5, <1>7, <1>8, <1>9 DEF m

\* The values of flag and extrFlag that messages are made with.
LEMMA FlagsAre ==
  /\ SetField(0, EXTRA_FLAG_FROM_APIGATEWAY, 2, 1) = 16384
  /\ SetField(SetField(SetField(SetField(0, FLAG_OUT_MESSAGE, 2, 1), FLAG_DEV, 2, 1),
                       FLAG_UP_PROTOCOL, 4, PROTOCOL_EXTRA),
              FLAG_DOWN_PROTOCOL, 4, PROTOCOL_EXTRA) = 1572
  /\ SetField(SetField(1572, FLAG_UP_PROTOCOL, 4, PROTOCOL_RAW),
              FLAG_DOWN_PROTOCOL, 4, PROTOCOL_BIN) = 1062
  /\ SetField(1572, FLAG_EXTRA, 2, 1) = 1588 /\ SetField(1062, FLAG_EXTRA, 2, 1) = 1078
  /\ SetField(16384, EXTRA_FLAG_RPC_MCODE, 2, 1) = 18432
  /\ \A n \in {0, 1} :
       /\ SetField(16384, EXTRA_FLAG_UDP, 2, n) \in {16384, 49152}
       /\ SetField(49152, EXTRA_FLAG_UDP, 2, n) \in {16384, 49152}
       /\ SetField(18432, EXTRA_FLAG_UDP, 2, n) \in {18432, 51200}
       /\ SetField(51200, EXTRA_FLAG_UDP, 2, n) \in {18432, 51200}
  /\ Field(1588, FLAG_EXTRA, 2) = 1 /\ Field(1078, FLAG_EXTRA, 2) = 1
  /\ Field(1588, FLAG_DOWN_PROTOCOL, 4) = PROTOCOL_EXTRA
  /\ Field(1078, FLAG_DOWN_PROTOCOL, 4) = PROTOCOL_BIN
<1> USE DEF SetField, Field
<1>1. SetField(0, FLAG_OUT_MESSAGE, 2, 1) = 32
  BY DEF FLAG_OUT_MESSAGE
<1>2. SetField(32, FLAG_DEV, 2, 1) = 1056
  BY DEF FLAG_DEV
<1>3. SetField(1056, FLAG_UP_PROTOCOL, 4, PROTOCOL_EXTRA) = 1060
  BY DEF FLAG_UP_PROTOCOL, PROTOCOL_EXTRA
<1>4. SetField(1060, FLAG_DOWN_PROTOCOL, 4, PROTOCOL_EXTRA) = 1572
  BY DEF FLAG_DOWN_PROTOCOL, PROTOCOL_EXTRA
<1>5. SetField(1572, FLAG_UP_PROTOCOL, 4, PROTOCOL_RAW) = 1574
  BY DEF FLAG_UP_PROTOCOL, PROTOCOL_RAW
<1>6. SetField(1574, FLAG_DOWN_PROTOCOL, 4, PROTOCOL_BIN) = 1062
  BY DEF FLAG_DOWN_PROTOCOL, PROTOCOL_BIN
<1>7. SetField(0, EXTRA_FLAG_FROM_APIGATEWAY, 2, 1) = 16384
  BY DEF EXTRA_FLAG_FROM_APIGATEWAY
<1>8. SetField(1572, FLAG_EXTRA, 2, 1) = 1588 /\ SetField(1062, FLAG_EXTRA, 2, 1) = 1078
  BY DEF FLAG_EXTRA
<1>9. SetField(16384, EXTRA_FLAG_RPC_MCODE, 2, 1) = 18432
  BY DEF EXTRA_FLAG_RPC_MCODE
<1>10. ASSUME NEW n \in {0, 1}
       PROVE  /\ SetField(16384, EXTRA_FLAG_UDP, 2, n) \in {16384, 49152}
              /\ SetField(49152, EXTRA_FLAG_UDP, 2, n) \in {16384, 49152}
              /\ SetField(18432, EXTRA_FLAG_UDP, 2, n) \in {18432, 51200}
              /\ SetField(51200, EXTRA_FLAG_UDP, 2, n) \in {18432, 51200}
  BY DEF EXTRA_FLAG_UDP
<1>11. Field(1588, FLAG_EXTRA, 2) = 1 /\ Field(1078, FLAG_EXTRA, 2) = 1
  BY DEF FLAG_EXTRA
<1>12. /\ Field(1588, FLAG_DOWN_PROTOCOL, 4) = PROTOCOL_EXTRA
       /\ Field(1078, FLAG_DOWN_PROTOCOL, 4) = PROTOCOL_BIN
  BY DEF FLAG_DOWN_PROTOCOL, PROTOCOL_EXTRA, PROTOCOL_BIN
<1> HIDE DEF SetField, Field
<1> QED
  BY <1>1, <1>2, <1>3, <1>4, <1>5, <1>6, <1>7, <1>8, <1>9, <1>10, <1>11, <1>12

LEMMA UdpFlagIs ==
  ASSUME NEW f \in {16384, 18432, 49152, 51200}, NEW b \in BOOLEAN
  PROVE  /\ SetBit(f, EXTRA_FLAG_UDP, b) \in {16384, 18432, 49152, 51200}
         /\ f \in {16384, 49152} => SetBit(f, EXTRA_FLAG_UDP, b) \in {16384, 49152}
<1> DEFINE n == IF b THEN 1 ELSE 0
<1>1. SetBit(f, EXTRA_FLAG_UDP, b) = SetField(f, EXTRA_FLAG_UDP, 2, n)
  BY DEF SetBit
<1>3. n \in {0, 1}
  OBVIOUS
<1> HIDE DEF n
<1>2. /\ SetField(f, EXTRA_FLAG_UDP, 2, n) \in {16384, 18432, 49152, 51200}
      /\ f \in {16384, 49152} => SetField(f, EXTRA_FLAG_UDP, 2, n) \in {16384, 49152}
  BY <1>3, FlagsAre
<1> QED
  BY <1>1, <1>2

\* A message as client_sendMessage gets it and hands it on, not yet encoded.
Payload == {s \in Seq(Byte) : s # <<>> /\ Len(s) <= ItemCap} \cup {Null}
Draft(m) ==
  /\ m \in [type : {MSG_TYPE_REQ_JRPC, MSG_TYPE_PUBSUB}, id : {1}, payload : Payload,
            extras : Extras, flag : {1572, 1062},
            extrFlag : {16384, 18432, 49152, 51200}]
  /\ m.flag = IF m.type = MSG_TYPE_PUBSUB THEN 1062 ELSE 1572
  /\ Distinct(m.extras)

LEMMA ExtrasTyped ==
  /\ \A n \in Int32 : \A key \in SmallInt :
       IntExtra(key, n) \in ExtraIn(SmallInt, Tree[Depth]) /\ ~HasLong(IntExtra(key, n))
  /\ \A s \in Name \cup {Null} : \A key \in SmallInt :
       StrExtra(key, s) \in ExtraIn(SmallInt, Tree[Depth])
  /\ {EXTRA_KEY_SM_CODE, EXTRA_KEY_LOGIN_KEY, EXTRA_KEY_FLAG} \subseteq SmallInt
  /\ {7, 16384, 18432, 49152, 51200} \subseteq Int32
<1> DEFINE S == Tree[Depth]
<1> HIDE DEF S
<1>1. ASSUME NEW n \in Int32, NEW key \in SmallInt
      PROVE  IntExtra(key, n) \in ExtraIn(SmallInt, S) /\ ~HasLong(IntExtra(key, n))
  <2>1. IntExtra(key, n) \in ExtraIn(SmallInt, S)
    BY DEF IntExtra, Extra, ExtraIn
  <2>2. IntExtra(key, n).type = PREFIX_TYPE_INT
    BY DEF IntExtra, Extra
  <2>3. PREFIX_TYPE_INT # PREFIX_TYPE_STRINGG /\ PREFIX_TYPE_INT \notin Keyed \cup Unkeyed
    BY DEF PREFIX_TYPE_INT, PREFIX_TYPE_STRINGG, Keyed, Unkeyed, PREFIX_TYPE_MAP,
           PREFIX_TYPE_PROXY, PREFIX_TYPE_LIST, PREFIX_TYPE_SET
  <2> QED
    BY <2>1, <2>2, <2>3 DEF HasLong, LongIn
<1>2. ASSUME NEW s \in Name \cup {Null}, NEW key \in SmallInt
      PROVE  StrExtra(key, s) \in ExtraIn(SmallInt, S)
  BY DEF StrExtra, Extra, ExtraIn
<1>3. {EXTRA_KEY_SM_CODE, EXTRA_KEY_LOGIN_KEY, EXTRA_KEY_FLAG} \subseteq SmallInt
  BY DEF EXTRA_KEY_SM_CODE, EXTRA_KEY_LOGIN_KEY, EXTRA_KEY_FLAG, SmallInt, Between
<1>4. {7, 16384, 18432, 49152, 51200} \subseteq Int32
  BY DEF Int32, Between
<1> QED
  BY <1>1, <1>2, <1>3, <1>4 DEF S

LEMMA NewMsgIs ==
  ASSUME NEW type, NEW data
  PROVE  NewMsg(type, data) = [type |-> type, id |-> 1, payload |-> data, extras |-> <<>>,
                               flag |-> 1572, extrFlag |-> 16384]
<1> DEFINE f == SetProtocols(SetBit(SetBit(0, FLAG_OUT_MESSAGE, TRUE), FLAG_DEV, TRUE),
                             PROTOCOL_EXTRA, PROTOCOL_EXTRA)
           g == SetBit(0, EXTRA_FLAG_FROM_APIGATEWAY, TRUE)
<1>1. f = 1572
  <2>1. f = SetField(SetField(SetField(SetField(0, FLAG_OUT_MESSAGE, 2, 1), FLAG_DEV, 2, 1),
                              FLAG_UP_PROTOCOL, 4, PROTOCOL_EXTRA),
                     FLAG_DOWN_PROTOCOL, 4, PROTOCOL_EXTRA)
    BY DEF SetProtocols, SetBit
  <2> HIDE DEF f
  <2> QED
    BY <2>1, FlagsAre
<1>2. g = 16384
  <2>1. g = SetField(0, EXTRA_FLAG_FROM_APIGATEWAY, 2, 1)
    BY DEF SetBit
  <2> HIDE DEF g
  <2> QED
    BY <2>1, FlagsAre
<1>3. NewMsg(type, data) = [type |-> type, id |-> 1, payload |-> data, extras |-> <<>>,
                            flag |-> f, extrFlag |-> g]
  BY DEF NewMsg
<1> HIDE DEF f, g
<1> QED
  BY <1>1, <1>2, <1>3

LEMMA NoExtras ==
  <<>> \in Extras /\ Distinct(<<>>)
BY DEF Extras, Distinct

LEMMA NewMsgTyped ==
  ASSUME NEW type \in {MSG_TYPE_REQ_JRPC, MSG_TYPE_PUBSUB}, NEW data \in Payload
  PROVE  /\ NewMsg(type, data) \in
              [type : {MSG_TYPE_REQ_JRPC, MSG_TYPE_PUBSUB}, id : {1}, payload : Payload,
               extras : Extras, flag : {1572, 1062},
               extrFlag : {16384, 18432, 49152, 51200}]
         /\ NewMsg(type, data).type = type /\ NewMsg(type, data).payload = data
         /\ NewMsg(type, data).extras = <<>> /\ NewMsg(type, data).flag = 1572
         /\ NewMsg(type, data).extrFlag = 16384
<1> DEFINE e == <<>>
<1>1. e \in Extras
  BY NoExtras
<1>2. NewMsg(type, data) = [type |-> type, id |-> 1, payload |-> data, extras |-> e,
                            flag |-> 1572, extrFlag |-> 16384]
  BY NewMsgIs
<1> HIDE DEF e
<1>3. /\ NewMsg(type, data) \in
              [type : {MSG_TYPE_REQ_JRPC, MSG_TYPE_PUBSUB}, id : {1}, payload : Payload,
               extras : Extras, flag : {1572, 1062},
               extrFlag : {16384, 18432, 49152, 51200}]
      /\ NewMsg(type, data).type = type /\ NewMsg(type, data).payload = data
      /\ NewMsg(type, data).extras = e /\ NewMsg(type, data).flag = 1572
      /\ NewMsg(type, data).extrFlag = 16384
  BY <1>1, <1>2
<1> QED
  BY <1>3 DEF e

LEMMA RpcDraft ==
  ASSUME NEW data \in Payload
  PROVE  LET m == [NewMsg(MSG_TYPE_REQ_JRPC, data) EXCEPT
                     !.extrFlag = SetBit(@, EXTRA_FLAG_RPC_MCODE, TRUE),
                     !.extras = PutExtra(@, IntExtra(EXTRA_KEY_SM_CODE, 7))]
         IN Draft(m) /\ m.payload = data /\ m.type = MSG_TYPE_REQ_JRPC
<1> DEFINE n == NewMsg(MSG_TYPE_REQ_JRPC, data)
           y == PutExtra(n.extras, IntExtra(EXTRA_KEY_SM_CODE, 7))
           f == SetBit(n.extrFlag, EXTRA_FLAG_RPC_MCODE, TRUE)
           m == [n EXCEPT !.extrFlag = SetBit(@, EXTRA_FLAG_RPC_MCODE, TRUE),
                          !.extras = PutExtra(@, IntExtra(EXTRA_KEY_SM_CODE, 7))]
           m1 == [n EXCEPT !.extrFlag = f]
<1>1. /\ n \in [type : {MSG_TYPE_REQ_JRPC, MSG_TYPE_PUBSUB}, id : {1}, payload : Payload,
                extras : Extras, flag : {1572, 1062},
                extrFlag : {16384, 18432, 49152, 51200}]
      /\ n.type = MSG_TYPE_REQ_JRPC /\ n.payload = data
      /\ n.extras = <<>> /\ n.flag = 1572 /\ n.extrFlag = 16384
  BY NewMsgTyped
<1> HIDE DEF n
<1>2. y \in Extras /\ Distinct(y)
  <2>1. IntExtra(EXTRA_KEY_SM_CODE, 7) \in ExtraIn(SmallInt, Tree[Depth])
    BY ExtrasTyped
  <2> QED
    BY <1>1, <2>1, NoExtras, PutExtraIs DEF Extras
<1>3. f = 18432
  <2>1. f = SetField(n.extrFlag, EXTRA_FLAG_RPC_MCODE, 2, 1)
    BY DEF SetBit
  <2> HIDE DEF f
  <2> QED
    BY <1>1, <2>1, FlagsAre
<1>4. m = [m1 EXCEPT !.extras = y]
  OBVIOUS
<1> HIDE DEF y, f, m
<1>5. m1 \in [type : {MSG_TYPE_REQ_JRPC, MSG_TYPE_PUBSUB}, id : {1}, payload : Payload,
              extras : Extras, flag : {1572, 1062},
              extrFlag : {16384, 18432, 49152, 51200}]
      /\ m1.type = MSG_TYPE_REQ_JRPC /\ m1.payload = data /\ m1.flag = 1572
  BY <1>1, <1>3
<1> HIDE DEF m1
<1>6. m \in [type : {MSG_TYPE_REQ_JRPC, MSG_TYPE_PUBSUB}, id : {1}, payload : Payload,
             extras : Extras, flag : {1572, 1062},
             extrFlag : {16384, 18432, 49152, 51200}]
      /\ m.type = MSG_TYPE_REQ_JRPC /\ m.payload = data /\ m.flag = 1572 /\ m.extras = y
  BY <1>2, <1>4, <1>5
<1>7. MSG_TYPE_REQ_JRPC # MSG_TYPE_PUBSUB
  BY DEF MSG_TYPE_REQ_JRPC, MSG_TYPE_PUBSUB
<1>8. Draft(m) /\ m.payload = data /\ m.type = MSG_TYPE_REQ_JRPC
  BY <1>2, <1>6, <1>7 DEF Draft
<1> QED
  BY <1>8 DEF m, n

LEMMA ItemDraft ==
  ASSUME NEW data \in Payload, NEW extras \in Extras, Distinct(extras), NEW ack \in BOOLEAN
  PROVE  LET m == [NewMsg(MSG_TYPE_PUBSUB, data) EXCEPT
                     !.flag = SetProtocols(@, PROTOCOL_RAW, PROTOCOL_BIN),
                     !.extras = extras \o @,
                     !.extrFlag = SetBit(@, EXTRA_FLAG_UDP, ack)]
         IN Draft(m) /\ m.payload = data /\ m.type = MSG_TYPE_PUBSUB
<1> DEFINE n == NewMsg(MSG_TYPE_PUBSUB, data)
           h == SetProtocols(n.flag, PROTOCOL_RAW, PROTOCOL_BIN)
           y == extras \o n.extras
           f == SetBit(n.extrFlag, EXTRA_FLAG_UDP, ack)
           m == [n EXCEPT !.flag = SetProtocols(@, PROTOCOL_RAW, PROTOCOL_BIN),
                          !.extras = extras \o @,
                          !.extrFlag = SetBit(@, EXTRA_FLAG_UDP, ack)]
           m1 == [n EXCEPT !.flag = h]
           m2 == [m1 EXCEPT !.extras = y]
<1>1. /\ n \in [type : {MSG_TYPE_REQ_JRPC, MSG_TYPE_PUBSUB}, id : {1}, payload : Payload,
                extras : Extras, flag : {1572, 1062},
                extrFlag : {16384, 18432, 49152, 51200}]
      /\ n.type = MSG_TYPE_PUBSUB /\ n.payload = data
      /\ n.extras = <<>> /\ n.flag = 1572 /\ n.extrFlag = 16384
  BY NewMsgTyped
<1> HIDE DEF n
<1>2. y = extras
  BY <1>1 DEF Extras
<1>3. h = 1062
  BY <1>1, FlagsAre DEF SetProtocols
<1>4. f \in {16384, 49152}
  BY <1>1, UdpFlagIs
<1>5. m = [m2 EXCEPT !.extrFlag = f]
  OBVIOUS
<1> HIDE DEF y, f, h, m
<1>6. m1 \in [type : {MSG_TYPE_REQ_JRPC, MSG_TYPE_PUBSUB}, id : {1}, payload : Payload,
              extras : Extras, flag : {1572, 1062},
              extrFlag : {16384, 18432, 49152, 51200}]
      /\ m1.type = MSG_TYPE_PUBSUB /\ m1.payload = data /\ m1.flag = 1062
  BY <1>1, <1>3
<1> HIDE DEF m1
<1>7. m2 \in [type : {MSG_TYPE_REQ_JRPC, MSG_TYPE_PUBSUB}, id : {1}, payload : Payload,
              extras : Extras, flag : {1572, 1062},
              extrFlag : {16384, 18432, 49152, 51200}]
      /\ m2.type = MSG_TYPE_PUBSUB /\ m2.payload = data /\ m2.flag = 1062
      /\ m2.extras = extras
  BY <1>2, <1>6
<1> HIDE DEF m2
<1>8. m \in [type : {MSG_TYPE_REQ_JRPC, MSG_TYPE_PUBSUB}, id : {1}, payload : Payload,
             extras : Extras, flag : {1572, 1062},
             extrFlag : {16384, 18432, 49152, 51200}]
      /\ m.type = MSG_TYPE_PUBSUB /\ m.payload = data /\ m.flag = 1062
      /\ m.extras = extras
  BY <1>4, <1>5, <1>7
<1>9. Draft(m) /\ m.payload = data /\ m.type = MSG_TYPE_PUBSUB
  BY <1>8 DEF Draft
<1> QED
  BY <1>9 DEF m, n

LEMMA ToSendIs ==
  ASSUME NEW m, Draft(m), NEW loginKey \in Name \cup {Null}, NEW useUdp \in BOOLEAN
  PROVE  /\ Draft(ToSend(m, loginKey, useUdp))
         /\ ToSend(m, loginKey, useUdp).payload = m.payload
         /\ ToSend(m, loginKey, useUdp).type = m.type
<1> DEFINE f == SetBit(m.extrFlag, EXTRA_FLAG_UDP, useUdp)
           udp == [m EXCEPT !.extrFlag = SetBit(@, EXTRA_FLAG_UDP, useUdp)]
           x == PutExtra(m.extras, StrExtra(EXTRA_KEY_LOGIN_KEY, loginKey))
           all == [udp EXCEPT !.extras =
                     PutExtra(@, StrExtra(EXTRA_KEY_LOGIN_KEY, loginKey))]
<1>1. m \in [type : {MSG_TYPE_REQ_JRPC, MSG_TYPE_PUBSUB}, id : {1}, payload : Payload,
             extras : Extras, flag : {1572, 1062},
             extrFlag : {16384, 18432, 49152, 51200}]
      /\ (m.flag = IF m.type = MSG_TYPE_PUBSUB THEN 1062 ELSE 1572) /\ Distinct(m.extras)
  BY DEF Draft
<1>2. f \in {16384, 18432, 49152, 51200}
  <2>1. m.extrFlag \in {16384, 18432, 49152, 51200}
    BY <1>1
  <2> QED
    BY <2>1, UdpFlagIs
<1>3. x \in Extras /\ Distinct(x)
  <2>1. StrExtra(EXTRA_KEY_LOGIN_KEY, loginKey) \in ExtraIn(SmallInt, Tree[Depth])
    BY ExtrasTyped
  <2>2. m.extras \in Seq(ExtraIn(SmallInt, Tree[Depth]))
    BY <1>1 DEF Extras
  <2> QED
    BY <1>1, <2>1, <2>2, PutExtraIs DEF Extras
<1>4. /\ udp = [m EXCEPT !.extrFlag = f]
      /\ all = [udp EXCEPT !.extras = x]
  <2>1. udp.extras = m.extras
    BY <1>1
  <2> HIDE DEF f, udp
  <2>2. all = [udp EXCEPT !.extras = x]
    BY <2>1
  <2> QED
    BY <2>2 DEF f, udp
<1> HIDE DEF f
<1>5. ToSend(m, loginKey, useUdp) = udp \/ ToSend(m, loginKey, useUdp) = all
  BY DEF ToSend
<1> HIDE DEF udp, all, x
<1>6. Draft(udp) /\ udp.payload = m.payload /\ udp.type = m.type
  BY <1>1, <1>2, <1>4 DEF Draft
<1>7. Draft(all) /\ all.payload = m.payload /\ all.type = m.type
  <2>1. udp \in [type : {MSG_TYPE_REQ_JRPC, MSG_TYPE_PUBSUB}, id : {1}, payload : Payload,
                 extras : Extras, flag : {1572, 1062},
                 extrFlag : {16384, 18432, 49152, 51200}]
        /\ (udp.flag = IF udp.type = MSG_TYPE_PUBSUB THEN 1062 ELSE 1572)
    BY <1>6 DEF Draft
  <2>2. all = [udp EXCEPT !.extras = x]
    BY <1>4
  <2>3. all \in [type : {MSG_TYPE_REQ_JRPC, MSG_TYPE_PUBSUB}, id : {1}, payload : Payload,
                 extras : Extras, flag : {1572, 1062},
                 extrFlag : {16384, 18432, 49152, 51200}]
        /\ all.flag = udp.flag /\ all.type = udp.type /\ all.payload = udp.payload
        /\ all.extras = x
    BY <1>3, <2>1, <2>2
  <2> QED
    BY <1>3, <1>6, <2>1, <2>3 DEF Draft
<1> QED
  BY <1>5, <1>6, <1>7

\* A message as it is encoded: the extra with extrFlag is the first.
Marked(m) ==
  /\ m \in [type : {MSG_TYPE_REQ_JRPC, MSG_TYPE_PUBSUB}, id : {1}, payload : Payload,
            extras : Extras, flag : {1588, 1078},
            extrFlag : {16384, 18432, 49152, 51200}]
  /\ m.flag = IF m.type = MSG_TYPE_PUBSUB THEN 1078 ELSE 1588
  /\ Distinct(m.extras)
  /\ Len(m.extras) \in Nat /\ Len(m.extras) >= 1
  /\ m.extras[1] = IntExtra(EXTRA_KEY_FLAG, m.extrFlag)
  /\ \A i \in 2 .. Len(m.extras) : m.extras[i].key # EXTRA_KEY_FLAG

LEMMA MarkedIs ==
  ASSUME NEW m, Draft(m)
  PROVE  /\ Marked(MarkExtras(WithFlags(m)))
         /\ MarkExtras(WithFlags(m)).payload = m.payload
         /\ MarkExtras(WithFlags(m)).type = m.type
<1> DEFINE e == IntExtra(EXTRA_KEY_FLAG, m.extrFlag)
           x == PutExtra(m.extras, e)
           f == IF m.type = MSG_TYPE_PUBSUB THEN 1078 ELSE 1588
           m2 == WithFlags(m)
           m3 == MarkExtras(m2)
<1>1. m \in [type : {MSG_TYPE_REQ_JRPC, MSG_TYPE_PUBSUB}, id : {1}, payload : Payload,
             extras : Extras, flag : {1572, 1062},
             extrFlag : {16384, 18432, 49152, 51200}]
      /\ (m.flag = IF m.type = MSG_TYPE_PUBSUB THEN 1062 ELSE 1572) /\ Distinct(m.extras)
  BY DEF Draft
<1>2. /\ x \in Extras /\ Distinct(x) /\ Len(x) \in Nat /\ Len(x) >= 1 /\ x[1] = e
      /\ \A i \in 2 .. Len(x) : x[i].key # EXTRA_KEY_FLAG
  <2>1. e \in ExtraIn(SmallInt, Tree[Depth])
    <3>1. m.extrFlag \in Int32
      BY <1>1, ExtrasTyped
    <3> QED
      BY <3>1, ExtrasTyped
  <2>2. m.extras \in Seq(ExtraIn(SmallInt, Tree[Depth]))
    BY <1>1 DEF Extras
  <2>3. e.key = EXTRA_KEY_FLAG
    BY DEF IntExtra, Extra
  <2> HIDE DEF e
  <2>4. /\ PutExtra(m.extras, e) \in Seq(ExtraIn(SmallInt, Tree[Depth]))
        /\ Distinct(PutExtra(m.extras, e))
        /\ Len(PutExtra(m.extras, e)) \in Nat /\ Len(PutExtra(m.extras, e)) >= 1
        /\ PutExtra(m.extras, e)[1] = e
        /\ \A i \in 2 .. Len(PutExtra(m.extras, e)) : PutExtra(m.extras, e)[i].key # e.key
    BY <1>1, <2>1, <2>2, PutExtraIs
  <2> QED
    BY <2>3, <2>4 DEF Extras
<1>3. m2 = [m EXCEPT !.extras = x]
  <2>1. m.extrFlag # 0
    BY <1>1
  <2> QED
    BY <1>1, <2>1 DEF WithFlags
<1> HIDE DEF x, m2, e
<1>4. x # <<>>
  BY <1>2
<1>5. m2 \in [type : {MSG_TYPE_REQ_JRPC, MSG_TYPE_PUBSUB}, id : {1}, payload : Payload,
              extras : Extras, flag : {1572, 1062},
              extrFlag : {16384, 18432, 49152, 51200}]
      /\ m2.flag = m.flag /\ m2.type = m.type /\ m2.payload = m.payload
      /\ m2.extrFlag = m.extrFlag /\ m2.extras = x
  BY <1>1, <1>2, <1>3
<1> DEFINE g == SetBit(m2.flag, FLAG_EXTRA, TRUE)
<1>6. g = f
  <2>1. g = SetField(m2.flag, FLAG_EXTRA, 2, 1)
    BY DEF SetBit
  <2> HIDE DEF g
  <2>2. m2.flag = IF m.type = MSG_TYPE_PUBSUB THEN 1062 ELSE 1572
    BY <1>1, <1>5
  <2> QED
    BY <2>1, <2>2, FlagsAre
<1>a. m3 = [m2 EXCEPT !.flag = g]
  BY <1>4, <1>5 DEF MarkExtras
<1> HIDE DEF f, g, m3
<1>7. m3 = [m2 EXCEPT !.flag = f]
  BY <1>6, <1>a
<1> HIDE DEF m3
<1>8. f \in {1588, 1078} /\ f = IF m.type = MSG_TYPE_PUBSUB THEN 1078 ELSE 1588
  BY DEF f
<1>9. m3 \in [type : {MSG_TYPE_REQ_JRPC, MSG_TYPE_PUBSUB}, id : {1}, payload : Payload,
              extras : Extras, flag : {1588, 1078},
              extrFlag : {16384, 18432, 49152, 51200}]
      /\ m3.flag = f /\ m3.type = m.type /\ m3.payload = m.payload
      /\ m3.extrFlag = m.extrFlag /\ m3.extras = x
  BY <1>5, <1>7, <1>8
<1>10. Marked(m3)
  BY <1>2, <1>8, <1>9 DEF Marked, e
<1> QED
  BY <1>9, <1>10 DEF m3, m2

\* The parts of a message: its header data and its payload.
Ext(m) == EncodeExtras(Writer(ExtraCap), m.extras, FALSE)
Body(m) == IF m.payload = Null THEN <<>> ELSE m.payload

\* The header data of a message, as it is encoded.
LEMMA ExtIs ==
  ASSUME NEW m, Marked(m)
  PROVE  /\ Sound(Ext(m)) /\ Ext(m).cap = ExtraCap /\ Ext(m).bytes \in Seq(Byte)
         /\ Len(Ext(m).bytes) \in Nat /\ Len(Ext(m).bytes) <= ExtraCap
         /\ ExtraCap \in Nat /\ ExtraCap <= 513
         /\ Ext(m).ok /\ Len(Ext(m).bytes) < ExtraCap => ~Ext(m).lost
         /\ Len(Ext(m).bytes) < ExtraCap => WrittenLen(Ext(m)) = Len(Ext(m).bytes)
         /\ WrittenLen(Ext(m)) \in Nat /\ WrittenLen(Ext(m)) <= Len(Ext(m).bytes)
<1> DEFINE w == Writer(ExtraCap)
           x == Ext(m)
           n == Len(x.bytes)
           no == FALSE
<1>0. no \in BOOLEAN /\ ~no
  OBVIOUS
<1>1. ExtraCap \in Nat /\ ExtraCap <= 513 /\ ExtraCap < 32768 /\ 0 < ExtraCap
  BY CapsFit
<1>2. Sound(w) /\ Full(w) /\ w.cap = ExtraCap
  BY <1>1, NewWriter
<1>5. x = EncodeExtras(w, m.extras, no)
  BY DEF Ext
<1> HIDE DEF w, no
<1>3. ListFits(m.extras, SmallInt, Tree[Depth], no)
  <2>1. m.extras \in Extras
    BY DEF Marked
  <2> QED
    BY <1>0, <2>1, ExtrasFit
<1>4. Grown(w, EncodeExtras(w, m.extras, no)) /\ Full(EncodeExtras(w, m.extras, no))
  BY <1>2, <1>3, ExtrasGrow
<1> HIDE DEF x
<1>6. Sound(x) /\ x.cap = ExtraCap /\ Full(x)
  BY <1>2, <1>4, <1>5 DEF Grown
<1>7. x.bytes \in Seq(Byte) /\ n \in Nat /\ n <= ExtraCap
  BY <1>6 DEF Sound, WriterState
<1>8. x.ok /\ n < ExtraCap => ~x.lost
  <2> HIDE DEF n
  <2>1. x.ok /\ x.lost => n = ExtraCap
    BY <1>6 DEF Full, n
  <2> QED
    BY <1>1, <1>7, <2>1
<1>9. WrittenLen(x) = n % ExtraCap
  BY <1>6 DEF WrittenLen
<1> HIDE DEF n
<1>10. /\ n < ExtraCap => n % ExtraCap = n
       /\ n % ExtraCap \in Nat /\ n % ExtraCap <= n
  BY <1>1, <1>7
<1>11. /\ n < ExtraCap => WrittenLen(x) = n
       /\ WrittenLen(x) \in Nat /\ WrittenLen(x) <= n
  BY <1>9, <1>10
<1> QED
  BY <1>1, <1>6, <1>7, <1>8, <1>11 DEF x, n

LEMMA BodyIs ==
  ASSUME NEW m, m.payload \in Payload
  PROVE  /\ Body(m) \in Seq(Byte) /\ Len(Body(m)) \in Nat /\ Len(Body(m)) <= ItemCap
         /\ m.payload = Null => Len(Body(m)) = 0
         /\ m.payload # Null => Body(m) = m.payload /\ Len(Body(m)) > 0
<1>1. ItemCap \in Nat
  BY CapsFit
<1>2. CASE m.payload = Null
  <2>1. Body(m) = <<>>
    BY <1>2 DEF Body
  <2> QED
    BY <1>1, <1>2, <2>1
<1>3. CASE m.payload # Null
  <2>1. Body(m) = m.payload
    BY <1>3 DEF Body
  <2>2. m.payload \in Seq(Byte) /\ m.payload # <<>> /\ Len(m.payload) <= ItemCap
    BY <1>3 DEF Payload
  <2> QED
    BY <1>3, <2>1, <2>2
<1> QED
  BY <1>2, <1>3

LEMMA JoinedBytes ==
  ASSUME NEW s \in Seq(Byte), NEW t \in Seq(Byte)
  PROVE  s \o t \in Seq(Byte) /\ Len(s \o t) = Len(s) + Len(t)
<1>1. s \o t \in Seq(Byte)
  OBVIOUS
<1>2. Len(s \o t) = Len(s) + Len(t)
  BY Joining
<1> QED
  BY <1>1, <1>2

LEMMA HeaderIs ==
  ASSUME NEW m, Marked(m), NEW len \in Nat
  PROVE  Header(m, len) \in Seq(Byte) /\ Len(Header(m, len)) = 13
<1> DEFINE a == BigEnd(2, m.flag)
           b == BigEnd(2, len)
           c == <<m.type>>
           d == BigEnd(8, m.id)
<1>1. m.flag \in Int /\ m.id \in Int /\ m.type \in Byte
  BY DEF Marked, MSG_TYPE_REQ_JRPC, MSG_TYPE_PUBSUB, Byte, Between
<1>2. /\ a \in Seq(Byte) /\ Len(a) = 2 /\ b \in Seq(Byte) /\ Len(b) = 2
      /\ d \in Seq(Byte) /\ Len(d) = 8
  <2>1. 2 \in {1, 2, 4, 8} /\ 8 \in {1, 2, 4, 8} /\ len \in Int
    OBVIOUS
  <2> QED
    BY <1>1, <2>1, BigEndIs
<1>3. c \in Seq(Byte) /\ Len(c) = 1
  BY <1>1, ByteAlone
<1>4. Header(m, len) = a \o b \o c \o d
  BY DEF Header
<1> HIDE DEF a, b, c, d
<1>5. a \o b \in Seq(Byte) /\ Len(a \o b) = Len(a) + Len(b)
  BY <1>2, JoinedBytes
<1>6. a \o b \o c \in Seq(Byte) /\ Len(a \o b \o c) = Len(a \o b) + Len(c)
  BY <1>3, <1>5, JoinedBytes
<1>7. a \o b \o c \o d \in Seq(Byte) /\ Len(a \o b \o c \o d) = Len(a \o b \o c) + Len(d)
  BY <1>2, <1>6, JoinedBytes
<1>8. Len(a \o b \o c \o d) = 13
  BY <1>2, <1>3, <1>5, <1>6, <1>7
<1> QED
  BY <1>4, <1>7, <1>8

LEMMA PutFits ==
  ASSUME NEW w, w.ok, NEW t, Len(w.bytes) < w.cap, Len(w.bytes) + Len(t) <= w.cap
  PROVE  /\ Put(w, t).bytes = w.bytes \o t /\ Put(w, t).ok /\ Put(w, t).cap = w.cap
         /\ PutUnchecked(w, t).bytes = w.bytes \o t /\ PutUnchecked(w, t).ok
<1>1. Room(w, Len(t))
  BY DEF Room
<1>2. Put(w, t) = Writing(w.bytes \o t, w.cap, TRUE, w.lost)
  BY <1>1 DEF Put
<1>3. PutUnchecked(w, t) = Put(w, t)
  BY <1>1 DEF PutUnchecked
<1>4. /\ Put(w, t).bytes = w.bytes \o t /\ Put(w, t).ok /\ Put(w, t).cap = w.cap
  BY <1>2 DEF Writing
<1> QED
  BY <1>3, <1>4

\* What msg_encode makes of a message: header, header data, payload.
LEMMA EncodedIs ==
  ASSUME NEW m, Marked(m)
  PROVE  /\ EncodeMarked(m).msg = m /\ EncodeMarked(m).ext = Ext(m)
         /\ EncodeMarked(m).w.ok <=> Ext(m).ok
         /\ EncodeMarked(m).w.ok =>
              EncodeMarked(m).w.bytes
                = (Header(m, WrittenLen(Ext(m)) + Len(Body(m))) \o Ext(m).bytes) \o Body(m)
<1> DEFINE x == Ext(m)
           len == WrittenLen(x) + IF m.payload = Null THEN 0 ELSE Len(m.payload)
           h == Header(m, len)
           w0 == Writer(SendCap)
           w1 == Put(w0, h)
           w2 == Put(w1, x.bytes)
           w3 == PutUnchecked(w2, m.payload)
           rec == EncodeMarked(m)
<1>1. m.payload \in Payload /\ m.extras # <<>>
  BY DEF Marked
<1>2. /\ Body(m) \in Seq(Byte) /\ Len(Body(m)) \in Nat /\ Len(Body(m)) <= ItemCap
      /\ m.payload = Null => Body(m) = <<>>
      /\ m.payload # Null => Body(m) = m.payload
  BY <1>1, BodyIs DEF Body
<1>3. len = WrittenLen(x) + Len(Body(m))
  BY <1>2
<1>4. rec = [msg |-> m, ext |-> x,
             w |-> IF ~x.ok THEN Refused(w2) ELSE IF m.payload = Null THEN w2 ELSE w3]
  BY <1>1 DEF EncodeMarked, PutMessage, Ext
<1>5. /\ x.bytes \in Seq(Byte) /\ Len(x.bytes) \in Nat /\ Len(x.bytes) <= ExtraCap
      /\ WrittenLen(x) \in Nat
  BY ExtIs
<1>6. /\ ExtraCap \in Nat /\ ItemCap \in Nat /\ SendCap \in Nat /\ SendCap < 32768
      /\ 13 + ExtraCap + ItemCap <= SendCap /\ 0 < ItemCap
  BY CapsFit DEF HeaderLen
<1>7. w0.ok /\ w0.bytes = <<>> /\ w0.cap = SendCap
  BY <1>6, NewWriter
<1> HIDE DEF x, rec, w0
<1>8. len \in Nat
  BY <1>2, <1>3, <1>5
<1> HIDE DEF len
<1>9. h \in Seq(Byte) /\ Len(h) = 13
  BY <1>8, HeaderIs
<1> HIDE DEF h
<1>10. w1.bytes = h /\ w1.ok /\ w1.cap = SendCap
  <2>1. Len(w0.bytes) = 0
    BY <1>7
  <2>2. Len(w0.bytes) < w0.cap /\ Len(w0.bytes) + Len(h) <= w0.cap
    BY <1>5, <1>6, <1>7, <1>9, <2>1
  <2>3. w1.bytes = w0.bytes \o h /\ w1.ok /\ w1.cap = w0.cap
    BY <1>7, <2>2, PutFits
  <2>4. <<>> \o h = h
    BY <1>9
  <2> QED
    BY <1>7, <2>3, <2>4
<1> HIDE DEF w1
<1>11. w2.bytes = h \o x.bytes /\ w2.ok /\ w2.cap = SendCap
  <2>2. Len(w1.bytes) = 13 /\ w1.cap = SendCap
    BY <1>9, <1>10
  <2>3. 13 < SendCap /\ 13 + Len(x.bytes) <= SendCap
    BY <1>5, <1>6
  <2>1. Len(w1.bytes) < w1.cap /\ Len(w1.bytes) + Len(x.bytes) <= w1.cap
    BY <2>2, <2>3
  <2> QED
    BY <1>10, <2>1, PutFits
<1> HIDE DEF w2
<1>12. h \o x.bytes \in Seq(Byte) /\ Len(h \o x.bytes) = 13 + Len(x.bytes)
  BY <1>5, <1>9, JoinedBytes
<1>13. m.payload # Null => w3.bytes = (h \o x.bytes) \o Body(m) /\ w3.ok
  <2>1. SUFFICES ASSUME m.payload # Null PROVE w3.bytes = (h \o x.bytes) \o Body(m) /\ w3.ok
    OBVIOUS
  <2>2. Body(m) = m.payload
    BY <1>2, <2>1
  <2>3. Len(w2.bytes) < w2.cap /\ Len(w2.bytes) + Len(Body(m)) <= w2.cap
    BY <1>2, <1>5, <1>6, <1>11, <1>12
  <2>4. Len(w2.bytes) < w2.cap /\ Len(w2.bytes) + Len(m.payload) <= w2.cap
    BY <2>2, <2>3
  <2>5. w3.bytes = w2.bytes \o m.payload /\ w3.ok
    BY <1>11, <2>4, PutFits
  <2> QED
    BY <1>11, <2>2, <2>5
<1>14. m.payload = Null => w2.bytes = (h \o x.bytes) \o Body(m)
  <2>1. (h \o x.bytes) \o <<>> = h \o x.bytes
    BY <1>12
  <2> QED
    BY <1>2, <1>11, <2>1
<1> HIDE DEF w3
<1>15. ~Refused(w2).ok
  BY DEF Refused, Writing
<1>16. rec.msg = m /\ rec.ext = x
  BY <1>4
<1>17. rec.w = IF ~x.ok THEN Refused(w2) ELSE IF m.payload = Null THEN w2 ELSE w3
  BY <1>4
<1>18. rec.w.ok <=> x.ok
  BY <1>11, <1>13, <1>15, <1>17
<1>19. x.ok => rec.w.bytes = (h \o x.bytes) \o Body(m)
  BY <1>13, <1>14, <1>17
<1>20. h = Header(m, WrittenLen(x) + Len(Body(m)))
  BY <1>3 DEF h
<1> QED
  BY <1>16, <1>18, <1>19, <1>20 DEF rec, x

LEMMA RestOfJoin ==
  ASSUME NEW s \in Seq(Byte), NEW t \in Seq(Byte)
  PROVE  /\ Rest(s \o t, Len(s)) = t /\ Starts(s \o t, s)
         /\ s \o t \in Seq(Byte) /\ Len(s \o t) = Len(s) + Len(t)
<1> DEFINE j == s \o t
           n == Len(s)
           r == Rest(j, n)
<1>1. /\ j \in Seq(Byte) /\ Len(j) = Len(s) + Len(t)
      /\ Len(s) \in Nat /\ Len(t) \in Nat
      /\ \A i \in 1 .. Len(s) : j[i] = s[i]
      /\ \A i \in 1 .. Len(t) : j[Len(s) + i] = t[i]
  BY Joining
<1> HIDE DEF j
<1>2. /\ r \in Seq(Byte) /\ Len(r) = Len(j) - n
      /\ \A i \in 1 .. Len(j) - n : r[i] = j[n + i]
  <2>1. n \in Nat /\ n <= Len(j)
    BY <1>1
  <2> HIDE DEF n
  <2> QED
    BY <1>1, <2>1, RestIs
<1> HIDE DEF r
<1>3. Len(r) = Len(t)
  BY <1>1, <1>2
<1>4. \A i \in 1 .. Len(r) : r[i] = t[i]
  BY <1>1, <1>2, <1>3
<1>5. r = t
  BY <1>2, <1>3, <1>4, SameSequence
<1>6. Starts(j, s)
  BY <1>1 DEF Starts
<1> QED
  BY <1>1, <1>5, <1>6 DEF r, j

\* The buffer while the header is written: each part is put behind the others.
HeaderPut(m, len, w0, w1, w2, w3, w4) ==
  /\ Len(w0.bytes) = 0 /\ Len(w2.bytes) = 4 /\ Sound(w0)
  /\ w4.ok /\ ~w4.lost /\ w4.bytes = Header(m, len)
  /\ Grown(w0, w1) /\ Added(w0, w1, BigEnd(2, m.flag))
  /\ Grown(w1, w2) /\ Added(w1, w2, BigEnd(2, len))
  /\ Grown(w2, w3) /\ Added(w2, w3, <<m.type>>)
  /\ Grown(w3, w4) /\ Added(w3, w4, BigEnd(8, m.id))

LEMMA HeaderIsPut ==
  ASSUME NEW m, Marked(m), NEW len \in Nat
  PROVE  \E w0, w1, w2, w3, w4 : HeaderPut(m, len, w0, w1, w2, w3, w4)
<1> DEFINE a == BigEnd(2, m.flag)
           b == BigEnd(2, len)
           c == <<m.type>>
           d == BigEnd(8, m.id)
           h == Header(m, len)
           w0 == Writer(SendCap)
           w1 == Put(w0, a)
           w2 == Put(w1, b)
           w3 == Put(w2, c)
           w4 == Put(w3, d)
<1>1. m.flag \in Between(0, 65535) /\ m.flag \in Int /\ m.id = 1 /\ m.id \in Int32
      /\ m.id \in Int /\ m.type \in Byte
  BY DEF Marked, MSG_TYPE_REQ_JRPC, MSG_TYPE_PUBSUB, Byte, Between, Int32
<1>2. /\ a \in Seq(Byte) /\ Len(a) = 2 /\ b \in Seq(Byte) /\ Len(b) = 2
      /\ d \in Seq(Byte) /\ Len(d) = 8
  <2>1. 2 \in {1, 2, 4, 8} /\ 8 \in {1, 2, 4, 8} /\ len \in Int
    OBVIOUS
  <2> QED
    BY <1>1, <2>1, BigEndIs
<1>3. c \in Seq(Byte) /\ Len(c) = 1 /\ c[1] = m.type
  BY <1>1, ByteAlone
<1>4. h = a \o b \o c \o d
  BY DEF Header
<1>5. h \in Seq(Byte) /\ Len(h) = 13
  BY HeaderIs
<1>10. SendCap \in Nat /\ SendCap < 32768 /\ 13 < SendCap
  BY CapsFit DEF HeaderLen
<1>11. Sound(w0) /\ w0.ok /\ ~w0.lost /\ w0.bytes = <<>> /\ w0.cap = SendCap
  BY <1>10, NewWriter
<1> HIDE DEF a, b, c, d, h, w0
<1>13. /\ a \o b \in Seq(Byte) /\ Len(a \o b) = 4
       /\ a \o b \o c \in Seq(Byte) /\ Len(a \o b \o c) = 5
  <2>1. a \o b \in Seq(Byte) /\ Len(a \o b) = Len(a) + Len(b)
    BY <1>2, JoinedBytes
  <2>2. a \o b \o c \in Seq(Byte) /\ Len(a \o b \o c) = Len(a \o b) + Len(c)
    BY <1>3, <2>1, JoinedBytes
  <2> QED
    BY <1>2, <1>3, <2>1, <2>2
<1>14. w1.ok /\ w1.bytes = a /\ w1.cap = SendCap /\ Grown(w0, w1) /\ ~w1.lost
       /\ Added(w0, w1, a)
  <2>1. Len(w0.bytes) = 0
    BY <1>11
  <2>2. Len(w0.bytes) < w0.cap /\ Len(w0.bytes) + Len(a) <= w0.cap
    BY <1>2, <1>10, <1>11, <2>1
  <2>3. w1.bytes = w0.bytes \o a /\ w1.ok /\ w1.cap = w0.cap
    BY <1>11, <2>2, PutFits
  <2>4. <<>> \o a = a
    BY <1>2
  <2>5. Grown(w0, w1) /\ (w1.ok => Added(w0, w1, a))
    BY <1>2, <1>11, PutGrows
  <2>6. w1.lost = w0.lost
    BY <2>3, <2>5 DEF Added
  <2> QED
    BY <1>11, <2>3, <2>4, <2>5, <2>6
<1> HIDE DEF w1
<1>15. w2.ok /\ w2.bytes = a \o b /\ w2.cap = SendCap /\ Grown(w1, w2) /\ ~w2.lost
       /\ Added(w1, w2, b)
  <2>1. Len(w1.bytes) = 2 /\ Sound(w1)
    BY <1>2, <1>14 DEF Grown
  <2>4. 2 < SendCap /\ 2 + Len(b) <= SendCap
    BY <1>2, <1>10
  <2>2. Len(w1.bytes) < w1.cap /\ Len(w1.bytes) + Len(b) <= w1.cap
    BY <1>14, <2>1, <2>4
  <2>3. w2.bytes = w1.bytes \o b /\ w2.ok /\ w2.cap = w1.cap
    BY <1>14, <2>2, PutFits
  <2>5. Grown(w1, w2) /\ (w2.ok => Added(w1, w2, b))
    BY <1>2, <2>1, PutGrows
  <2>6. w2.lost = w1.lost
    BY <2>3, <2>5 DEF Added
  <2> QED
    BY <1>14, <2>3, <2>5, <2>6
<1> HIDE DEF w2
<1>16. w3.ok /\ w3.bytes = a \o b \o c /\ w3.cap = SendCap /\ Grown(w2, w3) /\ ~w3.lost
       /\ Added(w2, w3, c)
  <2>1. Len(w2.bytes) = 4 /\ Sound(w2)
    BY <1>13, <1>15 DEF Grown
  <2>2. Len(w2.bytes) < w2.cap /\ Len(w2.bytes) + Len(c) <= w2.cap
    BY <1>3, <1>10, <1>15, <2>1
  <2>3. w3.bytes = w2.bytes \o c /\ w3.ok /\ w3.cap = w2.cap
    BY <1>15, <2>2, PutFits
  <2>5. Grown(w2, w3) /\ (w3.ok => Added(w2, w3, c))
    BY <1>3, <2>1, PutGrows
  <2>6. w3.lost = w2.lost
    BY <2>3, <2>5 DEF Added
  <2> QED
    BY <1>15, <2>3, <2>5, <2>6
<1> HIDE DEF w3
<1>17. w4.ok /\ w4.bytes = h /\ Grown(w3, w4) /\ ~w4.lost
       /\ Added(w3, w4, d)
  <2>1. Len(w3.bytes) = 5 /\ Sound(w3)
    BY <1>13, <1>16 DEF Grown
  <2>2. Len(w3.bytes) < w3.cap /\ Len(w3.bytes) + Len(d) <= w3.cap
    BY <1>2, <1>10, <1>16, <2>1
  <2>3. w4.bytes = w3.bytes \o d /\ w4.ok /\ w4.cap = w3.cap
    BY <1>16, <2>2, PutFits
  <2>5. Grown(w3, w4) /\ (w4.ok => Added(w3, w4, d))
    BY <1>2, <2>1, PutGrows
  <2>6. w4.lost = w3.lost
    BY <2>3, <2>5 DEF Added
  <2> QED
    BY <1>4, <1>16, <2>3, <2>5, <2>6
<1> HIDE DEF w4
<1>18. HeaderPut(m, len, w0, w1, w2, w3, w4)
  <2>1. Len(w0.bytes) = 0 /\ Len(w2.bytes) = 4
    BY <1>11, <1>13, <1>15
  <2> QED
    BY <1>11, <1>14, <1>15, <1>16, <1>17, <2>1 DEF HeaderPut, a, b, c, d, h
<1> QED
  BY <1>18

LEMMA NumberIsRead ==
  ASSUME NEW w, NEW w2, NEW x, x \in Int, NEW k, k \in {1, 2, 4, 8},
         NEW t, t = BigEnd(k, x), NEW s, Carried(w, w2, t, s), NEW v
  PROVE  TakeInt(After(s, w, v), k) = After(s, w2, Signed(t))
BY IntIsRead DEF Gives

\* msg_decode reads the header that msg_encode has written.
LEMMA HeaderIsRead ==
  ASSUME NEW m, Marked(m), NEW len \in Nat, len < 32768,
         NEW s \in Seq(Byte), Starts(s, Header(m, len)), 13 + len <= Len(s)
  PROVE  Gives(Decode(s), TakeBody(At(s, 13, 1), m.flag, len, m.type))
<1> DEFINE a == BigEnd(2, m.flag)
           b == BigEnd(2, len)
           c == <<m.type>>
           d == BigEnd(8, m.id)
           h == Header(m, len)
<1>1. m.flag \in Between(0, 65535) /\ m.flag \in Int /\ m.id = 1 /\ m.id \in Int32
      /\ m.id \in Int /\ m.type \in Byte
  BY DEF Marked, MSG_TYPE_REQ_JRPC, MSG_TYPE_PUBSUB, Byte, Between, Int32
<1>2. /\ a \in Seq(Byte) /\ Len(a) = 2 /\ b \in Seq(Byte) /\ Len(b) = 2
      /\ d \in Seq(Byte) /\ Len(d) = 8
  <2>1. 2 \in {1, 2, 4, 8} /\ 8 \in {1, 2, 4, 8} /\ len \in Int
    OBVIOUS
  <2> QED
    BY <1>1, <2>1, BigEndIs
<1>3. c \in Seq(Byte) /\ Len(c) = 1 /\ c[1] = m.type
  BY <1>1, ByteAlone
<1>5. h \in Seq(Byte) /\ Len(h) = 13
  BY HeaderIs
<1>6. Unsigned(a) = m.flag
  BY <1>1, UnsignedBack
<1>7. Signed(b) = len
  <2>1. len \in ShortInt
    BY DEF ShortInt, Between
  <2> QED
    BY <2>1, ShortBack
<1>8. Signed(d) = 1
  BY <1>1, LongBack
<1>9. Starts(s, h) /\ Len(s) \in Nat
  OBVIOUS
<1>10. PICK w0, w1, w2, w3, w4 : HeaderPut(m, len, w0, w1, w2, w3, w4)
  BY HeaderIsPut
<1>11. /\ Len(w0.bytes) = 0 /\ Len(w2.bytes) = 4 /\ Sound(w0)
       /\ w4.ok /\ ~w4.lost /\ w4.bytes = h
       /\ Grown(w0, w1) /\ Added(w0, w1, a) /\ Grown(w1, w2) /\ Added(w1, w2, b)
       /\ Grown(w2, w3) /\ Added(w2, w3, c) /\ Grown(w3, w4) /\ Added(w3, w4, d)
  BY <1>10 DEF HeaderPut
<1>12. Reader(s) = After(s, w0, Null)
  <2>1. Rest(s, 0) = s
    BY RestOfAll
  <2>2. Rest(s, Len(w0.bytes)) = s
    BY <1>11, <2>1
  <2> QED
    BY <2>2, AfterIsReader
<1> HIDE DEF a, b, c, d, h
<1>18. Held(w4, s)
  BY <1>9, <1>11 DEF Held, Grown, Sound
<1>19. Held(w3, s) /\ Held(w2, s) /\ Held(w1, s)
  <2>1. Held(w3, s)
    BY <1>11, <1>18, HeldBefore
  <2>2. Held(w2, s)
    BY <1>11, <2>1, HeldBefore
  <2>3. Held(w1, s)
    BY <1>11, <2>2, HeldBefore
  <2> QED
    BY <2>1, <2>2, <2>3
<1>20. /\ Carried(w0, w1, a, s) /\ Carried(w1, w2, b, s)
       /\ Carried(w2, w3, c, s) /\ Carried(w3, w4, d, s)
  <2>1. Len(a) > 0 /\ Len(b) > 0 /\ Len(c) > 0 /\ Len(d) > 0
    BY <1>2, <1>3
  <2> QED
    BY <1>2, <1>3, <1>11, <1>18, <1>19, <2>1 DEF Carried
<1> DEFINE flagR == Take(Reader(s), 2)
           lenR == TakeInt(flagR, 2)
           typeR == Take(lenR, 1)
           idR == TakeInt(typeR, 8)
<1>21. Decode(s) = IF ~lenR.ok THEN lenR
                   ELSE IF Len(lenR.bytes) < lenR.val THEN Failed(lenR)
                   ELSE IF ~idR.ok THEN idR
                   ELSE TakeBody(idR, Unsigned(flagR.val), lenR.val, typeR.val[1])
  BY DEF Decode
<1>22. flagR = After(s, w1, a)
  <2>1. Take(After(s, w0, Null), Len(a)) = After(s, w1, a)
    BY <1>20, AddedIsRead DEF Gives
  <2> QED
    BY <1>2, <1>12, <2>1
<1> HIDE DEF flagR
<1>23. lenR = After(s, w2, len)
  <2> DEFINE k == 2
  <2>1. k \in {1, 2, 4, 8} /\ len \in Int
    OBVIOUS
  <2>4. b = BigEnd(k, len) /\ k = 2
    BY DEF b
  <2> HIDE DEF k
  <2>3. TakeInt(After(s, w1, a), k) = After(s, w2, Signed(b))
    BY <1>20, <2>1, <2>4, NumberIsRead
  <2> QED
    BY <1>7, <1>22, <2>3, <2>4
<1> HIDE DEF lenR
<1>24. typeR = After(s, w3, c)
  <2>1. Take(After(s, w2, len), Len(c)) = After(s, w3, c)
    BY <1>20, AddedIsRead DEF Gives
  <2> QED
    BY <1>3, <1>23, <2>1
<1> HIDE DEF typeR
<1>25. idR = After(s, w4, 1)
  <2> DEFINE k == 8
             id == m.id
  <2>1. k \in {1, 2, 4, 8} /\ id \in Int
    BY <1>1
  <2>4. d = BigEnd(k, id) /\ k = 8
    BY DEF d
  <2> HIDE DEF k, id
  <2>3. TakeInt(After(s, w3, c), k) = After(s, w4, Signed(d))
    BY <1>20, <2>1, <2>4, NumberIsRead
  <2> QED
    BY <1>8, <1>24, <2>3, <2>4
<1> HIDE DEF idR
<1>26. lenR.ok /\ idR.ok /\ lenR.val = len /\ flagR.val = a /\ typeR.val = c
       /\ lenR.bytes = Rest(s, Len(w2.bytes))
  BY <1>22, <1>23, <1>24, <1>25, AfterIs
<1>27. ~(Len(lenR.bytes) < lenR.val)
  <2>1. Len(w2.bytes) = 4
    BY <1>11
  <2>2. 4 \in Nat /\ 4 <= Len(s)
    BY <1>9
  <2>3. Len(Rest(s, 4)) = Len(s) - 4
    BY <2>2, RestIs
  <2>4. Len(lenR.bytes) = Len(s) - 4
    BY <1>26, <2>1, <2>3
  <2> QED
    BY <1>9, <1>26, <2>4
<1>28. idR = At(s, 13, 1)
  BY <1>5, <1>11, <1>25 DEF After
<1>29. Decode(s) = TakeBody(idR, Unsigned(a), len, c[1])
  BY <1>21, <1>26, <1>27
<1> QED
  BY <1>3, <1>6, <1>28, <1>29 DEF Gives

\* The extra with extrFlag comes out last, and is the only one with its key.
LEMMA FlagArrives ==
  ASSUME NEW m, Marked(m)
  PROVE  ValueOf(ExtrasArrived(m.extras), EXTRA_KEY_FLAG) = m.extrFlag
<1> DEFINE list == m.extras
           n == Len(list)
           arrived == MapArrived[Depth]
           l == ListArrived(list, arrived)
           e == IntExtra(EXTRA_KEY_FLAG, m.extrFlag)
<1>1. /\ n \in Nat /\ n >= 1 /\ list[1] = e
      /\ \A i \in 2 .. n : list[i].key # EXTRA_KEY_FLAG
  BY DEF Marked
<1>2. ExtrasArrived(list) = l
  BY DEF ExtrasArrived
<1>3. ElementArrived(e, arrived).val = m.extrFlag /\ ElementArrived(e, arrived).key = EXTRA_KEY_FLAG
  <2>1. e.key = EXTRA_KEY_FLAG /\ e.type = PREFIX_TYPE_INT /\ e.val = m.extrFlag
    BY DEF IntExtra, Extra
  <2> HIDE DEF e, arrived
  <2>2. ElementArrived(e, arrived) = Extra(e.key, TypeOf(e), ValIn(e, arrived))
    BY ElementArrivedIs
  <2>3. ~NullPlain(e) /\ e.type # PREFIX_TYPE_MAP /\ e.type \in Scalars
    BY <2>1 DEF NullPlain, Scalars, PREFIX_TYPE_INT, PREFIX_TYPE_MAP, PREFIX_TYPE_STRINGG,
                PREFIX_TYPE_BYTEBUFFER
  <2>4. ValIn(e, arrived) = e.val
    BY <2>3 DEF ValIn, PlainVal
  <2> QED
    BY <2>1, <2>2, <2>4 DEF Extra
<1>4. l = Reversed(Arrivals(list, arrived), n)
  BY <1>1, ListArrivedIs
<1> HIDE DEF l, list, e, arrived
<1>5. Len(l) = n /\ IsSeq(l)
      /\ \A i \in 1 .. n : l[i] = Arrivals(list, arrived)[n + 1 - i]
  <2> DEFINE g == Arrivals(list, arrived)
  <2>1. IsSeq(Reversed(g, n))
    BY <1>1, ReversedGrows
  <2> HIDE DEF g, n
  <2> QED
    BY <1>1, <1>4, <2>1 DEF Reversed, g
<1>6. \A i \in 1 .. n : l[i] = ElementArrived(list[n + 1 - i], arrived)
  <2> TAKE i \in 1 .. n
  <2>1. n + 1 - i \in 1 .. n
    BY <1>1
  <2> QED
    BY <1>5, <2>1 DEF Arrivals
<1>7. l[n] = ElementArrived(e, arrived)
  <2>1. n \in 1 .. n /\ n + 1 - n = 1
    BY <1>1
  <2> QED
    BY <1>1, <1>6, <2>1
<1>8. ASSUME NEW j \in 1 .. n - 1 PROVE l[j].key # EXTRA_KEY_FLAG
  <2>1. j \in 1 .. n /\ n + 1 - j \in 2 .. n
    BY <1>1
  <2>2. l[j].key = list[n + 1 - j].key
    <3>1. ElementArrived(list[n + 1 - j], arrived).key = list[n + 1 - j].key
      BY ElementArrivedIs
    <3> QED
      BY <1>6, <2>1, <3>1
  <2> QED
    BY <1>1, <2>1, <2>2
<1>9. n \in 1 .. Len(l)
  BY <1>1, <1>5
<1>10. l[n].key = EXTRA_KEY_FLAG
  BY <1>3, <1>7
<1> HIDE DEF n
<1>11. Gives(ValueOf(l, EXTRA_KEY_FLAG), l[n].val)
  BY <1>5, <1>8, <1>9, <1>10, FoundIs
<1> QED
  BY <1>2, <1>3, <1>7, <1>11 DEF Gives, list

\* What the receiver makes of a message: the extras under keys may differ.
Received(m, r, keys) ==
  /\ r.ok
  /\ r.val.type = m.type /\ r.val.id = m.id /\ r.val.payload = m.payload
  /\ r.val.flag = m.flag /\ r.val.extrFlag = m.extrFlag
  /\ IsSeq(r.val.extras)
  /\ Without(r.val.extras, keys) = Without(ExtrasArrived(m.extras), keys)

LEMMA PayloadIsRead ==
  ASSUME NEW m, m.payload \in Payload, NEW t \in Seq(Byte), NEW n \in Nat,
         n + Len(Body(m)) = Len(t), Rest(t, n) = Body(m), NEW v
  PROVE  /\ TakePayload(At(t, n, v), Len(Body(m))).ok
         /\ TakePayload(At(t, n, v), Len(Body(m))).val = m.payload
<1> DEFINE k == Len(Body(m))
           p == SubSeq(t, n + 1, n + k)
<1>1. /\ Body(m) \in Seq(Byte) /\ k \in Nat
      /\ m.payload = Null => k = 0
      /\ m.payload # Null => Body(m) = m.payload /\ k > 0
  BY BodyIs
<1>2. CASE m.payload = Null
  <2>1. TakePayload(At(t, n, v), k) = WithVal(At(t, n, v), Null)
    BY <1>1, <1>2 DEF TakePayload
  <2> QED
    BY <1>2, <2>1 DEF WithVal, Reading, At
<1>3. CASE m.payload # Null
  <2>1. TakePayload(At(t, n, v), k) = Take(At(t, n, v), k)
    BY <1>1, <1>3 DEF TakePayload
  <2>2. n < Len(t) /\ n + k <= Len(t) /\ Len(t) \in Nat
    BY <1>1, <1>3
  <2>3. Take(At(t, n, v), k) = At(t, n + k, p)
    <3> HIDE DEF k, p
    <3>1. Take(At(t, n, v), k) = At(t, n + k, SubSeq(t, n + 1, n + k))
      BY <1>1, <2>2, TakeAt
    <3> QED
      BY <3>1 DEF p
  <2>4. p = m.payload
    <3>1. n + k = Len(t)
      OBVIOUS
    <3> QED
      BY <1>1, <1>3, <3>1 DEF Rest
  <2> HIDE DEF k, p
  <2>5. TakePayload(At(t, n, v), k).ok /\ TakePayload(At(t, n, v), k).val = p
    BY <2>1, <2>3 DEF At, Reading
  <2> QED
    BY <2>4, <2>5 DEF k
<1> QED
  BY <1>2, <1>3

LEMMA FoundNothing ==
  ASSUME NEW key
  PROVE  ValueOf(<<>>, key) = Null
<1>1. DOMAIN <<>> = {}
  OBVIOUS
<1>2. Found(<<>>, key) = {}
  BY <1>1 DEF Found
<1> QED
  BY <1>2 DEF ValueOf

\* What TakeBody does with header data that could be read.
Assembled(r, flag, type, x, data) ==
  WithVal(data, [type |-> type, id |-> r.val, flag |-> flag, extras |-> x.val,
                 payload |-> data.val, extrFlag |-> FlagsIn(x.val)])
LEMMA TakeBodyIs ==
  ASSUME NEW r, NEW flag, Field(flag, FLAG_EXTRA, 2) = 1, NEW len, NEW type,
         NEW x, x = DecodeExtras(r), x.ok, x.val # <<>>,
         NEW data, data = TakePayload(x, len - (Len(r.bytes) - Len(x.bytes))), data.ok
  PROVE  Gives(TakeBody(r, flag, len, type), Assembled(r, flag, type, x, data))
<1>1. TakeHeaderData(r, flag) = x
  BY DEF TakeHeaderData, NotNull
<1> QED
  BY <1>1 DEF TakeBody, TakeRest, WithPayload, Gives, Assembled

LEMMA BodyIsRead ==
  ASSUME NEW m, Marked(m), NEW t, Held(Ext(m), t), ~Ext(m).lost,
         Len(Ext(m).bytes) + Len(Body(m)) = Len(t), Rest(t, Len(Ext(m).bytes)) = Body(m),
         NEW keys, LongUnder(m.extras, keys), EXTRA_KEY_FLAG \notin keys
  PROVE  Received(m, TakeBody(Reading(t, TRUE, FALSE, 1), m.flag,
                              Len(Ext(m).bytes) + Len(Body(m)), m.type), keys)
<1> DEFINE w == Writer(ExtraCap)
           r == Reading(t, TRUE, FALSE, 1)
           x == DecodeExtras(r)
           e == Ext(m)
           n == Len(e.bytes)
           k == Len(Body(m))
           list == m.extras
           no == FALSE
<1>1. /\ m.payload \in Payload /\ Field(m.flag, FLAG_EXTRA, 2) = 1 /\ m.id = 1
      /\ m.extrFlag \in {16384, 18432, 49152, 51200} /\ list \in Extras
  <2>1. /\ m.payload \in Payload /\ m.flag \in {1588, 1078} /\ m.id \in {1}
        /\ m.extrFlag \in {16384, 18432, 49152, 51200} /\ list \in Extras
    BY DEF Marked
  <2> QED
    BY <2>1, FlagsAre
<1>2. t \in Seq(Byte) /\ Len(t) \in Nat
  BY DEF Held
<1>3. n \in Nat /\ k \in Nat
  BY <1>1, ExtIs, BodyIs
<1>4. ExtraCap \in Nat /\ ExtraCap <= 513 /\ ExtraCap < 32768
  BY CapsFit
<1>5. /\ Sound(w) /\ w.cap = ExtraCap /\ w.bytes = <<>>
  BY <1>4, NewWriter
<1>6. r = After(t, w, 1)
  <2>1. Len(w.bytes) = 0
    BY <1>5
  <2>2. Rest(t, 0) = t
    BY <1>2, RestOfAll
  <2>3. Rest(t, Len(w.bytes)) = t
    BY <2>1, <2>2
  <2> HIDE DEF w
  <2> QED
    BY <2>3 DEF After, At
<1>7. no \in BOOLEAN /\ ~no /\ e = EncodeExtras(w, list, no)
  BY DEF Ext
<1> HIDE DEF w, e, no, list
<1>8. ListFits(list, SmallInt, Tree[Depth], no)
  BY <1>1, <1>7, ExtrasFit
<1>9. Held(EncodeExtras(w, list, no), t) /\ ~EncodeExtras(w, list, no).lost
  BY <1>7 DEF e
<1>10. Listed(t, EncodeExtras(w, list, no), DecodeExtras(After(t, w, 1)), ExtrasArrived(list),
              ~EncodeExtras(w, list, no).lost /\ ~MapHasLong(list), keys,
              ~EncodeExtras(w, list, no).lost /\ LongUnder(list, keys))
  <2>1. w.cap <= 513
    BY <1>4, <1>5
  <2> QED
    BY <1>5, <1>7, <1>8, <1>9, <2>1, ExtrasComeBack
<1>11. LongUnder(list, keys)
  BY DEF list
<1>12. x = After(t, e, x.val) /\ Same(x.val, ExtrasArrived(list), keys)
  <2> HIDE DEF x
  <2>1. x = DecodeExtras(After(t, w, 1))
    BY <1>6 DEF x
  <2> QED
    BY <1>7, <1>9, <1>10, <1>11, <2>1 DEF Listed
<1>13. ValueOf(x.val, EXTRA_KEY_FLAG) = m.extrFlag
       /\ Without(x.val, keys) = Without(ExtrasArrived(list), keys) /\ IsSeq(x.val)
  <2>1. ValueOf(ExtrasArrived(list), EXTRA_KEY_FLAG) = m.extrFlag
    BY FlagArrives DEF list
  <2> HIDE DEF x
  <2> QED
    BY <1>12, <2>1 DEF Same
<1> HIDE DEF x
<1>14. m.extrFlag # Null
  BY <1>1, NullIsNothing
<1>15. x.val # <<>> /\ FlagsIn(x.val) = m.extrFlag
  <2>1. ValueOf(<<>>, EXTRA_KEY_FLAG) = Null
    BY FoundNothing
  <2> QED
    BY <1>13, <1>14, <2>1 DEF FlagsIn
<1>16. x.ok /\ x = At(t, n, x.val) /\ x.bytes = Rest(t, n)
  <2>1. x.ok /\ x.bytes = Rest(t, n)
    BY <1>12, AfterIs
  <2> QED
    BY <1>12, <2>1 DEF After
<1>17. Rest(t, n) = Body(m) /\ n + k = Len(t)
  BY DEF e
<1>18. (n + k) - (Len(r.bytes) - Len(x.bytes)) = k
  <2>1. Len(r.bytes) = n + k
    BY <1>17 DEF Reading
  <2>2. Len(x.bytes) = k
    BY <1>16, <1>17
  <2> HIDE DEF n, k, r
  <2> QED
    BY <1>3, <2>1, <2>2
<1> DEFINE data == TakePayload(x, (n + k) - (Len(r.bytes) - Len(x.bytes)))
<1>19. data.ok /\ data.val = m.payload
  <2>1. data = TakePayload(At(t, n, x.val), k)
    BY <1>16, <1>18
  <2> HIDE DEF data
  <2>2. TakePayload(At(t, n, x.val), k).ok /\ TakePayload(At(t, n, x.val), k).val = m.payload
    <3> HIDE DEF n
    <3> QED
      BY <1>1, <1>2, <1>3, <1>17, PayloadIsRead
  <2> QED
    BY <2>1, <2>2
<1>20. TakeBody(r, m.flag, n + k, m.type)
         = WithVal(data, [type |-> m.type, id |-> r.val, flag |-> m.flag, extras |-> x.val,
                          payload |-> data.val, extrFlag |-> FlagsIn(x.val)])
  <2>1. x = DecodeExtras(r)
    BY DEF x
  <2> DEFINE len == n + k
  <2> HIDE DEF r, len
  <2>2. data = TakePayload(x, len - (Len(r.bytes) - Len(x.bytes)))
    BY DEF len
  <2> HIDE DEF data
  <2>4. Field(m.flag, FLAG_EXTRA, 2) = 1 /\ x.ok /\ x.val # <<>> /\ data.ok
    BY <1>1, <1>15, <1>16, <1>19
  <2>3. Gives(TakeBody(r, m.flag, len, m.type), Assembled(r, m.flag, m.type, x, data))
    BY <2>1, <2>2, <2>4, TakeBodyIs
  <2> QED
    BY <2>3 DEF len, Gives, Assembled
<1> HIDE DEF data
<1>21. r.val = 1
  BY DEF Reading
<1> DEFINE b == TakeBody(r, m.flag, n + k, m.type)
<1> HIDE DEF r
<1>22. /\ b.ok /\ b.val.type = m.type /\ b.val.id = m.id /\ b.val.payload = m.payload
       /\ b.val.flag = m.flag /\ b.val.extrFlag = m.extrFlag /\ b.val.extras = x.val
  BY <1>1, <1>15, <1>19, <1>20, <1>21 DEF WithVal, Reading
<1> HIDE DEF b
<1>23. Received(m, b, keys)
  BY <1>13, <1>22 DEF Received, list
<1> QED
  BY <1>23 DEF b, r, e

\* A message comes out of msg_decode as it went into msg_encode.
LEMMA MessageIsRead ==
  ASSUME NEW m, Marked(m), EncodeMarked(m).w.ok, Len(Ext(m).bytes) < ExtraCap,
         NEW keys, LongUnder(m.extras, keys), EXTRA_KEY_FLAG \notin keys
  PROVE  Received(m, Decode(EncodeMarked(m).w.bytes), keys)
<1> DEFINE s == EncodeMarked(m).w.bytes
           e == Ext(m)
           n == Len(e.bytes)
           p == Body(m)
           k == Len(p)
           len == n + k
           h == Header(m, len)
           q == h \o e.bytes
           t == Rest(s, 13)
<1>1. /\ Sound(e) /\ e.ok /\ ~e.lost /\ e.bytes \in Seq(Byte) /\ n \in Nat /\ WrittenLen(e) = n
      /\ n <= ExtraCap
  BY ExtIs, EncodedIs
<1>2. p \in Seq(Byte) /\ k \in Nat /\ k <= ItemCap
  BY BodyIs DEF Marked
<1>3. s = q \o p
  <2>1. s = (Header(m, WrittenLen(e) + k) \o e.bytes) \o p
    BY EncodedIs
  <2> HIDE DEF s, e, n, p, k
  <2> QED
    BY <1>1, <2>1
<1>4. len \in Nat /\ len < 32768
  <2>1. ExtraCap \in Nat /\ ItemCap \in Nat /\ ExtraCap + ItemCap < 32768
    BY CapsFit DEF HeaderLen
  <2> HIDE DEF n, k
  <2> QED
    BY <1>1, <1>2, <2>1
<1> HIDE DEF s, e, p, len
<1>5. h \in Seq(Byte) /\ Len(h) = 13
  BY <1>4, HeaderIs
<1> HIDE DEF h
<1>6. q \in Seq(Byte) /\ Len(q) = 13 + n /\ Starts(q, h) /\ Rest(q, 13) = e.bytes
  <2>1. /\ Rest(h \o e.bytes, Len(h)) = e.bytes /\ Starts(h \o e.bytes, h)
        /\ h \o e.bytes \in Seq(Byte) /\ Len(h \o e.bytes) = Len(h) + Len(e.bytes)
    BY <1>1, <1>5, RestOfJoin
  <2> QED
    BY <1>5, <2>1
<1> HIDE DEF q
<1>7. s \in Seq(Byte) /\ Len(s) = (13 + n) + k /\ Starts(s, q) /\ Rest(s, 13 + n) = p
  <2>1. /\ Rest(q \o p, Len(q)) = p /\ Starts(q \o p, q)
        /\ q \o p \in Seq(Byte) /\ Len(q \o p) = Len(q) + Len(p)
    BY <1>2, <1>6, RestOfJoin
  <2> QED
    BY <1>3, <1>6, <2>1
<1>8. Starts(s, h)
  <2>1. \A i \in 1 .. Len(h) : i \in 1 .. Len(q)
    BY <1>1, <1>5, <1>6
  <2>2. Len(h) <= Len(s)
    BY <1>1, <1>2, <1>5, <1>7
  <2> QED
    BY <1>6, <1>7, <2>1, <2>2 DEF Starts
<1>9. Gives(Decode(s), TakeBody(At(s, 13, 1), m.flag, len, m.type))
  <2>1. 13 + len <= Len(s)
    BY <1>1, <1>2, <1>7 DEF len
  <2>2. Starts(s, Header(m, len))
    BY <1>8 DEF h
  <2> QED
    BY <1>4, <1>7, <2>1, <2>2, HeaderIsRead
<1>10. At(s, 13, 1) = Reading(t, TRUE, FALSE, 1)
  BY DEF At
<1>11. /\ t \in Seq(Byte) /\ Len(t) = n + k
       /\ \A i \in 1 .. Len(s) - 13 : t[i] = s[13 + i]
  <2>1. 13 \in Nat /\ 13 <= Len(s)
    BY <1>1, <1>2, <1>7
  <2>2. /\ Rest(s, 13) \in Seq(Byte) /\ Len(Rest(s, 13)) = Len(s) - 13
        /\ \A i \in 1 .. Len(s) - 13 : Rest(s, 13)[i] = s[13 + i]
    <3>1. s \in Seq(Byte)
      BY <1>7
    <3> QED
      BY <2>1, <3>1, RestIs
  <2>3. Len(s) - 13 = n + k
    BY <1>1, <1>2, <1>7
  <2> QED
    BY <2>2, <2>3
<1>12. Rest(t, n) = p
  <2>1. Rest(Rest(s, 13), n) = Rest(s, 13 + n)
    <3>1. 13 \in Nat /\ n \in Nat /\ 13 + n <= Len(s)
      BY <1>1, <1>2, <1>7
    <3> QED
      BY <1>7, <3>1, RestOfRest
  <2> QED
    BY <1>7, <2>1
<1>13. Starts(t, e.bytes)
  <2>1. /\ Len(Rest(q, 13)) = Len(q) - 13
        /\ \A i \in 1 .. Len(q) - 13 : Rest(q, 13)[i] = q[13 + i]
    <3>1. 13 \in Nat /\ 13 <= Len(q)
      BY <1>1, <1>6
    <3> QED
      BY <1>6, <3>1, RestIs
  <2>2. \A i \in 1 .. n : e.bytes[i] = q[13 + i]
    BY <1>1, <1>6, <2>1
  <2>3. \A i \in 1 .. n : s[13 + i] = q[13 + i]
    <3>1. \A i \in 1 .. n : 13 + i \in 1 .. Len(q)
      BY <1>1, <1>6
    <3> QED
      BY <1>7, <3>1 DEF Starts
  <2>4. \A i \in 1 .. n : t[i] = s[13 + i]
    <3>1. \A i \in 1 .. n : i \in 1 .. Len(s) - 13
      BY <1>1, <1>2, <1>7
    <3> QED
      BY <1>11, <3>1
  <2>5. n <= Len(t)
    BY <1>1, <1>2, <1>11
  <2> QED
    BY <2>2, <2>3, <2>4, <2>5 DEF Starts
<1> HIDE DEF t
<1>14. Held(e, t)
  BY <1>1, <1>11, <1>13 DEF Held, Sound
<1>15. Received(m, TakeBody(Reading(t, TRUE, FALSE, 1), m.flag, n + k, m.type), keys)
  BY <1>1, <1>11, <1>12, <1>14, BodyIsRead DEF e, p
<1> QED
  BY <1>9, <1>10, <1>15 DEF Gives, s, len

-----------------------------------------------------------------------------
(* Items                                                                   *)

Flags(it) == <<DataFlag(it), it.flag>> \o BigEnd(4, it.fr)

\* The fields are written one after the other.
FieldsPut(f, it) ==
  /\ SerialPsItem(it) = f[8]
  /\ f[0] = PutUnchecked(Writer(ItemCap), Flags(it))
  /\ \A k \in 1 .. 8 : f[k] = IF Present(it)[k] THEN PutField(f[k - 1], it, k) ELSE f[k - 1]

LEMMA SerialPsItemIs ==
  ASSUME NEW it
  PROVE  \E f : FieldsPut(f, it)
<1> DEFINE First == PutUnchecked(Writer(ItemCap), Flags(it))
           Step(x, k) == IF Present(it)[k] THEN PutField(x, it, k) ELSE x
           Turn(f, k) == IF k = 0 THEN First ELSE Step(f[k - 1], k)
           S == {m \in Nat : \E f : f = [k \in 0 .. m |-> Turn(f, k)]}
<1> HIDE DEF First, Step
<1>0. 8 \in Nat
  BY DepthIsNat
<1>1. 0 \in S
  <2> DEFINE f == [k \in 0 .. 0 |-> First]
  <2>1. f = [k \in 0 .. 0 |-> Turn(f, k)]
    OBVIOUS
  <2> QED
    BY <2>1
<1>2. ASSUME NEW m \in S PROVE m + 1 \in S
  <2>1. PICK f : f = [k \in 0 .. m |-> Turn(f, k)]
    OBVIOUS
  <2> DEFINE g == [k \in 0 .. (m + 1) |-> IF k = m + 1 THEN Turn(f, m + 1) ELSE f[k]]
  <2>2. \A k \in 0 .. (m + 1) : k # m + 1 => k \in 0 .. m
    OBVIOUS
  <2>3. \A k \in 0 .. m : f[k] = Turn(f, k)
    BY <2>1
  <2>4. ASSUME NEW k \in 0 .. (m + 1), k # 0 PROVE g[k - 1] = f[k - 1]
    <3>1. k - 1 \in 0 .. (m + 1) /\ k - 1 # m + 1
      BY <2>4
    <3> QED
      BY <3>1
  <2>5. ASSUME NEW k \in 0 .. (m + 1) PROVE g[k] = Turn(g, k)
    <3>1. g[k] = Turn(f, k)
      BY <2>2, <2>3
    <3>2. CASE k = 0
      BY <3>1, <3>2
    <3>3. CASE k # 0
      <4>1. g[k - 1] = f[k - 1]
        BY <2>4, <3>3
      <4> HIDE DEF g
      <4> QED
        BY <3>1, <3>3, <4>1
    <3> QED
      BY <3>2, <3>3
  <2>6. g = [k \in 0 .. (m + 1) |-> Turn(g, k)]
    BY <2>5
  <2> HIDE DEF g, Turn
  <2>7. \E h : h = [k \in 0 .. (m + 1) |-> Turn(h, k)]
    BY <2>6
  <2> QED
    BY <2>7
<1>3. S = Nat
  <2>1. S \in SUBSET Nat
    OBVIOUS
  <2> HIDE DEF S
  <2> QED
    BY <1>1, <1>2, <2>1, EveryNumber
<1>4. \E h : h = [k \in 0 .. 8 |-> Turn(h, k)]
  BY <1>0, <1>3
<1> HIDE DEF Turn, S
<1>5. PICK h : h = [k \in 0 .. 8 |-> Turn(h, k)] /\ SerialPsItem(it) = h[8]
  <2>1. \E h : h = [k \in 0 .. 8 |-> IF k = 0 THEN PutUnchecked(Writer(ItemCap), Flags(it)) ELSE IF Present(it)[k] THEN PutField(h[k - 1], it, k) ELSE h[k - 1]]
    BY <1>4 DEF Turn, First, Step
  <2>2. \E h : h = [k \in 0 .. 8 |-> IF k = 0 THEN PutUnchecked(Writer(ItemCap), Flags(it)) ELSE IF Present(it)[k] THEN PutField(h[k - 1], it, k) ELSE h[k - 1]] /\ SerialPsItem(it) = h[8]
    BY <2>1 DEF SerialPsItem, Flags
  <2> QED
    BY <2>2 DEF Turn, First, Step
<1>6. \A k \in 0 .. 8 : h[k] = Turn(h, k)
  BY <1>5
<1>7. h[0] = First
  BY <1>0, <1>6 DEF Turn
<1>8. \A k \in 1 .. 8 : h[k] = Step(h[k - 1], k)
  <2>1. \A k \in 1 .. 8 : k \in 0 .. 8 /\ k # 0
    BY <1>0
  <2> QED
    BY <1>6, <2>1 DEF Turn
<1> QED
  BY <1>5, <1>7, <1>8 DEF First, Step, FieldsPut

FieldTaken(before, i, dataFlag, flag) ==
  LET field == TakeField(before, i, TypeIn(flag))
  IN IF ~before.ok \/ Field(dataFlag, FieldBit[i], 2) = 0 THEN before
     ELSE IF ~field.ok THEN field
     ELSE WithVal(field, [before.val EXCEPT ![FieldName[i]] = field.val])

\* The fields are read one after the other.
FieldsTaken(f, r, dataFlag, flag) ==
  /\ TakeFields(r, dataFlag, flag) = f[8]
  /\ f[0] = WithVal(r, NoField(flag, r.val))
  /\ \A k \in 1 .. 8 : f[k] = FieldTaken(f[k - 1], k, dataFlag, flag)

LEMMA TakeFieldsIs ==
  ASSUME NEW r, NEW dataFlag, NEW flag
  PROVE  \E f : FieldsTaken(f, r, dataFlag, flag)
<1> DEFINE First == WithVal(r, NoField(flag, r.val))
           Step(x, k) == FieldTaken(x, k, dataFlag, flag)
           Turn(f, k) == IF k = 0 THEN First ELSE Step(f[k - 1], k)
           S == {m \in Nat : \E f : f = [k \in 0 .. m |-> Turn(f, k)]}
<1> HIDE DEF First, Step
<1>0. 8 \in Nat
  BY DepthIsNat
<1>1. 0 \in S
  <2> DEFINE f == [k \in 0 .. 0 |-> First]
  <2>1. f = [k \in 0 .. 0 |-> Turn(f, k)]
    OBVIOUS
  <2> QED
    BY <2>1
<1>2. ASSUME NEW m \in S PROVE m + 1 \in S
  <2>1. PICK f : f = [k \in 0 .. m |-> Turn(f, k)]
    OBVIOUS
  <2> DEFINE g == [k \in 0 .. (m + 1) |-> IF k = m + 1 THEN Turn(f, m + 1) ELSE f[k]]
  <2>2. \A k \in 0 .. (m + 1) : k # m + 1 => k \in 0 .. m
    OBVIOUS
  <2>3. \A k \in 0 .. m : f[k] = Turn(f, k)
    BY <2>1
  <2>4. ASSUME NEW k \in 0 .. (m + 1), k # 0 PROVE g[k - 1] = f[k - 1]
    <3>1. k - 1 \in 0 .. (m + 1) /\ k - 1 # m + 1
      BY <2>4
    <3> QED
      BY <3>1
  <2>5. ASSUME NEW k \in 0 .. (m + 1) PROVE g[k] = Turn(g, k)
    <3>1. g[k] = Turn(f, k)
      BY <2>2, <2>3
    <3>2. CASE k = 0
      BY <3>1, <3>2
    <3>3. CASE k # 0
      <4>1. g[k - 1] = f[k - 1]
        BY <2>4, <3>3
      <4> HIDE DEF g
      <4> QED
        BY <3>1, <3>3, <4>1
    <3> QED
      BY <3>2, <3>3
  <2>6. g = [k \in 0 .. (m + 1) |-> Turn(g, k)]
    BY <2>5
  <2> HIDE DEF g, Turn
  <2>7. \E h : h = [k \in 0 .. (m + 1) |-> Turn(h, k)]
    BY <2>6
  <2> QED
    BY <2>7
<1>3. S = Nat
  <2>1. S \in SUBSET Nat
    OBVIOUS
  <2> HIDE DEF S
  <2> QED
    BY <1>1, <1>2, <2>1, EveryNumber
<1>4. \E h : h = [k \in 0 .. 8 |-> Turn(h, k)]
  BY <1>0, <1>3
<1> HIDE DEF Turn, S
<1>5. PICK h : h = [k \in 0 .. 8 |-> Turn(h, k)] /\ TakeFields(r, dataFlag, flag) = h[8]
  <2>1. \E h : h = [k \in 0 .. 8 |-> IF k = 0 THEN WithVal(r, NoField(flag, r.val)) ELSE FieldTaken(h[k - 1], k, dataFlag, flag)]
    BY <1>4 DEF Turn, First, Step
  <2>2. \E h : h = [k \in 0 .. 8 |-> IF k = 0 THEN WithVal(r, NoField(flag, r.val)) ELSE FieldTaken(h[k - 1], k, dataFlag, flag)] /\ TakeFields(r, dataFlag, flag) = h[8]
    BY <2>1 DEF TakeFields, WithField, FieldTaken
  <2> QED
    BY <2>2 DEF Turn, First, Step
<1>6. \A k \in 0 .. 8 : h[k] = Turn(h, k)
  BY <1>5
<1>7. h[0] = First
  BY <1>0, <1>6 DEF Turn
<1>8. \A k \in 1 .. 8 : h[k] = Step(h[k - 1], k)
  <2>1. \A k \in 1 .. 8 : k \in 0 .. 8 /\ k # 0
    BY <1>0
  <2> QED
    BY <1>6, <2>1 DEF Turn
<1> QED
  BY <1>5, <1>7, <1>8 DEF First, Step, FieldsTaken

LEMMA ItemIs ==
  ASSUME NEW it, IsItem(it)
  PROVE  /\ it.flag \in Byte /\ it.fr \in Int32 /\ it.id \in Int32 /\ it.type \in SmallInt
         /\ it.topic \in Name \cup {Null} /\ it.srcClientId \in Int32 /\ it.to \in Int32
         /\ it.callback \in Name \cup {Null} /\ it.cxt \in Map
         /\ DataType(it) = FLAG_DATA_EXTRA /\ it.data # Null => it.data \in Map /\ it.data # <<>>
         /\ DataType(it) # FLAG_DATA_EXTRA /\ it.data # Null => it.data \in Name
<1> DEFINE data == it.data
<1>1. it \in [flag : Byte, fr : Int32, id : Int32, type : SmallInt,
              topic : Name \cup {Null}, srcClientId : Int32, to : Int32,
              callback : Name \cup {Null}, cxt : Map, data : {data}]
      /\ data \in ItemData(DataType(it))
  BY DEF IsItem
<1> HIDE DEF data
<1>2. /\ it.flag \in Byte /\ it.fr \in Int32 /\ it.id \in Int32 /\ it.type \in SmallInt
      /\ it.topic \in Name \cup {Null} /\ it.srcClientId \in Int32 /\ it.to \in Int32
      /\ it.callback \in Name \cup {Null} /\ it.cxt \in Map
  BY <1>1
<1>3. /\ DataType(it) = FLAG_DATA_EXTRA /\ data # Null => data \in Map /\ data # <<>>
      /\ DataType(it) # FLAG_DATA_EXTRA /\ data # Null => data \in Name
  BY <1>1 DEF ItemData
<1> QED
  BY <1>2, <1>3 DEF data

LEMMA MapGrows ==
  ASSUME NEW list \in Map, NEW w, Sound(w)
  PROVE  Grown(w, EncodeExtras(w, list, TRUE))
<1> DEFINE yes == TRUE
<1>1. yes \in BOOLEAN /\ yes
  OBVIOUS
<1> HIDE DEF yes
<1>2. ListFits(list, Name, Tree[Depth], yes)
  BY <1>1, MapIsFit
<1>3. Grown(w, EncodeExtras(w, list, yes))
  BY <1>2, ExtrasGrow
<1> QED
  BY <1>3 DEF yes

\* Binary data is put with its length in front.
PutBinary(w, s) ==
  LET n == PutUnchecked(w, BigEnd(2, Len(s)))
  IN IF s = <<>> THEN n ELSE Put(n, s)

LEMMA BinaryGrows ==
  ASSUME NEW s \in Name, NEW w, Sound(w)
  PROVE  Grown(w, PutBinary(w, s))
<1> DEFINE t == BigEnd(2, Len(s))
           n == PutUnchecked(w, t)
<1>1. s \in Seq(Byte) /\ Len(s) \in Nat
  BY DEF Name
<1>2. t \in Seq(Byte) /\ Len(t) = 2
  BY <1>1, LengthTwo
<1>3. Grown(w, n)
  <2> HIDE DEF t
  <2>1. Len(t) \in {1, 2}
    BY <1>2
  <2> QED
    BY <1>2, <2>1, PutUncheckedGrows
<1>4. Sound(n)
  BY <1>3 DEF Grown
<1>5. PutBinary(w, s) = IF s = <<>> THEN n ELSE Put(n, s)
  BY DEF PutBinary
<1> HIDE DEF n
<1>6. Grown(n, Put(n, s))
  BY <1>1, <1>4, PutGrows
<1>7. Grown(w, Put(n, s))
  BY <1>3, <1>6, GrownIsTransitive
<1> QED
  BY <1>3, <1>5, <1>7

LEMMA PutDataIs ==
  ASSUME NEW w, NEW it
  PROVE  /\ DataType(it) = FLAG_DATA_BIN => PutData(w, it) = PutBinary(w, it.data)
         /\ DataType(it) = FLAG_DATA_EXTRA => PutData(w, it) = EncodeExtras(w, it.data, TRUE)
         /\ DataType(it) \notin {FLAG_DATA_BIN, FLAG_DATA_EXTRA}
              => PutData(w, it) = WriteString(w, it.data)
<1>1. FLAG_DATA_BIN # FLAG_DATA_EXTRA
  BY DEF FLAG_DATA_BIN, FLAG_DATA_EXTRA
<1>2. CASE DataType(it) = FLAG_DATA_BIN
  BY <1>1, <1>2 DEF PutData, PutBinary
<1>3. CASE DataType(it) = FLAG_DATA_EXTRA
  BY <1>1, <1>3 DEF PutData
<1>4. CASE DataType(it) \notin {FLAG_DATA_BIN, FLAG_DATA_EXTRA}
  BY <1>4 DEF PutData
<1> QED
  BY <1>2, <1>3, <1>4

LEMMA PresentIs ==
  ASSUME NEW it
  PROVE  /\ Present(it)[1] = (it.id # 0) /\ Present(it)[2] = (it.type # 0)
         /\ Present(it)[3] = (it.topic # Null) /\ Present(it)[4] = (it.srcClientId # 0)
         /\ Present(it)[5] = (it.to # 0) /\ Present(it)[6] = (it.callback # Null)
         /\ Present(it)[7] = (it.cxt # <<>>) /\ Present(it)[8] = (it.data # Null)
<1> DEFINE f == Present(it)
<1>1. f = <<it.id # 0, it.type # 0, it.topic # Null, it.srcClientId # 0, it.to # 0,
            it.callback # Null, it.cxt # <<>>, it.data # Null>>
  BY DEF Present
<1>2. /\ f[1] = (it.id # 0) /\ f[2] = (it.type # 0) /\ f[3] = (it.topic # Null)
      /\ f[4] = (it.srcClientId # 0) /\ f[5] = (it.to # 0) /\ f[6] = (it.callback # Null)
      /\ f[7] = (it.cxt # <<>>) /\ f[8] = (it.data # Null)
  BY <1>1
<1> QED
  BY <1>2

LEMMA FieldGrows ==
  ASSUME NEW it, IsItem(it), NEW i \in 1 .. 8, Present(it)[i], NEW w, Sound(w)
  PROVE  Grown(w, PutField(w, it, i))
<1>1. /\ it.id \in Int /\ it.type \in Int /\ it.srcClientId \in Int /\ it.to \in Int
      /\ it.topic \in Name \cup {Null} /\ it.callback \in Name \cup {Null} /\ it.cxt \in Map
      /\ DataType(it) = FLAG_DATA_EXTRA /\ it.data # Null => it.data \in Map
      /\ DataType(it) # FLAG_DATA_EXTRA /\ it.data # Null => it.data \in Name
  BY ItemIs DEF Int32, SmallInt, Between
<1>2. ASSUME NEW n \in {1, 2, 4, 8}, NEW v \in Int PROVE Grown(w, Put(w, BigEnd(n, v)))
  BY BigEndIs, PutGrows
<1>3. ASSUME NEW s \in Name \cup {Null} PROVE Grown(w, WriteString(w, s))
  BY StringGrows
<1>4. 1 \in {1, 2, 4, 8} /\ 4 \in {1, 2, 4, 8} /\ 8 \in {1, 2, 4, 8}
  OBVIOUS
<1>5. CASE i = 1
  BY <1>1, <1>2, <1>4, <1>5 DEF PutField
<1>6. CASE i = 2
  BY <1>1, <1>2, <1>4, <1>6 DEF PutField
<1>7. CASE i = 3
  BY <1>1, <1>3, <1>7 DEF PutField
<1>8. CASE i = 4
  BY <1>1, <1>2, <1>4, <1>8 DEF PutField
<1>9. CASE i = 5
  BY <1>1, <1>2, <1>4, <1>9 DEF PutField
<1>10. CASE i = 6
  BY <1>1, <1>3, <1>10 DEF PutField
<1>11. CASE i = 7
  <2>1. PutField(w, it, i) = EncodeExtras(w, it.cxt, TRUE)
    BY <1>11 DEF PutField
  <2>2. Grown(w, EncodeExtras(w, it.cxt, TRUE))
    BY <1>1, MapGrows
  <2> QED
    BY <2>1, <2>2
<1>12. CASE i = 8
  <2>1. it.data # Null
    BY <1>12, PresentIs
  <2>2. PutField(w, it, i) = PutData(w, it)
    BY <1>12 DEF PutField
  <2>3. CASE DataType(it) = FLAG_DATA_BIN
    <3>1. it.data \in Name
      BY <1>1, <2>1, <2>3 DEF FLAG_DATA_BIN, FLAG_DATA_EXTRA
    <3> QED
      BY <2>2, <2>3, <3>1, BinaryGrows, PutDataIs
  <2>4. CASE DataType(it) = FLAG_DATA_EXTRA
    <3>1. PutField(w, it, i) = EncodeExtras(w, it.data, TRUE)
      BY <2>2, <2>4, PutDataIs
    <3>2. Grown(w, EncodeExtras(w, it.data, TRUE))
      BY <1>1, <2>1, <2>4, MapGrows
    <3> QED
      BY <3>1, <3>2
  <2>5. CASE DataType(it) \notin {FLAG_DATA_BIN, FLAG_DATA_EXTRA}
    <3>1. it.data \in Name
      BY <1>1, <2>1, <2>5
    <3> QED
      BY <1>3, <2>2, <2>5, <3>1, PutDataIs
  <2> QED
    BY <2>3, <2>4, <2>5
<1>13. i \in {1, 2, 3, 4, 5, 6, 7, 8}
  OBVIOUS
<1> QED
  BY <1>5, <1>6, <1>7, <1>8, <1>9, <1>10, <1>11, <1>12, <1>13

LEMMA FlagsTyped ==
  ASSUME NEW it, IsItem(it)
  PROVE  DataFlag(it) \in Byte /\ Flags(it) \in Seq(Byte) /\ Len(Flags(it)) = 6
<1> DEFINE b == [i \in 1 .. 8 |-> DataBit(it, i)]
           a == <<DataFlag(it), it.flag>>
           c == BigEnd(4, it.fr)
<1>1. \A i \in 1 .. 8 : DataBit(it, i) \in {0, FieldBit[i]}
  BY DEF DataBit
<1>2. /\ DataBit(it, 1) \in {0, 1} /\ DataBit(it, 2) \in {0, 2} /\ DataBit(it, 3) \in {0, 4}
      /\ DataBit(it, 4) \in {0, 8} /\ DataBit(it, 5) \in {0, 16} /\ DataBit(it, 6) \in {0, 32}
      /\ DataBit(it, 7) \in {0, 64} /\ DataBit(it, 8) \in {0, 128}
  BY <1>1 DEF FieldBit
<1>3. DataFlag(it) \in Int /\ 0 <= DataFlag(it) /\ DataFlag(it) <= 255
  BY <1>2 DEF DataFlag
<1>4. DataFlag(it) \in Byte
  BY <1>3, SmallIsByte
<1>5. it.flag \in Byte /\ it.fr \in Int
  BY ItemIs DEF Int32, Between
<1>6. a \in Seq(Byte) /\ Len(a) = 2
  BY <1>4, <1>5
<1>7. c \in Seq(Byte) /\ Len(c) = 4
  <2>1. 4 \in {1, 2, 4, 8}
    OBVIOUS
  <2> QED
    BY <1>5, <2>1, BigEndIs
<1>8. Flags(it) = a \o c
  BY DEF Flags
<1> HIDE DEF a, c
<1>9. a \o c \in Seq(Byte) /\ Len(a \o c) = Len(a) + Len(c)
  BY <1>6, <1>7, JoinedBytes
<1> QED
  BY <1>4, <1>6, <1>7, <1>8, <1>9

\* What SerialPsItem has written before its first field, and after each.
LEMMA FieldsGrow ==
  ASSUME NEW it, IsItem(it), NEW f, FieldsPut(f, it)
  PROVE  /\ Sound(f[0]) /\ f[0].ok /\ ~f[0].lost /\ f[0].bytes = Flags(it) /\ f[0].cap = ItemCap
         /\ \A k \in 1 .. 8 : Sound(f[k - 1]) /\ Sound(f[k]) /\ Grown(f[k - 1], f[k])
         /\ \A k \in 0 .. 8 : Sound(f[k]) /\ Grown(f[k], f[8]) /\ f[k].cap = ItemCap
<1> DEFINE w == Writer(ItemCap)
           t == Flags(it)
<1>1. ItemCap \in Nat /\ ItemCap < 32768 /\ 6 <= ItemCap
  BY CapsFit
<1>2. Sound(w) /\ w.ok /\ ~w.lost /\ w.bytes = <<>> /\ w.cap = ItemCap
  BY <1>1, NewWriter
<1>3. t \in Seq(Byte) /\ Len(t) = 6
  BY FlagsTyped
<1> HIDE DEF w, t
<1>4. Room(w, Len(t))
  <2>1. Len(w.bytes) = 0
    BY <1>2
  <2> QED
    BY <1>1, <1>2, <1>3, <2>1 DEF Room
<1>5. f[0] = Put(w, t)
  <2>1. f[0] = PutUnchecked(w, t)
    BY DEF FieldsPut, w, t
  <2> QED
    BY <1>4, <2>1 DEF PutUnchecked
<1>6. f[0].bytes = t /\ f[0].ok /\ f[0].cap = ItemCap
  <2>1. Len(w.bytes) < w.cap /\ Len(w.bytes) + Len(t) <= w.cap
    BY <1>4 DEF Room
  <2>2. Put(w, t).bytes = w.bytes \o t /\ Put(w, t).ok /\ Put(w, t).cap = w.cap
    BY <1>2, <2>1, PutFits
  <2>3. <<>> \o t = t
    BY <1>3
  <2> QED
    BY <1>2, <1>5, <2>2, <2>3
<1>7. Grown(w, f[0]) /\ (f[0].ok => Added(w, f[0], t))
  BY <1>2, <1>3, <1>5, PutGrows
<1>8. Sound(f[0]) /\ ~f[0].lost
  <2>1. f[0].lost = w.lost
    BY <1>6, <1>7 DEF Added
  <2> QED
    BY <1>2, <1>7, <2>1 DEF Grown
<1>9. ASSUME NEW k \in 1 .. 8, Sound(f[k - 1]) PROVE Grown(f[k - 1], f[k])
  <2>1. f[k] = IF Present(it)[k] THEN PutField(f[k - 1], it, k) ELSE f[k - 1]
    BY DEF FieldsPut
  <2>2. CASE Present(it)[k]
    BY <1>9, <2>1, <2>2, FieldGrows
  <2>3. CASE ~Present(it)[k]
    BY <1>9, <2>1, <2>3, GrownIsReflexive
  <2> QED
    BY <2>2, <2>3
<1>10. ASSUME NEW k \in 1 .. 8, Sound(f[k - 1]) PROVE Sound(f[k]) /\ f[k].cap = f[k - 1].cap
  BY <1>9, <1>10 DEF Grown
<1>11. /\ Sound(f[0]) /\ Sound(f[1]) /\ Sound(f[2]) /\ Sound(f[3]) /\ Sound(f[4])
       /\ Sound(f[5]) /\ Sound(f[6]) /\ Sound(f[7]) /\ Sound(f[8])
       /\ f[0].cap = ItemCap /\ f[1].cap = ItemCap /\ f[2].cap = ItemCap
       /\ f[3].cap = ItemCap /\ f[4].cap = ItemCap /\ f[5].cap = ItemCap
       /\ f[6].cap = ItemCap /\ f[7].cap = ItemCap /\ f[8].cap = ItemCap
  <2>1. ASSUME NEW k \in 1 .. 8, NEW j, j = k - 1, Sound(f[j])
        PROVE  Sound(f[k]) /\ f[k].cap = f[j].cap
    BY <1>10, <2>1
  <2>2. Sound(f[1]) /\ f[1].cap = f[0].cap
    BY <1>8, <2>1
  <2>3. Sound(f[2]) /\ f[2].cap = f[1].cap
    BY <2>1, <2>2
  <2>4. Sound(f[3]) /\ f[3].cap = f[2].cap
    BY <2>1, <2>3
  <2>5. Sound(f[4]) /\ f[4].cap = f[3].cap
    BY <2>1, <2>4
  <2>6. Sound(f[5]) /\ f[5].cap = f[4].cap
    BY <2>1, <2>5
  <2>7. Sound(f[6]) /\ f[6].cap = f[5].cap
    BY <2>1, <2>6
  <2>8. Sound(f[7]) /\ f[7].cap = f[6].cap
    BY <2>1, <2>7
  <2>9. Sound(f[8]) /\ f[8].cap = f[7].cap
    BY <2>1, <2>8
  <2> QED
    BY <1>6, <1>8, <2>2, <2>3, <2>4, <2>5, <2>6, <2>7, <2>8, <2>9
<1>12. ASSUME NEW k \in 0 .. 8 PROVE Sound(f[k]) /\ f[k].cap = ItemCap
  <2>1. k \in {0, 1, 2, 3, 4, 5, 6, 7, 8}
    OBVIOUS
  <2> QED
    BY <1>11, <2>1
<1>13. ASSUME NEW k \in 1 .. 8 PROVE Sound(f[k - 1]) /\ Sound(f[k]) /\ Grown(f[k - 1], f[k])
  <2>1. k - 1 \in 0 .. 8 /\ k \in 0 .. 8
    OBVIOUS
  <2>2. Sound(f[k - 1]) /\ Sound(f[k])
    BY <1>12, <2>1
  <2> QED
    BY <1>9, <2>2
<1>14. ASSUME NEW k \in 0 .. 8 PROVE Grown(f[k], f[8])
  <2>1. Grown(f[8], f[8])
    BY <1>11, GrownIsReflexive
  <2>2. ASSUME NEW j \in 1 .. 8, NEW i, i = j - 1, Grown(f[j], f[8]) PROVE Grown(f[i], f[8])
    <3>1. Grown(f[i], f[j])
      BY <1>13, <2>2
    <3> QED
      BY <2>2, <3>1, GrownIsTransitive
  <2>3. Grown(f[7], f[8])
    BY <2>1, <2>2
  <2>4. Grown(f[6], f[8])
    BY <2>2, <2>3
  <2>5. Grown(f[5], f[8])
    BY <2>2, <2>4
  <2>6. Grown(f[4], f[8])
    BY <2>2, <2>5
  <2>7. Grown(f[3], f[8])
    BY <2>2, <2>6
  <2>8. Grown(f[2], f[8])
    BY <2>2, <2>7
  <2>9. Grown(f[1], f[8])
    BY <2>2, <2>8
  <2>10. Grown(f[0], f[8])
    BY <2>2, <2>9
  <2>11. k \in {0, 1, 2, 3, 4, 5, 6, 7, 8}
    OBVIOUS
  <2> QED
    BY <2>1, <2>3, <2>4, <2>5, <2>6, <2>7, <2>8, <2>9, <2>10, <2>11
<1> QED
  BY <1>6, <1>8, <1>12, <1>13, <1>14 DEF t

\* What client_publishPubsubItem sends is a payload.
LEMMA ItemIsPayload ==
  ASSUME NEW it, IsItem(it)
  PROVE  IF SerialPsItem(it).ok THEN SerialPsItem(it).bytes \in Payload ELSE TRUE
<1>1. PICK f : FieldsPut(f, it)
  BY SerialPsItemIs
<1>2. f[8] = SerialPsItem(it)
  BY <1>1 DEF FieldsPut
<1>3. /\ f[0].bytes = Flags(it) /\ Grown(f[0], f[8]) /\ Sound(f[8]) /\ f[8].cap = ItemCap
  <2>1. 0 \in 0 .. 8 /\ 8 \in 0 .. 8
    OBVIOUS
  <2> QED
    BY <1>1, <2>1, FieldsGrow
<1>4. Len(f[0].bytes) = 6
  BY <1>3, FlagsTyped
<1>5. f[8].bytes \in Seq(Byte) /\ Len(f[8].bytes) <= ItemCap /\ Len(f[8].bytes) \in Nat
  BY <1>3 DEF Sound, WriterState
<1>6. 6 <= Len(f[8].bytes)
  BY <1>3, <1>4 DEF Grown, Starts
<1>7. f[8].bytes # <<>>
  BY <1>6
<1>8. f[8].bytes \in Payload
  BY <1>5, <1>7 DEF Payload
<1> QED
  BY <1>2, <1>8

\* What client_invokeRpc sends is a payload.
LEMMA ParamIsPayload ==
  ASSUME NEW K, NEW e \in ExtraIn(K, Tree[Depth]), NEW w, w = EncodeExtra(Writer(ParamCap), e)
  PROVE  /\ Sound(w)
         /\ w.ok => w.bytes \in Payload
<1> DEFINE v == Writer(ParamCap)
<1>1. ParamCap \in Nat /\ ParamCap < 32768 /\ ParamCap <= ItemCap /\ ItemCap \in Nat
  BY CapsFit
<1>2. Sound(v) /\ v.bytes = <<>> /\ v.cap = ParamCap
  BY <1>1, NewWriter
<1> HIDE DEF v
<1>3. /\ Grown(v, PutParam(v, e, PutInner[Depth]))
      /\ PutParam(v, e, PutInner[Depth]).ok
           => Len(PutParam(v, e, PutInner[Depth]).bytes) > Len(v.bytes)
  <2>1. Depth \in 0 .. Depth
    BY DepthIsNat
  <2>2. KeysNamed(Tree[Depth]) /\ InnerGrows(Tree[Depth], PutInner[Depth])
    BY <2>1, TreesNamed, PutInnerGrows
  <2> QED
    BY <1>2, <2>2, ParamGrows
<1>4. w = PutParam(v, e, PutInner[Depth])
  BY DEF EncodeExtra, v
<1>5. Sound(w) /\ w.cap = ParamCap /\ (w.ok => Len(w.bytes) > Len(v.bytes))
  BY <1>2, <1>3, <1>4 DEF Grown
<1>6. w.bytes \in Seq(Byte) /\ Len(w.bytes) <= ParamCap /\ Len(w.bytes) \in Nat
  BY <1>5 DEF Sound, WriterState
<1>7. Len(v.bytes) = 0
  BY <1>2
<1>8. w.ok => w.bytes # <<>>
  BY <1>5, <1>6, <1>7
<1>9. Len(w.bytes) <= ItemCap
  BY <1>1, <1>6
<1> QED
  BY <1>5, <1>6, <1>8, <1>9 DEF Payload

-----------------------------------------------------------------------------
(* The inductive invariant                                                 *)

\* What the program asked for, and what the message is made of.
RpcPayload(n) ==
  IF Params[n] = <<>> THEN Writer(ParamCap)
  ELSE EncodeExtra(Writer(ParamCap), Params[n][1])
Made ==
  \/ /\ msg.type = MSG_TYPE_REQ_JRPC /\ asked \in DOMAIN Params
     /\ payload = RpcPayload(asked) /\ payload.ok
     /\ msg.payload = IF Params[asked] = <<>> THEN Null ELSE payload.bytes
  \/ /\ msg.type = MSG_TYPE_PUBSUB /\ asked \in DOMAIN Items
     /\ payload = SerialPsItem(Items[asked])
     /\ msg.payload = IF payload.ok THEN payload.bytes ELSE Null

Decoded == Decode(wire.w.bytes)
Parsed(m) ==
  IF m.type = MSG_TYPE_PUBSUB THEN ParseItem(m) ELSE DecodeExtra(Reader(m.payload))

\* The inductive invariant: the history of the message, stage by stage.
MessageInv ==
  /\ stage \in {"idle", "made", "refused", "sent", "unread", "received", "noted", "parsed",
                "crashed"}
  /\ stage = "made" => Made /\ Draft(msg)
  /\ stage \in {"sent", "unread", "received", "noted", "parsed", "crashed"} =>
       /\ Made /\ Marked(msg)
       /\ wire = [ext |-> Ext(msg), w |-> EncodeMarked(msg).w] /\ wire.w.ok
  /\ stage = "unread" => ~Decoded.ok
  /\ stage = "received" => Decoded.ok /\ got = [msg |-> Decoded.val, from |-> Null]
  /\ stage \in {"noted", "parsed", "crashed"} =>
       /\ Decoded.ok
       /\ \/ got = [msg |-> Decoded.val, from |-> Null]
          \/ got.from \in Sources /\ got.msg = NoteSource(Decoded.val, got.from)
  /\ IF stage = "parsed" THEN got.msg.payload # Null /\ value = Parsed(got.msg)
     ELSE value = Reader(<<>>)
  /\ stage = "crashed" => got.msg.payload = Null /\ got.msg.type = MSG_TYPE_PUBSUB

LEMMA InitInv == Init => MessageInv
<1> QED
  BY DEF Init, MessageInv

LEMMA InvokeRpcInv ==
  ASSUME MessageInv, NEW n \in DOMAIN Params, InvokeRpc(n)
  PROVE  MessageInv'
<1> DEFINE data == IF Params[n] = <<>> THEN Null ELSE payload'.bytes
           m == [NewMsg(MSG_TYPE_REQ_JRPC, data) EXCEPT
                   !.extrFlag = SetBit(@, EXTRA_FLAG_RPC_MCODE, TRUE),
                   !.extras = PutExtra(@, IntExtra(EXTRA_KEY_SM_CODE, 7))]
<1>1. value' = Reader(<<>>)
  BY DEF InvokeRpc, MessageInv
<1>2. payload' = RpcPayload(n) /\ asked' = n
  BY DEF InvokeRpc, RpcPayload
<1>3. CASE ~payload'.ok
  <2>1. stage' = "refused"
    BY <1>3 DEF InvokeRpc
  <2> QED
    BY <1>1, <2>1 DEF MessageInv
<1>4. CASE payload'.ok
  <2>1. stage' = "made" /\ msg' = m
    BY <1>4 DEF InvokeRpc
  <2>2. data \in Payload
    <3>1. CASE Params[n] = <<>>
      BY <3>1 DEF Payload
    <3>2. CASE Params[n] # <<>>
      <4>1. Params[n] \in Seq(ExtraIn(Name \cup {Null}, Tree[Depth]))
        <5> DEFINE S == Seq(ExtraIn(Name \cup {Null}, Tree[Depth]))
        <5>1. Params \in Seq(S)
          BY InputsTyped
        <5> HIDE DEF S
        <5>2. Params[n] \in S
          BY <5>1
        <5> QED
          BY <5>2 DEF S
      <4>2. Params[n][1] \in ExtraIn(Name \cup {Null}, Tree[Depth])
        <5> DEFINE S == ExtraIn(Name \cup {Null}, Tree[Depth])
        <5>1. Params[n] \in Seq(S)
          BY <4>1
        <5> HIDE DEF S
        <5>2. Params[n][1] \in S
          BY <5>1, <3>2
        <5> QED
          BY <5>2 DEF S
      <4>3. payload' = EncodeExtra(Writer(ParamCap), Params[n][1])
        BY <1>2, <3>2 DEF RpcPayload
      <4>4. payload'.bytes \in Payload
        BY <1>4, <4>2, <4>3, ParamIsPayload
      <4> QED
        BY <3>2, <4>4
    <3> QED
      BY <3>1, <3>2
  <2> HIDE DEF data
  <2>3. Draft(m) /\ m.payload = data /\ m.type = MSG_TYPE_REQ_JRPC
    BY <2>2, RpcDraft
  <2> HIDE DEF m
  <2>4. Draft(msg') /\ msg'.payload = data /\ msg'.type = MSG_TYPE_REQ_JRPC
    BY <2>1, <2>3
  <2>5. Draft(msg)'
    BY <2>4 DEF Draft
  <2>6. msg'.payload = IF Params[n] = <<>> THEN Null ELSE payload'.bytes
    BY <2>4 DEF data
  <2>7. Made'
    BY <1>2, <1>4, <2>4, <2>6 DEF Made, RpcPayload
  <2> QED
    BY <1>1, <2>1, <2>5, <2>7 DEF MessageInv
<1> QED
  BY <1>3, <1>4

LEMMA PublishInv ==
  ASSUME MessageInv, NEW n \in DOMAIN Items, NEW h \in DOMAIN Headers, Publish(n, Headers[h])
  PROVE  MessageInv'
<1> DEFINE data == IF payload'.ok THEN payload'.bytes ELSE Null
           ack == ValueOf(Headers[h], EXTRA_KEY_UDP_ACK) \notin {Null, 0}
           m == [NewMsg(MSG_TYPE_PUBSUB, data) EXCEPT
                   !.flag = SetProtocols(@, PROTOCOL_RAW, PROTOCOL_BIN),
                   !.extras = Headers[h] \o @,
                   !.extrFlag = SetBit(@, EXTRA_FLAG_UDP, ack)]
<1>1. value' = Reader(<<>>)
  BY DEF Publish, MessageInv
<1>2. payload' = SerialPsItem(Items[n]) /\ asked' = n /\ stage' = "made" /\ msg' = m
  BY DEF Publish
<1>3. data \in Payload
  <2>1. IsItem(Items[n])
    BY InputsTyped
  <2>2. IF payload'.ok THEN payload'.bytes \in Payload ELSE TRUE
    BY <1>2, <2>1, ItemIsPayload
  <2> QED
    BY <2>2 DEF Payload
<1>4. Headers[h] \in Extras /\ Distinct(Headers[h])
  BY InputsTyped
<1>5. ack \in BOOLEAN
  OBVIOUS
<1> HIDE DEF data, ack
<1>6. Draft(m) /\ m.payload = data /\ m.type = MSG_TYPE_PUBSUB
  BY <1>3, <1>4, <1>5, ItemDraft
<1> HIDE DEF m
<1>7. Draft(msg') /\ msg'.payload = data /\ msg'.type = MSG_TYPE_PUBSUB
  BY <1>2, <1>6
<1>8. Draft(msg)'
  BY <1>7 DEF Draft
<1>9. msg'.payload = IF payload'.ok THEN payload'.bytes ELSE Null
  BY <1>7 DEF data
<1>10. Made'
  BY <1>2, <1>7, <1>9 DEF Made
<1> QED
  BY <1>1, <1>2, <1>8, <1>10 DEF MessageInv

LEMMA SendMessageInv ==
  ASSUME MessageInv, NEW key \in LoginKeys, NEW useUdp \in BOOLEAN, SendMessage(key, useUdp)
  PROVE  MessageInv'
<1> DEFINE d == ToSend(msg, key, useUdp)
           m == MarkExtras(WithFlags(d))
           e == EncodeMarked(m)
<1>1. stage = "made" /\ Made /\ Draft(msg) /\ value = Reader(<<>>)
  BY DEF MessageInv, SendMessage
<1>2. /\ stage' = IF e.w.ok THEN "sent" ELSE "refused"
      /\ msg' = e.msg /\ wire' = [ext |-> e.ext, w |-> e.w]
      /\ asked' = asked /\ payload' = payload /\ value' = value
  BY DEF SendMessage, Encode
<1>3. key \in Name \cup {Null}
  BY InputsTyped
<1>4. Draft(d) /\ d.payload = msg.payload /\ d.type = msg.type
  BY <1>1, <1>3, ToSendIs
<1> HIDE DEF d
<1>5. Marked(m) /\ m.payload = msg.payload /\ m.type = msg.type
  BY <1>4, MarkedIs
<1> HIDE DEF m
<1>6. e.msg = m /\ e.ext = Ext(m)
  BY <1>5, EncodedIs
<1>7. CASE ~e.w.ok
  BY <1>1, <1>2, <1>7 DEF MessageInv
<1>8. CASE e.w.ok
  <2>1. stage' = "sent" /\ msg' = m /\ wire' = [ext |-> Ext(m), w |-> EncodeMarked(m).w]
        /\ wire'.w.ok
    BY <1>2, <1>6, <1>8
  <2>2. Marked(msg)'
    BY <1>5, <2>1 DEF Marked
  <2>3. (wire = [ext |-> Ext(msg), w |-> EncodeMarked(msg).w])'
    BY <2>1 DEF Ext
  <2>4. Made'
    BY <1>1, <1>2, <1>5, <2>1 DEF Made, RpcPayload
  <2> QED
    BY <1>1, <1>2, <2>1, <2>2, <2>3, <2>4 DEF MessageInv
<1> QED
  BY <1>7, <1>8

AsSent ==
  /\ Made /\ Marked(msg)
  /\ wire = [ext |-> Ext(msg), w |-> EncodeMarked(msg).w] /\ wire.w.ok

LEMMA StillAsSent ==
  ASSUME AsSent, UNCHANGED <<asked, payload, msg, wire>>
  PROVE  AsSent' /\ Decoded' = Decoded
<1>1. asked' = asked /\ payload' = payload /\ msg' = msg /\ wire' = wire
  OBVIOUS
<1>2. Made'
  BY <1>1 DEF AsSent, Made, RpcPayload
<1>3. Marked(msg)'
  BY <1>1 DEF AsSent, Marked
<1> QED
  BY <1>1, <1>2, <1>3 DEF AsSent, Ext, Decoded

LEMMA ReceiveInv ==
  ASSUME MessageInv, Receive
  PROVE  MessageInv'
<1>1. AsSent /\ value = Reader(<<>>)
  BY DEF MessageInv, Receive, AsSent
<1>2. AsSent' /\ Decoded' = Decoded
  BY <1>1, StillAsSent DEF Receive
<1>3. value' = Reader(<<>>)
  BY <1>1 DEF Receive
<1>4. IF Decoded.ok THEN stage' = "received" /\ got' = [msg |-> Decoded.val, from |-> Null]
      ELSE stage' = "unread"
  BY DEF Receive, Decoded
<1> QED
  BY <1>2, <1>3, <1>4 DEF MessageInv, AsSent

LEMMA ComesByUdpInv ==
  ASSUME MessageInv, NEW source \in Sources, ComesByUdp(source)
  PROVE  MessageInv'
<1>1. AsSent /\ value = Reader(<<>>) /\ Decoded.ok /\ got = [msg |-> Decoded.val, from |-> Null]
  BY DEF MessageInv, ComesByUdp, AsSent
<1>2. AsSent' /\ Decoded' = Decoded
  BY <1>1, StillAsSent DEF ComesByUdp
<1>3. value' = Reader(<<>>) /\ stage' = "noted"
      /\ got' = [msg |-> NoteSource(Decoded.val, source), from |-> source]
  BY <1>1 DEF ComesByUdp
<1>4. (got.from \in Sources /\ got.msg = NoteSource(Decoded.val, got.from))'
  BY <1>2, <1>3
<1> QED
  BY <1>1, <1>2, <1>3, <1>4 DEF MessageInv, AsSent

LEMMA ParseInv ==
  ASSUME MessageInv, Parse
  PROVE  MessageInv'
<1>1. /\ AsSent /\ Decoded.ok /\ value = Reader(<<>>)
      /\ \/ got = [msg |-> Decoded.val, from |-> Null]
         \/ got.from \in Sources /\ got.msg = NoteSource(Decoded.val, got.from)
  BY DEF MessageInv, Parse, AsSent
<1>2. AsSent' /\ Decoded' = Decoded
  BY <1>1, StillAsSent DEF Parse
<1>3. got' = got
  BY DEF Parse
<1>4. \/ /\ stage' = "crashed" /\ value' = value
         /\ got.msg.payload = Null /\ got.msg.type = MSG_TYPE_PUBSUB
      \/ stage' = "parsed" /\ value' = Parsed(got.msg) /\ got.msg.payload # Null
  BY DEF Parse, Parsed
<1>5. (\/ got = [msg |-> Decoded.val, from |-> Null]
       \/ got.from \in Sources /\ got.msg = NoteSource(Decoded.val, got.from))'
  BY <1>1, <1>2, <1>3
<1>6. Parsed(got.msg)' = Parsed(got.msg)
  BY <1>3 DEF Parsed
<1> QED
  BY <1>1, <1>2, <1>3, <1>4, <1>5, <1>6 DEF MessageInv, AsSent

\* Whatever is asked for, however it is sent and wherever it comes from, the
\* message in each stage is what the calls before have made of what was asked.
THEOREM MessageInvariant == Spec => []MessageInv
<1>1. Init => MessageInv
  BY InitInv
<1>2. MessageInv /\ [Next]_vars => MessageInv'
  <2> SUFFICES ASSUME MessageInv, [Next]_vars PROVE MessageInv'
    OBVIOUS
  <2>1. ASSUME NEW n \in DOMAIN Params, InvokeRpc(n) PROVE MessageInv'
    BY <2>1, InvokeRpcInv
  <2>2. ASSUME NEW n \in DOMAIN Items, NEW h \in DOMAIN Headers, Publish(n, Headers[h])
        PROVE  MessageInv'
    BY <2>2, PublishInv
  <2>3. ASSUME NEW key \in LoginKeys, NEW useUdp \in BOOLEAN, SendMessage(key, useUdp)
        PROVE  MessageInv'
    BY <2>3, SendMessageInv
  <2>4. CASE Receive
    BY <2>4, ReceiveInv
  <2>5. ASSUME NEW source \in Sources, ComesByUdp(source) PROVE MessageInv'
    BY <2>5, ComesByUdpInv
  <2>6. CASE Parse
    BY <2>6, ParseInv
  <2>7. CASE UNCHANGED vars
    <3>1. stage' = stage /\ asked' = asked /\ payload' = payload /\ msg' = msg
          /\ wire' = wire /\ got' = got /\ value' = value
      BY <2>7 DEF vars
    <3>2. Made' = Made /\ Draft(msg)' = Draft(msg) /\ Marked(msg)' = Marked(msg)
      BY <3>1 DEF Made, RpcPayload, Draft, Marked
    <3>3. Decoded' = Decoded /\ Parsed(got.msg)' = Parsed(got.msg) /\ Ext(msg)' = Ext(msg)
          /\ EncodeMarked(msg)' = EncodeMarked(msg)
      BY <3>1 DEF Decoded, Parsed, Ext
    <3> QED
      BY <3>1, <3>2, <3>3 DEF MessageInv
  <2> QED
    BY <2>1, <2>2, <2>3, <2>4, <2>5, <2>6, <2>7 DEF Next
<1> QED
  BY <1>1, <1>2, PTL DEF Spec

-----------------------------------------------------------------------------
(* What arrives                                                            *)

\* The flags that msg_encode puts in front are an extra without a string.
LEMMA FlagIsShort ==
  ASSUME NEW m, Marked(m), NEW keys,
         \A key \in keys : \E i \in 1 .. Len(m.extras) :
           HasLong(m.extras[i]) /\ key = m.extras[i].key
  PROVE  EXTRA_KEY_FLAG \notin keys
<1>1. m.extrFlag \in Int32 /\ EXTRA_KEY_FLAG \in SmallInt
  BY ExtrasTyped DEF Marked
<1>2. ~HasLong(m.extras[1])
  BY <1>1, ExtrasTyped DEF Marked
<1>3. \A i \in 1 .. Len(m.extras) : i = 1 \/ i \in 2 .. Len(m.extras)
  BY DEF Marked
<1>4. \A i \in 1 .. Len(m.extras) : HasLong(m.extras[i]) => m.extras[i].key # EXTRA_KEY_FLAG
  BY <1>2, <1>3 DEF Marked
<1> QED
  BY <1>4

\* A message whose extras leave a byte of their buffer is received as sent.
LEMMA WholeIsReceived ==
  ASSUME AsSent, SentWhole
  PROVE  Received(msg, Decoded, LongKeys)
<1>1. Marked(msg) /\ EncodeMarked(msg).w.ok /\ Decoded = Decode(EncodeMarked(msg).w.bytes)
  BY DEF AsSent, Decoded
<1>2. Len(Ext(msg).bytes) < ExtraCap
  BY DEF AsSent, SentWhole
<1>3. LongUnder(msg.extras, LongKeys)
  BY DEF LongUnder, LongKeys
<1>4. EXTRA_KEY_FLAG \notin LongKeys
  <2>1. \A key \in LongKeys : \E i \in 1 .. Len(msg.extras) :
          HasLong(msg.extras[i]) /\ key = msg.extras[i].key
    BY DEF LongKeys
  <2> QED
    BY <1>1, <2>1, FlagIsShort
<1> HIDE DEF Decoded
<1> QED
  BY <1>1, <1>2, <1>3, <1>4, MessageIsRead

LEMMA MessageInvArrives ==
  ASSUME MessageInv
  PROVE  MessageArrives
<1>1. SUFFICES ASSUME SentWhole
               PROVE  /\ stage # "unread"
                      /\ stage = "received" =>
                           /\ \A f \in {"type", "id", "payload", "flag", "extrFlag"} :
                                got.msg[f] = msg[f]
                           /\ Field(got.msg.flag, FLAG_DOWN_PROTOCOL, 4) =
                                IF msg.type = MSG_TYPE_PUBSUB THEN PROTOCOL_BIN
                                ELSE PROTOCOL_EXTRA
                           /\ Without(got.msg.extras, LongKeys)
                                = Without(ExtrasArrived(msg.extras), LongKeys)
  BY DEF MessageArrives
<1>2. stage # "unread"
  <2>1. SUFFICES ASSUME stage = "unread" PROVE FALSE
    OBVIOUS
  <2>2. AsSent /\ ~Decoded.ok
    BY <2>1 DEF MessageInv, AsSent
  <2> QED
    BY <1>1, <2>2, WholeIsReceived DEF Received
<1>3. ASSUME stage = "received"
      PROVE  /\ \A f \in {"type", "id", "payload", "flag", "extrFlag"} : got.msg[f] = msg[f]
             /\ Field(got.msg.flag, FLAG_DOWN_PROTOCOL, 4) =
                  IF msg.type = MSG_TYPE_PUBSUB THEN PROTOCOL_BIN ELSE PROTOCOL_EXTRA
             /\ Without(got.msg.extras, LongKeys)
                  = Without(ExtrasArrived(msg.extras), LongKeys)
  <2>1. AsSent /\ got.msg = Decoded.val
    BY <1>3 DEF MessageInv, AsSent
  <2>2. Received(msg, Decoded, LongKeys)
    BY <1>1, <2>1, WholeIsReceived
  <2>3. \A f \in {"type", "id", "payload", "flag", "extrFlag"} : got.msg[f] = msg[f]
    <3>1. got.msg.type = msg.type /\ got.msg.id = msg.id /\ got.msg.payload = msg.payload
          /\ got.msg.flag = msg.flag /\ got.msg.extrFlag = msg.extrFlag
      BY <2>1, <2>2 DEF Received
    <3> QED
      BY <3>1
  <2>4. got.msg.flag = IF msg.type = MSG_TYPE_PUBSUB THEN 1078 ELSE 1588
    BY <2>1, <2>2 DEF Received, AsSent, Marked
  <2>5. Field(got.msg.flag, FLAG_DOWN_PROTOCOL, 4) =
          IF msg.type = MSG_TYPE_PUBSUB THEN PROTOCOL_BIN ELSE PROTOCOL_EXTRA
    BY <2>4, FlagsAre
  <2>6. Without(got.msg.extras, LongKeys) = Without(ExtrasArrived(msg.extras), LongKeys)
    BY <2>1, <2>2 DEF Received
  <2> QED
    BY <2>3, <2>5, <2>6
<1> QED
  BY <1>2, <1>3

\* A message comes out of msg_decode as it went into msg_encode: payload,
\* flags, protocols, and every extra but those with too long a string.
THEOREM MessageAlwaysArrives == Spec => []MessageArrives
<1>1. MessageInv => MessageArrives
  BY MessageInvArrives
<1> QED
  BY <1>1, MessageInvariant, PTL

\* What msg_decode accepts has the fields of a message.
DecodedMsg(m) ==
  \E type, id, flag, extras, payloadIn, extrFlag :
    m = [type |-> type, id |-> id, flag |-> flag, extras |-> extras,
         payload |-> payloadIn, extrFlag |-> extrFlag]
LEMMA BodyIsMsg ==
  ASSUME NEW id, NEW flag, NEW len, NEW type, TakeBody(id, flag, len, type).ok
  PROVE  DecodedMsg(TakeBody(id, flag, len, type).val)
<1> DEFINE x == TakeHeaderData(id, flag)
           data == TakePayload(x, len - (Len(id.bytes) - Len(x.bytes)))
           m == [type |-> type, id |-> id.val, flag |-> flag, extras |-> x.val,
                 payload |-> data.val, extrFlag |-> FlagsIn(x.val)]
           all == WithVal(data, m)
<1>1. TakeBody(id, flag, len, type) = IF ~x.ok THEN x ELSE IF ~data.ok THEN data ELSE all
  BY DEF TakeBody, TakeRest, WithPayload
<1>2. TakeBody(id, flag, len, type) = all
  <2> HIDE DEF x, data, all
  <2> QED
    BY <1>1
<1>3. all.val = m
  BY DEF WithVal, Reading
<1>4. DecodedMsg(m)
  BY DEF DecodedMsg
<1> HIDE DEF all, m
<1> QED
  BY <1>2, <1>3, <1>4

LEMMA DecodedIsMsg ==
  ASSUME NEW s, Decode(s).ok
  PROVE  DecodedMsg(Decode(s).val)
<1> DEFINE flag == Take(Reader(s), 2)
           len == TakeInt(flag, 2)
           type == Take(len, 1)
           id == TakeInt(type, 8)
           body == TakeBody(id, Unsigned(flag.val), len.val, type.val[1])
           failed == Failed(len)
<1>1. Decode(s) = IF ~len.ok THEN len
                  ELSE IF Len(len.bytes) < len.val THEN failed
                  ELSE IF ~id.ok THEN id
                  ELSE body
  BY DEF Decode
<1>2. failed.ok = FALSE
  BY DEF Failed, Reading
<1>3. body.ok => DecodedMsg(body.val)
  BY BodyIsMsg
<1>4. Decode(s) = body
  <2> HIDE DEF flag, len, type, id, body, failed
  <2> QED
    BY <1>1, <1>2
<1> HIDE DEF body
<1> QED
  BY <1>3, <1>4

\* The UDP loop changes the extras and a flag of a message only.
NotedExtras(extras, source) ==
  PutExtra(PutExtra(PutExtra(extras,
    IntExtra(EXTRA_KEY_UDP_PORT, source.port)),
    StrExtra(EXTRA_KEY_UDP_HOST, source.host)),
    Extra(EXTRA_KEY_UDP_ACK, PREFIX_TYPE_BOOLEAN, 1))
LEMMA NotedIs ==
  ASSUME NEW m, DecodedMsg(m), NEW source
  PROVE  /\ NoteSource(m, source).payload = m.payload /\ NoteSource(m, source).type = m.type
         /\ NoteSource(m, source).extras = NotedExtras(m.extras, source)
<1>1. PICK type, id, flag, extras, data, extrFlag :
        m = [type |-> type, id |-> id, flag |-> flag, extras |-> extras,
             payload |-> data, extrFlag |-> extrFlag]
  BY DEF DecodedMsg
<1>2. DOMAIN m = {"type", "id", "flag", "extras", "payload", "extrFlag"}
  BY <1>1
<1> DEFINE x == NotedExtras(m.extras, source)
           y == SetBit(m.extrFlag, EXTRA_FLAG_UDP, TRUE)
<1>3. NoteSource(m, source) = [m EXCEPT !.extras = x, !.extrFlag = y]
  BY DEF NoteSource, NotedExtras
<1> HIDE DEF x, y
<1>4. /\ [m EXCEPT !.extras = x, !.extrFlag = y].payload = m.payload
      /\ [m EXCEPT !.extras = x, !.extrFlag = y].type = m.type
      /\ [m EXCEPT !.extras = x, !.extrFlag = y].extras = x
  BY <1>2
<1> QED
  BY <1>3, <1>4 DEF x

\* What the program gets to parse is what was sent.
LEMMA GotIsSent ==
  ASSUME MessageInv, SentWhole, stage \in {"parsed", "crashed"}
  PROVE  /\ AsSent /\ Received(msg, Decoded, LongKeys) /\ DecodedMsg(Decoded.val)
         /\ got.msg.payload = msg.payload /\ got.msg.type = msg.type
<1>1. AsSent /\ Decoded.ok
      /\ (\/ got = [msg |-> Decoded.val, from |-> Null]
          \/ got.from \in Sources /\ got.msg = NoteSource(Decoded.val, got.from))
  BY DEF MessageInv, AsSent
<1>2. Received(msg, Decoded, LongKeys)
  BY <1>1, WholeIsReceived
<1>3. DecodedMsg(Decoded.val)
  BY <1>1, DecodedIsMsg DEF Decoded
<1>4. got.msg.payload = Decoded.val.payload /\ got.msg.type = Decoded.val.type
  BY <1>1, <1>3, NotedIs
<1> QED
  BY <1>1, <1>2, <1>3, <1>4 DEF Received

\* A parameter that was sent is read from all of what was written.
LEMMA ParamIsParsed ==
  ASSUME MessageInv, SentWhole, stage = "parsed", msg.type = MSG_TYPE_REQ_JRPC
  PROVE  /\ asked \in DOMAIN Params /\ value.past = FALSE
         /\ ~payload.lost /\ ~HasLong(Params[asked][1])
              => value.ok /\ value.val = ParamArrived(Params[asked][1])
<1> DEFINE e == Params[asked][1]
           w == Writer(ParamCap)
           s == payload.bytes
<1>1. /\ AsSent /\ got.msg.payload = msg.payload /\ got.msg.type = msg.type
      /\ msg.payload # Null /\ value = Parsed(got.msg)
  BY GotIsSent DEF MessageInv
<1>2. MSG_TYPE_REQ_JRPC # MSG_TYPE_PUBSUB
  BY DEF MSG_TYPE_REQ_JRPC, MSG_TYPE_PUBSUB
<1>3. /\ asked \in DOMAIN Params /\ payload = RpcPayload(asked) /\ payload.ok
      /\ msg.payload = IF Params[asked] = <<>> THEN Null ELSE s
  BY <1>1, <1>2 DEF AsSent, Made
<1>4. Params[asked] # <<>> /\ msg.payload = s
  BY <1>1, <1>3
<1>5. payload = EncodeExtra(w, e)
  BY <1>3, <1>4 DEF RpcPayload
<1>6. e \in ExtraIn(Name \cup {Null}, Tree[Depth])
  <2> DEFINE S == ExtraIn(Name \cup {Null}, Tree[Depth])
  <2>1. Params \in Seq(Seq(S))
    BY InputsTyped
  <2> HIDE DEF S
  <2>2. Params[asked] \in Seq(S)
    BY <1>3, <2>1
  <2>3. Params[asked][1] \in S
    BY <1>4, <2>2
  <2> QED
    BY <2>3 DEF S
<1>7. Sound(payload)
  BY <1>5, <1>6, ParamIsPayload
<1>8. Held(payload, s)
  BY <1>3, <1>7 DEF Held, Sound, WriterState, Starts
<1>9. Sound(w) /\ w.bytes = <<>>
  <2>1. ParamCap \in Nat /\ ParamCap < 32768
    BY CapsFit
  <2> QED
    BY <2>1, NewWriter
<1>10. value = DecodeExtra(Reader(s))
  BY <1>1, <1>2, <1>4 DEF Parsed
<1> HIDE DEF e, w, s
<1>11. Back(s, EncodeExtra(w, e), DecodeExtra(Reader(s)), ParamArrived(e),
            ~EncodeExtra(w, e).lost /\ ~HasLong(e))
  BY <1>5, <1>6, <1>8, <1>9, ParamComesBack
<1>12. /\ value.past = FALSE
       /\ ~payload.lost /\ ~HasLong(e) => value = After(s, payload, ParamArrived(e))
  BY <1>5, <1>10, <1>11 DEF Back, Reached, Gives
<1>13. ~payload.lost /\ ~HasLong(e) => value.ok /\ value.val = ParamArrived(e)
  BY <1>12, AfterIs
<1> QED
  BY <1>3, <1>12, <1>13 DEF e

\* The parameter of a call arrives with all that is in it, in order, unless
\* a string is too long or the end of a full buffer was lost.
THEOREM ParamsAlwaysArrive == Spec => []ParamsArrive
<1>1. MessageInv => ParamsArrive
  BY ParamIsParsed DEF ParamsArrive
<1> QED
  BY <1>1, MessageInvariant, PTL

-----------------------------------------------------------------------------
(* Items                                                                   *)

LEMMA EightBits ==
  ASSUME NEW a \in {0, 1}, NEW b \in {0, 1}, NEW c \in {0, 1}, NEW d \in {0, 1},
         NEW e \in {0, 1}, NEW f \in {0, 1}, NEW g \in {0, 1}, NEW h \in {0, 1},
         NEW x, x = a + 2 * b + 4 * c + 8 * d + 16 * e + 32 * f + 64 * g + 128 * h
  PROVE  /\ (x \div 1) % 2 = a /\ (x \div 2) % 2 = b /\ (x \div 4) % 2 = c
         /\ (x \div 8) % 2 = d /\ (x \div 16) % 2 = e /\ (x \div 32) % 2 = f
         /\ (x \div 64) % 2 = g /\ (x \div 128) % 2 = h
  OBVIOUS

\* The bits of dataFlag say which fields follow.
LEMMA BitsAre ==
  ASSUME NEW it, NEW k \in 1 .. 8
  PROVE  Field(DataFlag(it), FieldBit[k], 2) = IF Present(it)[k] THEN 1 ELSE 0
<1> DEFINE p == Present(it)
           f == DataFlag(it)
           u == FieldBit
           a == IF p[1] THEN 1 ELSE 0
           b == IF p[2] THEN 1 ELSE 0
           c == IF p[3] THEN 1 ELSE 0
           d == IF p[4] THEN 1 ELSE 0
           e == IF p[5] THEN 1 ELSE 0
           g == IF p[6] THEN 1 ELSE 0
           h == IF p[7] THEN 1 ELSE 0
           i == IF p[8] THEN 1 ELSE 0
<1>1. /\ a \in {0, 1} /\ b \in {0, 1} /\ c \in {0, 1} /\ d \in {0, 1}
      /\ e \in {0, 1} /\ g \in {0, 1} /\ h \in {0, 1} /\ i \in {0, 1}
  OBVIOUS
<1>2. f = a + 2 * b + 4 * c + 8 * d + 16 * e + 32 * g + 64 * h + 128 * i
  BY DEF DataFlag, DataBit, FieldBit
<1>3. u[1] = 1 /\ u[2] = 2 /\ u[3] = 4 /\ u[4] = 8 /\ u[5] = 16 /\ u[6] = 32 /\ u[7] = 64 /\ u[8] = 128
  BY DEF FieldBit
<1>4. Field(f, u[k], 2) = (f \div u[k]) % 2
  BY DEF Field
<1>5. /\ (f \div 1) % 2 = a /\ (f \div 2) % 2 = b /\ (f \div 4) % 2 = c
      /\ (f \div 8) % 2 = d /\ (f \div 16) % 2 = e /\ (f \div 32) % 2 = g
      /\ (f \div 64) % 2 = h /\ (f \div 128) % 2 = i
  <2> HIDE DEF a, b, c, d, e, g, h, i, f
  <2> QED
    BY <1>1, <1>2, EightBits
<1>6. k \in {1, 2, 3, 4, 5, 6, 7, 8}
  OBVIOUS
<1>7. (f \div u[k]) % 2 = IF p[k] THEN 1 ELSE 0
  <2> HIDE DEF f, u, p
  <2> QED
    BY <1>3, <1>5, <1>6
<1> QED
  BY <1>4, <1>7

\* What a field arrives as.
FieldArrived(it, k) ==
  CASE k = 1 -> it.id
    [] k = 2 -> it.type
    [] k = 3 -> it.topic
    [] k = 4 -> it.srcClientId
    [] k = 5 -> it.to
    [] k = 6 -> it.callback
    [] k = 7 -> ExtrasArrived(it.cxt)
    [] OTHER -> DataArrived(it)
FieldBack(s, w2, r, it, k, well) ==
  /\ r = After(s, w2, r.val)
  /\ well => r.val = FieldArrived(it, k)
  /\ k = 7 => IsSeq(r.val)

LEMMA NumberFieldIsRead ==
  ASSUME NEW x \in Int, NEW k \in {1, 2, 4, 8}, NEW w, Sound(w),
         NEW w2, w2 = Put(w, BigEnd(k, x)), NEW s, Held(w2, s), NEW v,
         Signed(BigEnd(k, x)) = x
  PROVE  Gives(TakeInt(After(s, w, v), k), After(s, w2, x))
<1> DEFINE t == BigEnd(k, x)
<1>1. t \in Seq(Byte) /\ Len(t) > 0
  <2>1. t \in Seq(Byte) /\ Len(t) = k
    BY BigEndIs
  <2> QED
    BY <2>1
<1>2. Carried(w, w2, t, s)
  <2> HIDE DEF t
  <2> QED
    BY <1>1, PutIsCarried DEF t
<1>3. Gives(TakeInt(After(s, w, v), k), After(s, w2, Signed(t)))
  BY <1>2, IntIsRead
<1> QED
  BY <1>3

MapBack(s, w2, r, list) ==
  /\ r = After(s, w2, r.val) /\ IsSeq(r.val)
  /\ ~w2.lost /\ ~MapHasLong(list) => r.val = ExtrasArrived(list)
LEMMA MapFieldIsRead ==
  ASSUME NEW list \in Map, NEW w, Sound(w), w.cap <= 513, NEW w2, w2 = EncodeExtras(w, list, TRUE),
         NEW s, Held(w2, s), NEW v, NEW r, r = TakeMap(After(s, w, v))
  PROVE  MapBack(s, w2, r, list)
<1> DEFINE yes == TRUE
           keys == {}
           x == DecodeExtras(After(s, w, v))
<1>1. yes \in BOOLEAN /\ yes /\ w2 = EncodeExtras(w, list, yes)
  OBVIOUS
<1> HIDE DEF yes, keys
<1>2. ListFits(list, Name, Tree[Depth], yes)
  BY <1>1, MapIsFit
<1>3. Listed(s, EncodeExtras(w, list, yes), DecodeExtras(After(s, w, v)), ExtrasArrived(list),
             ~EncodeExtras(w, list, yes).lost /\ ~MapHasLong(list), keys,
             ~EncodeExtras(w, list, yes).lost /\ LongUnder(list, keys))
  BY <1>1, <1>2, ExtrasComeBack
<1> HIDE DEF x
<1>4. /\ x = After(s, w2, x.val) /\ IsSeq(x.val)
      /\ ~w2.lost /\ ~MapHasLong(list) => x.val = ExtrasArrived(list)
  BY <1>1, <1>3 DEF Listed, x
<1>5. r = Reading(x.bytes, TRUE, x.past, x.val)
  BY DEF TakeMap, Unharmed, x
<1>6. r = x
  <2>1. Reached(s, w2, x)
    BY <1>4, AfterIsReached
  <2>2. Reading(x.bytes, TRUE, x.past, x.val) = After(s, w2, x.val)
    BY <2>1, ReachedNow
  <2> QED
    BY <1>4, <1>5, <2>2
<1> QED
  BY <1>4, <1>6 DEF MapBack

\* What was put after w, all the rest.
LEMMA RestIsAdded ==
  ASSUME NEW w, NEW n, NEW w2, NEW a \in Seq(Byte), NEW b \in Seq(Byte),
         Sound(w), Sound(n), Sound(w2), Added(w, n, a), Added(n, w2, b), Starts(w2.bytes, n.bytes)
  PROVE  Rest(w2.bytes, Len(w.bytes)) = a \o b
<1> DEFINE s == w2.bytes
           k == Len(w.bytes)
           t == a \o b
<1>1. s \in Seq(Byte) /\ k \in Nat /\ Len(s) = (k + Len(a)) + Len(b) /\ Len(n.bytes) = k + Len(a)
  BY DEF Sound, WriterState, Added
<1>2. /\ t \in Seq(Byte) /\ Len(t) = Len(a) + Len(b) /\ Len(a) \in Nat /\ Len(b) \in Nat
      /\ \A i \in 1 .. Len(a) : t[i] = a[i]
      /\ \A i \in 1 .. Len(b) : t[Len(a) + i] = b[i]
  BY Joining
<1> HIDE DEF t
<1>3. Rest(s, k) \in Seq(Byte) /\ Len(Rest(s, k)) = Len(a) + Len(b)
      /\ \A i \in 1 .. Len(a) + Len(b) : Rest(s, k)[i] = s[k + i]
  <2>2. s \in Seq(Byte) /\ k \in Nat
    BY <1>1
  <2> DEFINE la == Len(a)
             lb == Len(b)
  <2>4. la \in Nat /\ lb \in Nat /\ Len(s) = (k + la) + lb
    BY <1>1, <1>2
  <2> HIDE DEF s, k, la, lb
  <2>5. k <= Len(s) /\ Len(s) - k = la + lb
    BY <2>2, <2>4
  <2>1. k <= Len(s) /\ Len(s) - k = Len(a) + Len(b)
    BY <2>5 DEF la, lb
  <2>3. Rest(s, k) \in Seq(Byte) /\ Len(Rest(s, k)) = Len(s) - k
        /\ \A i \in 1 .. Len(s) - k : Rest(s, k)[i] = s[k + i]
    BY <2>1, <2>2, RestIs
  <2> QED
    BY <2>1, <2>3
<1>4. ASSUME NEW i \in 1 .. Len(a) PROVE s[k + i] = a[i]
  <2>1. n.bytes[k + i] = a[i]
    BY DEF Added
  <2>2. k + i \in 1 .. Len(n.bytes)
    BY <1>1, <1>2
  <2>3. s[k + i] = n.bytes[k + i]
    BY <2>2 DEF Starts
  <2> QED
    BY <2>1, <2>3
<1>5. ASSUME NEW i \in 1 .. Len(b) PROVE s[k + (Len(a) + i)] = b[i]
  <2>1. s[Len(n.bytes) + i] = b[i]
    BY DEF Added
  <2>3. i \in Nat /\ k \in Nat /\ Len(a) \in Nat /\ Len(n.bytes) = k + Len(a)
    BY <1>1, <1>2
  <2> HIDE DEF k
  <2>2. Len(n.bytes) + i = k + (Len(a) + i)
    BY <2>3
  <2> USE DEF k
  <2> QED
    BY <2>1, <2>2
<1>6. ASSUME NEW i \in 1 .. Len(a) + Len(b) PROVE s[k + i] = t[i]
  <2>1. CASE i <= Len(a)
    <3>1. i \in 1 .. Len(a)
      BY <1>2, <2>1
    <3> QED
      BY <1>2, <1>4, <3>1
  <2>2. CASE ~(i <= Len(a))
    <3>1. i - Len(a) \in 1 .. Len(b) /\ Len(a) + (i - Len(a)) = i
      BY <1>2, <2>2
    <3> QED
      BY <1>2, <1>5, <3>1
  <2> QED
    BY <2>1, <2>2
<1> HIDE DEF s, k
<1>7. \A i \in 1 .. Len(Rest(s, k)) : Rest(s, k)[i] = t[i]
  BY <1>3, <1>6
<1>8. Rest(s, k) = t
  BY <1>2, <1>3, <1>7, SameSequence
<1> QED
  BY <1>8 DEF s, k, t

LEMMA BinaryIsPut ==
  ASSUME NEW t \in Name, NEW w, Sound(w), NEW w2, w2 = PutBinary(w, t), w2.ok, ~w2.lost
  PROVE  Rest(w2.bytes, Len(w.bytes)) = BigEnd(2, Len(t)) \o t
<1> DEFINE a == BigEnd(2, Len(t))
           n == PutUnchecked(w, a)
           e == <<>>
<1>1. t \in Seq(Byte) /\ Len(t) \in Nat
  BY DEF Name
<1>2. a \in Seq(Byte) /\ Len(a) = 2 /\ Len(a) \in {1, 2}
  BY <1>1, LengthTwo
<1>3. w2 = IF t = <<>> THEN n ELSE Put(n, t)
  BY DEF PutBinary
<1> HIDE DEF a
<1>4. /\ Grown(w, n) /\ n.ok = w.ok
      /\ w.ok => IF Len(w.bytes) + Len(a) <= w.cap
                 THEN Added(w, n, a) ELSE n.lost /\ n.bytes = w.bytes
  BY <1>2, PutUncheckedGrows
<1> HIDE DEF n
<1>5. Sound(n)
  BY <1>4 DEF Grown
<1>6. Grown(n, w2) /\ Added(n, w2, t)
  <2>1. CASE t = <<>>
    <3>1. w2 = n /\ Len(t) = 0
      BY <1>3, <2>1
    <3>2. Added(n, n, t)
      BY <1>5, <3>1 DEF Added, Sound, WriterState
    <3> QED
      BY <1>5, <3>1, <3>2, GrownIsReflexive
  <2>2. CASE t # <<>>
    BY <1>1, <1>3, <1>5, <2>2, PutGrows
  <2> QED
    BY <2>1, <2>2
<1>7. ~n.lost /\ n.ok /\ Sound(w2) /\ Starts(w2.bytes, n.bytes)
  BY <1>6 DEF Grown
<1>8. Added(w, n, a)
  BY <1>4, <1>7
<1>9. Rest(w2.bytes, Len(w.bytes)) = a \o t
  BY <1>1, <1>2, <1>5, <1>6, <1>7, <1>8, RestIsAdded
<1> QED
  BY <1>9 DEF a

BinaryBack(s, w2, r, t) ==
  /\ r = After(s, w2, r.val)
  /\ ~w2.lost => r.val = BigEnd(2, Len(t)) \o t
LEMMA BinaryIsRead ==
  ASSUME NEW t \in Name, NEW w, Sound(w), NEW w2, w2 = PutBinary(w, t),
         NEW s, s = w2.bytes, Held(w2, s), NEW v,
         NEW type, type = FLAG_DATA_BIN, NEW r, r = TakeData(After(s, w, v), type)
  PROVE  BinaryBack(s, w2, r, t)
<1> DEFINE rest == Rest(s, Len(w.bytes))
           a == BigEnd(2, Len(t))
<1>1. r = Reading(<<>>, TRUE, FALSE, IF rest = <<>> THEN Null ELSE rest)
  <2>1. After(s, w, v).bytes = rest /\ After(s, w, v).past = FALSE
    BY AfterIs
  <2> DEFINE x == After(s, w, v)
  <2> HIDE DEF x
  <2>2. TakeData(x, type) = Reading(<<>>, TRUE, x.past, IF x.bytes = <<>> THEN Null ELSE x.bytes)
    BY DEF TakeData, FLAG_DATA_BIN, FLAG_DATA_EXTRA
  <2> QED
    BY <2>1, <2>2 DEF x
<1>2. Rest(s, Len(w2.bytes)) = <<>>
  <2>1. s \in Seq(Byte)
    BY DEF Held
  <2>2. SubSeq(s, Len(s) + 1, Len(s)) = <<>>
    BY <2>1
  <2> QED
    BY <2>2 DEF Rest
<1>3. r = After(s, w2, r.val)
  <2> DEFINE u == IF rest = <<>> THEN Null ELSE rest
  <2>1. r = Reading(<<>>, TRUE, FALSE, u)
    BY <1>1
  <2> HIDE DEF u
  <2>2. r.val = u
    BY <2>1 DEF Reading
  <2> QED
    BY <1>2, <2>1, <2>2 DEF After, At
<1>4. ASSUME ~w2.lost PROVE r.val = a \o t
  <2>1. rest = a \o t
    <3>1. w2.ok
      BY DEF Held
    <3> QED
      BY <1>4, <3>1, BinaryIsPut
  <2>2. a \in Seq(Byte) /\ Len(a) = 2 /\ t \in Seq(Byte)
    BY LengthTwo DEF Name
  <2> HIDE DEF a
  <2>5. Len(a \o t) = Len(a) + Len(t)
    BY <2>2, JoinedBytes
  <2>3. Len(a \o t) = 2 + Len(t) /\ Len(t) \in Nat
    BY <2>2, <2>5
  <2>4. a \o t # <<>>
    <3>1. SUFFICES ASSUME a \o t = <<>> PROVE FALSE
      OBVIOUS
    <3>2. Len(a \o t) = 0
      BY <3>1
    <3> QED
      BY <2>3, <3>2
  <2> QED
    BY <1>1, <2>1, <2>4 DEF Reading
<1> QED
  BY <1>3, <1>4 DEF BinaryBack

LEMMA TakeFieldIs ==
  ASSUME NEW r, NEW type
  PROVE  /\ TakeField(r, 1, type) = TakeInt(r, 8) /\ TakeField(r, 2, type) = TakeInt(r, 1)
         /\ TakeField(r, 3, type) = ReadString(r) /\ TakeField(r, 4, type) = TakeInt(r, 4)
         /\ TakeField(r, 5, type) = TakeInt(r, 4) /\ TakeField(r, 6, type) = ReadString(r)
         /\ TakeField(r, 7, type) = TakeMap(r)
         /\ TakeField(r, 8, type) = TakeData(r, type)
  BY DEF TakeField

LEMMA TakeDataIs ==
  ASSUME NEW r, NEW type
  PROVE  /\ type = FLAG_DATA_EXTRA => TakeData(r, type) = TakeMap(r)
         /\ type \notin {FLAG_DATA_BIN, FLAG_DATA_EXTRA} => TakeData(r, type) = ReadString(r)
<1> DEFINE a == Reading(<<>>, TRUE, r.past, IF r.bytes = <<>> THEN Null ELSE r.bytes)
           b == TakeMap(r)
           c == ReadString(r)
<1>1. TakeData(r, type) = CASE type = FLAG_DATA_BIN -> a
                            [] type = FLAG_DATA_EXTRA -> b
                            [] OTHER -> c
  BY DEF TakeData
<1> HIDE DEF a, b, c
<1>2. ASSUME type = FLAG_DATA_EXTRA PROVE TakeData(r, type) = b
  BY <1>1, <1>2 DEF FLAG_DATA_BIN, FLAG_DATA_EXTRA
<1>3. ASSUME type # FLAG_DATA_BIN, type # FLAG_DATA_EXTRA PROVE TakeData(r, type) = c
  BY <1>1, <1>3
<1> QED
  BY <1>2, <1>3 DEF b, c

LEMMA PutFieldIs ==
  ASSUME NEW w, NEW it
  PROVE  /\ PutField(w, it, 1) = Put(w, BigEnd(8, it.id))
         /\ PutField(w, it, 2) = Put(w, BigEnd(1, it.type))
         /\ PutField(w, it, 3) = WriteString(w, it.topic)
         /\ PutField(w, it, 4) = Put(w, BigEnd(4, it.srcClientId))
         /\ PutField(w, it, 5) = Put(w, BigEnd(4, it.to))
         /\ PutField(w, it, 6) = WriteString(w, it.callback)
         /\ PutField(w, it, 7) = EncodeExtras(w, it.cxt, TRUE)
         /\ PutField(w, it, 8) = PutData(w, it)
  BY DEF PutField

LEMMA DataArrivedIs ==
  ASSUME NEW it
  PROVE  /\ DataType(it) = FLAG_DATA_BIN => DataArrived(it) = BigEnd(2, Len(it.data)) \o it.data
         /\ DataType(it) = FLAG_DATA_EXTRA => DataArrived(it) = ExtrasArrived(it.data)
         /\ DataType(it) \notin {FLAG_DATA_BIN, FLAG_DATA_EXTRA} => DataArrived(it) = it.data
<1> DEFINE a == BigEnd(2, Len(it.data)) \o it.data
           b == ExtrasArrived(it.data)
           type == DataType(it)
<1>1. DataArrived(it) = CASE type = FLAG_DATA_BIN -> a
                          [] type = FLAG_DATA_EXTRA -> b
                          [] OTHER -> it.data
  BY DEF DataArrived
<1> HIDE DEF a, b, type
<1>2. ASSUME type = FLAG_DATA_BIN PROVE DataArrived(it) = a
  BY <1>1, <1>2 DEF FLAG_DATA_BIN, FLAG_DATA_EXTRA
<1>3. ASSUME type = FLAG_DATA_EXTRA PROVE DataArrived(it) = b
  BY <1>1, <1>3 DEF FLAG_DATA_BIN, FLAG_DATA_EXTRA
<1>4. ASSUME type # FLAG_DATA_BIN, type # FLAG_DATA_EXTRA PROVE DataArrived(it) = it.data
  BY <1>1, <1>4
<1> QED
  BY <1>2, <1>3, <1>4 DEF a, b, type

LEMMA FieldArrivedIs ==
  ASSUME NEW it
  PROVE  /\ FieldArrived(it, 1) = it.id /\ FieldArrived(it, 2) = it.type
         /\ FieldArrived(it, 3) = it.topic /\ FieldArrived(it, 4) = it.srcClientId
         /\ FieldArrived(it, 5) = it.to /\ FieldArrived(it, 6) = it.callback
         /\ FieldArrived(it, 7) = ExtrasArrived(it.cxt)
         /\ FieldArrived(it, 8) = DataArrived(it)
  BY DEF FieldArrived

LEMMA TextFieldIsRead ==
  ASSUME NEW t \in Name \cup {Null}, t # Null, NEW w, Sound(w), NEW w2, w2 = WriteString(w, t),
         NEW s, Held(w2, s), NEW v
  PROVE  Gives(ReadString(After(s, w, v)), After(s, w2, t))
<1>1. Gives(ReadString(After(s, w, v)), After(s, w2, Text(t)))
  BY StringIsRead
<1> QED
  BY <1>1 DEF Text

\* After a value.
LEMMA GivesBack ==
  ASSUME NEW s, NEW w2, NEW r, NEW x, Gives(r, After(s, w2, x)), NEW it, NEW k, k # 7,
         FieldArrived(it, k) = x, NEW well
  PROVE  FieldBack(s, w2, r, it, k, well)
<1>1. After(s, w2, x).val = x
  BY AfterIs
<1> QED
  BY <1>1 DEF Gives, FieldBack

\* Each field of an item is read where it was written.
LEMMA FieldIsRead ==
  ASSUME NEW it, IsItem(it), NEW k \in 1 .. 8, Present(it)[k],
         NEW w, Sound(w), w.cap <= 513, NEW w2, w2 = PutField(w, it, k),
         NEW s, Held(w2, s), k = 8 => s = w2.bytes, NEW v
  PROVE  FieldBack(s, w2, TakeField(After(s, w, v), k, DataType(it)), it, k,
                   ~w2.lost /\ ~ItemHasLong(it))
<1> DEFINE r == After(s, w, v)
           type == DataType(it)
           well == ~w2.lost /\ ~ItemHasLong(it)
<1>1. /\ it.id \in Int32 /\ it.type \in SmallInt /\ it.srcClientId \in Int32 /\ it.to \in Int32
      /\ it.topic \in Name \cup {Null} /\ it.callback \in Name \cup {Null} /\ it.cxt \in Map
      /\ DataType(it) = FLAG_DATA_EXTRA /\ it.data # Null => it.data \in Map
      /\ DataType(it) # FLAG_DATA_EXTRA /\ it.data # Null => it.data \in Name
  BY ItemIs
<1>2. it.id \in Int /\ it.type \in Int /\ it.srcClientId \in Int /\ it.to \in Int
  BY <1>1 DEF Int32, SmallInt, Between
<1>3. 1 \in {1, 2, 4, 8} /\ 4 \in {1, 2, 4, 8} /\ 8 \in {1, 2, 4, 8}
  OBVIOUS
<1> HIDE DEF well
<1>13. ASSUME NEW x, NEW y, y = TakeField(r, k, type), Gives(y, After(s, w2, x)),
              FieldArrived(it, k) = x, k # 7
       PROVE  FieldBack(s, w2, TakeField(r, k, type), it, k, well)
  BY <1>13, GivesBack
<1>4. CASE k = 1
  <2>1. Signed(BigEnd(8, it.id)) = it.id
    BY <1>1, LongBack
  <2>2. w2 = Put(w, BigEnd(8, it.id)) /\ TakeField(r, k, type) = TakeInt(r, 8)
    BY <1>4, PutFieldIs, TakeFieldIs
  <2>3. Gives(TakeInt(r, 8), After(s, w2, it.id))
    BY <1>2, <1>3, <2>1, <2>2, NumberFieldIsRead
  <2>4. FieldArrived(it, k) = it.id /\ k # 7
    BY <1>4, FieldArrivedIs
  <2> QED
    BY <2>2, <2>3, <2>4, <1>13 DEF well
<1>5. CASE k = 2
  <2>1. Signed(BigEnd(1, it.type)) = it.type
    BY <1>1, ByteBack
  <2>2. w2 = Put(w, BigEnd(1, it.type)) /\ TakeField(r, k, type) = TakeInt(r, 1)
    BY <1>5, PutFieldIs, TakeFieldIs
  <2>3. Gives(TakeInt(r, 1), After(s, w2, it.type))
    BY <1>2, <1>3, <2>1, <2>2, NumberFieldIsRead
  <2>4. FieldArrived(it, k) = it.type /\ k # 7
    BY <1>5, FieldArrivedIs
  <2> QED
    BY <2>2, <2>3, <2>4, <1>13 DEF well
<1>6. CASE k = 3
  <2>1. w2 = WriteString(w, it.topic) /\ TakeField(r, k, type) = ReadString(r)
    BY <1>6, PutFieldIs, TakeFieldIs
  <2>2. it.topic # Null
    BY <1>6, PresentIs
  <2>3. Gives(ReadString(r), After(s, w2, it.topic))
    BY <1>1, <2>1, <2>2, TextFieldIsRead
  <2>4. FieldArrived(it, k) = it.topic /\ k # 7
    BY <1>6, FieldArrivedIs
  <2> QED
    BY <2>1, <2>3, <2>4, <1>13 DEF well
<1>7. CASE k = 4
  <2>1. Signed(BigEnd(4, it.srcClientId)) = it.srcClientId
    BY <1>1, IntBack
  <2>2. w2 = Put(w, BigEnd(4, it.srcClientId)) /\ TakeField(r, k, type) = TakeInt(r, 4)
    BY <1>7, PutFieldIs, TakeFieldIs
  <2>3. Gives(TakeInt(r, 4), After(s, w2, it.srcClientId))
    BY <1>2, <1>3, <2>1, <2>2, NumberFieldIsRead
  <2>4. FieldArrived(it, k) = it.srcClientId /\ k # 7
    BY <1>7, FieldArrivedIs
  <2> QED
    BY <2>2, <2>3, <2>4, <1>13 DEF well
<1>8. CASE k = 5
  <2>1. Signed(BigEnd(4, it.to)) = it.to
    BY <1>1, IntBack
  <2>2. w2 = Put(w, BigEnd(4, it.to)) /\ TakeField(r, k, type) = TakeInt(r, 4)
    BY <1>8, PutFieldIs, TakeFieldIs
  <2>3. Gives(TakeInt(r, 4), After(s, w2, it.to))
    BY <1>2, <1>3, <2>1, <2>2, NumberFieldIsRead
  <2>4. FieldArrived(it, k) = it.to /\ k # 7
    BY <1>8, FieldArrivedIs
  <2> QED
    BY <2>2, <2>3, <2>4, <1>13 DEF well
<1>9. CASE k = 6
  <2>1. w2 = WriteString(w, it.callback) /\ TakeField(r, k, type) = ReadString(r)
    BY <1>9, PutFieldIs, TakeFieldIs
  <2>2. it.callback # Null
    BY <1>9, PresentIs
  <2>3. Gives(ReadString(r), After(s, w2, it.callback))
    BY <1>1, <2>1, <2>2, TextFieldIsRead
  <2>4. FieldArrived(it, k) = it.callback /\ k # 7
    BY <1>9, FieldArrivedIs
  <2> QED
    BY <2>1, <2>3, <2>4, <1>13 DEF well
<1>10. CASE k = 7
  <2> DEFINE x == TakeMap(r)
  <2>1. w2 = EncodeExtras(w, it.cxt, TRUE) /\ TakeField(r, k, type) = x
    BY <1>10, PutFieldIs, TakeFieldIs
  <2>5. x = TakeMap(After(s, w, v))
    OBVIOUS
  <2> HIDE DEF x
  <2>2. MapBack(s, w2, x, it.cxt)
    BY <1>1, <2>1, <2>5, MapFieldIsRead
  <2>3. well => ~w2.lost /\ ~MapHasLong(it.cxt)
    BY DEF well, ItemHasLong
  <2>6. FieldArrived(it, k) = ExtrasArrived(it.cxt)
    BY <1>10, FieldArrivedIs
  <2>4. FieldBack(s, w2, x, it, k, well)
    BY <2>2, <2>3, <2>6 DEF FieldBack, MapBack
  <2> QED
    BY <2>1, <2>4 DEF well
<1>11. CASE k = 8
  <2>1. it.data # Null
    BY <1>11, PresentIs
  <2>2. w2 = PutData(w, it) /\ TakeField(r, k, type) = TakeData(r, type)
    BY <1>11, PutFieldIs, TakeFieldIs
  <2>6. FieldArrived(it, k) = DataArrived(it) /\ k # 7
    BY <1>11, FieldArrivedIs
  <2>3. CASE type = FLAG_DATA_BIN
    <3> DEFINE x == TakeData(r, type)
    <3>1. it.data \in Name
      BY <1>1, <2>1, <2>3 DEF FLAG_DATA_BIN, FLAG_DATA_EXTRA
    <3>2. w2 = PutBinary(w, it.data)
      BY <2>2, <2>3, PutDataIs
    <3>3. s = w2.bytes /\ x = TakeData(After(s, w, v), type)
      BY <1>11
    <3> HIDE DEF x
    <3>4. BinaryBack(s, w2, x, it.data)
      BY <2>3, <3>1, <3>2, <3>3, BinaryIsRead
    <3>5. FieldArrived(it, k) = BigEnd(2, Len(it.data)) \o it.data /\ k # 7
      BY <2>3, <2>6, DataArrivedIs
    <3>6. FieldBack(s, w2, x, it, k, well)
      BY <3>4, <3>5 DEF FieldBack, well, BinaryBack
    <3> QED
      BY <2>2, <3>6 DEF well, x
  <2>4. CASE type = FLAG_DATA_EXTRA
    <3> DEFINE x == TakeMap(r)
    <3>1. w2 = EncodeExtras(w, it.data, TRUE) /\ TakeField(r, k, type) = x
      BY <2>2, <2>4, PutDataIs, TakeDataIs
    <3>2. it.data \in Map /\ x = TakeMap(After(s, w, v))
      BY <1>1, <2>1, <2>4
    <3> HIDE DEF x
    <3>3. MapBack(s, w2, x, it.data)
      BY <3>1, <3>2, MapFieldIsRead
    <3>4. well => ~w2.lost /\ ~MapHasLong(it.data)
      BY <2>1, <2>4 DEF well, ItemHasLong
    <3>5. FieldArrived(it, k) = ExtrasArrived(it.data) /\ k # 7
      BY <2>4, <2>6, DataArrivedIs
    <3>6. FieldBack(s, w2, x, it, k, well)
      BY <3>3, <3>4, <3>5 DEF FieldBack, MapBack
    <3> QED
      BY <3>1, <3>6 DEF well
  <2>5. CASE type \notin {FLAG_DATA_BIN, FLAG_DATA_EXTRA}
    <3>1. w2 = WriteString(w, it.data) /\ TakeField(r, k, type) = ReadString(r)
      BY <2>2, <2>5, PutDataIs, TakeDataIs
    <3>2. it.data \in Name \cup {Null}
      BY <1>1, <2>1, <2>5
    <3>3. Gives(ReadString(r), After(s, w2, it.data))
      BY <2>1, <3>1, <3>2, TextFieldIsRead
    <3>4. FieldArrived(it, k) = it.data /\ k # 7
      BY <2>5, <2>6, DataArrivedIs
    <3> QED
      BY <3>1, <3>3, <3>4, <1>13 DEF well
  <2> QED
    BY <2>3, <2>4, <2>5
<1>12. k \in {1, 2, 3, 4, 5, 6, 7, 8}
  OBVIOUS
<1> QED
  BY <1>4, <1>5, <1>6, <1>7, <1>8, <1>9, <1>10, <1>11, <1>12

\* An item as far as its first k fields are read.
ItemFields ==
  {"flag", "fr", "id", "type", "topic", "srcClientId", "to", "callback", "cxt", "data"}
Nothing(i) == NoField(0, 0)[FieldName[i]]
FieldNow(it, i) == IF Present(it)[i] THEN FieldArrived(it, i) ELSE Nothing(i)
SoFar(v, it, k, well) ==
  /\ v = [n \in ItemFields |-> v[n]] /\ IsSeq(v.cxt)
  /\ v.flag = it.flag /\ v.fr = it.fr
  /\ well => \A i \in 1 .. 8 :
               v[FieldName[i]] = IF i <= k THEN FieldNow(it, i) ELSE Nothing(i)

LEMMA NamesDiffer ==
  /\ \A i \in 1 .. 8 : FieldName[i] \in ItemFields \ {"flag", "fr"}
  /\ \A i, j \in 1 .. 8 : FieldName[i] = FieldName[j] => i = j
  /\ \A i \in 1 .. 8 : (FieldName[i] = "cxt") <=> (i = 7)
<1>1. /\ FieldName[1] = "id" /\ FieldName[2] = "type" /\ FieldName[3] = "topic"
      /\ FieldName[4] = "srcClientId" /\ FieldName[5] = "to" /\ FieldName[6] = "callback"
      /\ FieldName[7] = "cxt" /\ FieldName[8] = "data"
  BY DEF FieldName
<1>2. \A i \in 1 .. 8 : i \in {1, 2, 3, 4, 5, 6, 7, 8}
  OBVIOUS
<1> QED
  BY <1>1, <1>2 DEF ItemFields

LEMMA OneFieldMore ==
  ASSUME NEW it, NEW k \in 1 .. 8, NEW v, NEW well \in BOOLEAN, SoFar(v, it, k - 1, well),
         Present(it)[k], NEW x, well => x = FieldArrived(it, k), k = 7 => IsSeq(x)
  PROVE  SoFar([v EXCEPT ![FieldName[k]] = x], it, k, well)
<1> DEFINE u == [v EXCEPT ![FieldName[k]] = x]
           name == FieldName[k]
<1>1. /\ v = [n \in ItemFields |-> v[n]] /\ IsSeq(v.cxt)
      /\ v.flag = it.flag /\ v.fr = it.fr
  BY DEF SoFar
<1>2. name \in ItemFields \ {"flag", "fr"} /\ (name = "cxt" <=> k = 7)
  BY NamesDiffer
<1>3. "flag" \in ItemFields /\ "fr" \in ItemFields /\ "cxt" \in ItemFields
  BY DEF ItemFields
<1>4. u = [n \in ItemFields |-> IF n = name THEN x ELSE v[n]]
  BY <1>1
<1> HIDE DEF u, name
<1>5. /\ u = [n \in ItemFields |-> u[n]] /\ u.flag = it.flag /\ u.fr = it.fr
  BY <1>1, <1>2, <1>3, <1>4
<1>6. IsSeq(u.cxt)
  <2>1. u.cxt = IF k = 7 THEN x ELSE v.cxt
    BY <1>2, <1>3, <1>4
  <2> QED
    BY <1>1, <2>1
<1>7. ASSUME well, NEW i \in 1 .. 8
      PROVE  u[FieldName[i]] = IF i <= k THEN FieldNow(it, i) ELSE Nothing(i)
  <2>1. v[FieldName[i]] = IF i <= k - 1 THEN FieldNow(it, i) ELSE Nothing(i)
    BY <1>7 DEF SoFar
  <2>2. FieldName[i] \in ItemFields /\ (FieldName[i] = name <=> i = k)
    BY NamesDiffer DEF name
  <2>3. u[FieldName[i]] = IF i = k THEN x ELSE v[FieldName[i]]
    BY <1>4, <2>2
  <2>4. x = FieldNow(it, k)
    BY <1>7 DEF FieldNow
  <2> QED
    BY <2>1, <2>3, <2>4
<1>8. SoFar(u, it, k, well)
  BY <1>5, <1>6, <1>7 DEF SoFar
<1> QED
  BY <1>8 DEF u

LEMMA NoFieldMore ==
  ASSUME NEW it, NEW k \in 1 .. 8, NEW v, NEW well \in BOOLEAN, SoFar(v, it, k - 1, well),
         ~Present(it)[k]
  PROVE  SoFar(v, it, k, well)
<1>1. ASSUME well, NEW i \in 1 .. 8
      PROVE  v[FieldName[i]] = IF i <= k THEN FieldNow(it, i) ELSE Nothing(i)
  <2>1. v[FieldName[i]] = IF i <= k - 1 THEN FieldNow(it, i) ELSE Nothing(i)
    BY <1>1 DEF SoFar
  <2>2. FieldNow(it, k) = Nothing(k)
    BY DEF FieldNow
  <2> QED
    BY <2>1, <2>2
<1> QED
  BY <1>1 DEF SoFar

\* f[k] is what was written, g[k] what is read, up to field k.
ReadSoFar(f, g, s, it, k) ==
  \E v : g[k] = After(s, f[k], v) /\ SoFar(v, it, k, ~f[8].lost /\ ~ItemHasLong(it))
LEMMA FieldStep ==
  ASSUME NEW it, IsItem(it), NEW f, FieldsPut(f, it), NEW s, s = f[8].bytes, Held(f[8], s),
         NEW g, NEW k \in 1 .. 8, g[k] = FieldTaken(g[k - 1], k, DataFlag(it), it.flag),
         ReadSoFar(f, g, s, it, k - 1)
  PROVE  ReadSoFar(f, g, s, it, k)
<1> DEFINE well == ~f[8].lost /\ ~ItemHasLong(it)
           b == f[k - 1]
           w == f[k]
<1>1. PICK v : g[k - 1] = After(s, b, v) /\ SoFar(v, it, k - 1, well)
  BY DEF ReadSoFar
<1> DEFINE r == After(s, b, v)
           field == TakeField(r, k, DataType(it))
<1>2. Sound(b) /\ b.cap <= 513 /\ Held(w, s) /\ (w.lost => f[8].lost)
  <2>1. k \in 0 .. 8 /\ k - 1 \in 0 .. 8
    OBVIOUS
  <2>2. Sound(f[k - 1]) /\ f[k - 1].cap = ItemCap /\ Sound(f[k]) /\ Grown(f[k], f[8])
    BY <2>1, FieldsGrow
  <2>3. ItemCap <= 513
    BY CapsFit
  <2>4. Held(f[k], s)
    BY <2>2, HeldBefore
  <2>5. f[k].lost => f[8].lost
    BY <2>2 DEF Grown
  <2> QED
    BY <2>2, <2>3, <2>4, <2>5
<1>3. r.ok /\ r.val = v
  BY AfterIs
<1>4. Field(DataFlag(it), FieldBit[k], 2) = IF Present(it)[k] THEN 1 ELSE 0
  BY BitsAre
<1>5. g[k] = IF ~Present(it)[k] THEN r
             ELSE IF ~field.ok THEN field
             ELSE WithVal(field, [v EXCEPT ![FieldName[k]] = field.val])
  <2>1. TypeIn(it.flag) = DataType(it) /\ g[k - 1] = r
    BY <1>1 DEF DataType
  <2> HIDE DEF r
  <2>2. FieldTaken(g[k - 1], k, DataFlag(it), it.flag)
          = IF Field(DataFlag(it), FieldBit[k], 2) = 0 THEN r
            ELSE IF ~field.ok THEN field
            ELSE WithVal(field, [v EXCEPT ![FieldName[k]] = field.val])
    BY <1>3, <2>1 DEF FieldTaken
  <2> HIDE DEF field
  <2> QED
    BY <1>4, <2>2
<1>6. well \in BOOLEAN
  OBVIOUS
<1>7. CASE ~Present(it)[k]
  <2>1. f[k] = f[k - 1]
    BY <1>7 DEF FieldsPut
  <2>2. g[k] = After(s, f[k], v)
    BY <1>5, <1>7, <2>1
  <2> HIDE DEF well
  <2>3. SoFar(v, it, k, well)
    BY <1>1, <1>6, <1>7, NoFieldMore
  <2> QED
    BY <2>2, <2>3 DEF ReadSoFar, well
<1>8. CASE Present(it)[k]
  <2>1. w = PutField(b, it, k)
    BY <1>8 DEF FieldsPut
  <2>2. k = 8 => s = w.bytes
    OBVIOUS
  <2> HIDE DEF b, w
  <2>3. FieldBack(s, w, field, it, k, ~w.lost /\ ~ItemHasLong(it))
    BY <1>2, <1>8, <2>1, <2>2, FieldIsRead
  <2> HIDE DEF field, r
  <2> DEFINE x == field.val
             u == [v EXCEPT ![FieldName[k]] = x]
  <2>4. field = After(s, w, x) /\ (well => x = FieldArrived(it, k)) /\ (k = 7 => IsSeq(x))
    BY <1>2, <2>3 DEF FieldBack
  <2> HIDE DEF x, well
  <2>5. SoFar(u, it, k, well)
    BY <1>1, <1>6, <1>8, <2>4, OneFieldMore
  <2>6. g[k] = After(s, w, u)
    <3>1. field.ok
      BY <2>4, AfterIs
    <3>2. g[k] = WithVal(field, u)
      BY <1>5, <1>8, <3>1 DEF x
    <3> HIDE DEF u
    <3>3. WithVal(After(s, w, x), u) = After(s, w, u)
      BY AfterWithVal
    <3> QED
      BY <2>4, <3>2, <3>3
  <2> HIDE DEF u
  <2> QED
    BY <2>5, <2>6 DEF ReadSoFar, well, w
<1> QED
  BY <1>7, <1>8

\* The six bytes in front of the fields.
LEMMA FrontIsRead ==
  ASSUME NEW it, IsItem(it), NEW s \in Seq(Byte), Starts(s, Flags(it)), NEW n, n = 6,
         NEW flags, flags = Take(Reader(s), 2)
  PROVE  /\ flags.ok /\ flags.val[1] = DataFlag(it) /\ flags.val[2] = it.flag
         /\ Gives(TakeInt(flags, 4), At(s, n, it.fr))
<1> DEFINE a == <<DataFlag(it), it.flag>>
           b == BigEnd(4, it.fr)
           z == 0
           two == 2
           four == 4
           t == SubSeq(s, z + 1, z + two)
           u == SubSeq(s, two + 1, two + four)
<1>1. Len(Flags(it)) = 6 /\ Len(s) \in Nat /\ Len(s) >= 6
      /\ \A i \in 1 .. 6 : s[i] = Flags(it)[i]
  BY FlagsTyped DEF Starts
<1>2. it.fr \in Int32 /\ it.fr \in Int /\ it.flag \in Byte /\ DataFlag(it) \in Byte
  BY ItemIs, FlagsTyped DEF Int32, Between
<1>3. b \in Seq(Byte) /\ Len(b) = 4 /\ Signed(b) = it.fr
  <2>1. 4 \in {1, 2, 4, 8}
    OBVIOUS
  <2> QED
    BY <1>2, <2>1, BigEndIs, IntBack
<1>4. /\ Flags(it)[1] = DataFlag(it) /\ Flags(it)[2] = it.flag
      /\ \A i \in 1 .. 4 : Flags(it)[2 + i] = b[i]
  <2>1. a \in Seq(Byte) /\ Len(a) = 2 /\ a[1] = DataFlag(it) /\ a[2] = it.flag
    BY <1>2
  <2>2. Flags(it) = a \o b
    BY DEF Flags
  <2> HIDE DEF a, b
  <2>5. a \in Seq(Byte) /\ b \in Seq(Byte)
    BY <1>3, <2>1
  <2>3. /\ \A i \in 1 .. Len(a) : (a \o b)[i] = a[i]
        /\ \A i \in 1 .. Len(b) : (a \o b)[Len(a) + i] = b[i]
    BY <2>5, Joining
  <2>4. \A i \in 1 .. 4 : (a \o b)[2 + i] = b[i]
    BY <1>3, <2>1, <2>3
  <2>6. (a \o b)[1] = a[1] /\ (a \o b)[2] = a[2]
    BY <2>1, <2>3
  <2> QED
    BY <2>1, <2>2, <2>4, <2>6
<1>5. z \in Nat /\ two \in Nat /\ four \in Nat /\ z = 0 /\ two = 2 /\ four = 4
  OBVIOUS
<1> HIDE DEF z, two, four
<1>6. Reader(s) = At(s, z, Null)
  <2>1. Rest(s, 0) = s
    BY RestOfAll
  <2> QED
    BY <1>5, <2>1 DEF At, Reader
<1>7. Take(At(s, z, Null), two) = At(s, z + two, t)
  <2>1. z < Len(s) /\ z + two <= Len(s)
    BY <1>1, <1>5
  <2> QED
    BY <1>5, <2>1, TakeAt
<1>8. flags = At(s, two, t)
  <2>1. flags = Take(Reader(s), two) /\ z + two = two
    BY <1>5
  <2> QED
    BY <1>6, <1>7, <2>1
<1>9. Take(At(s, two, t), four) = At(s, two + four, u)
  <2>1. two < Len(s) /\ two + four <= Len(s)
    BY <1>1, <1>5
  <2> QED
    BY <1>5, <2>1, TakeAt
<1>10. /\ t \in Seq(Byte) /\ t[1] = s[1] /\ t[2] = s[2]
  <2>1. z <= z + two /\ z + two <= Len(s) /\ z + two \in Nat /\ (z + two) - z = 2
    BY <1>1, <1>5
  <2>2. t \in Seq(Byte) /\ \A i \in 1 .. (z + two) - z : t[i] = s[z + i]
    BY <1>5, <2>1, PartIs
  <2>3. z + 1 = 1 /\ z + 2 = 2
    BY <1>5
  <2> HIDE DEF t
  <2>4. t[1] = s[z + 1] /\ t[2] = s[z + 2]
    BY <2>1, <2>2
  <2> QED
    BY <2>2, <2>3, <2>4
<1>11. u = b
  <2>1. two <= two + four /\ two + four <= Len(s) /\ two + four \in Nat
        /\ (two + four) - two = 4
    BY <1>1, <1>5
  <2>2. /\ u \in Seq(Byte) /\ Len(u) = (two + four) - two
        /\ \A i \in 1 .. (two + four) - two : u[i] = s[two + i]
    BY <1>5, <2>1, PartIs
  <2> HIDE DEF u, b
  <2>3. ASSUME NEW i \in 1 .. 4 PROVE u[i] = b[i]
    <3>1. 2 + i \in 1 .. 6 /\ two + i = 2 + i
      BY <1>5
    <3> QED
      BY <1>1, <1>4, <2>1, <2>2, <3>1
  <2>4. Len(u) = 4
    BY <2>1, <2>2
  <2> QED
    BY <1>3, <2>2, <2>3, <2>4, SameSequence
<1> HIDE DEF t, u, b
<1>12. flags.ok /\ flags.val[1] = DataFlag(it) /\ flags.val[2] = it.flag
  <2>1. flags.ok /\ flags.val = t
    BY <1>8 DEF At, Reading
  <2>2. s[1] = Flags(it)[1] /\ s[2] = Flags(it)[2]
    BY <1>1
  <2> QED
    BY <1>4, <1>10, <2>1, <2>2
<1>13. TakeInt(flags, 4) = At(s, n, it.fr)
  <2>1. Take(flags, 4) = At(s, n, u)
    BY <1>5, <1>8, <1>9
  <2>2. At(s, n, u).ok /\ At(s, n, u).val = u
    BY DEF At, Reading
  <2>3. TakeInt(flags, 4) = WithVal(At(s, n, u), Signed(u))
    BY <2>1, <2>2 DEF TakeInt
  <2> QED
    BY <1>3, <1>11, <2>3 DEF WithVal, At, Reading
<1> QED
  BY <1>12, <1>13 DEF Gives

\* All fields of an item.
LEMMA FieldsAreRead ==
  ASSUME NEW it, IsItem(it), NEW f, FieldsPut(f, it), NEW s, s = f[8].bytes, Held(f[8], s),
         NEW r, r = After(s, f[0], it.fr)
  PROVE  \E v : /\ TakeFields(r, DataFlag(it), it.flag) = After(s, f[8], v)
                /\ SoFar(v, it, 8, ~f[8].lost /\ ~ItemHasLong(it))
<1>1. PICK g : FieldsTaken(g, r, DataFlag(it), it.flag)
  BY TakeFieldsIs
<1>2. /\ TakeFields(r, DataFlag(it), it.flag) = g[8]
      /\ g[0] = WithVal(r, NoField(it.flag, r.val))
      /\ \A k \in 1 .. 8 : g[k] = FieldTaken(g[k - 1], k, DataFlag(it), it.flag)
  BY <1>1 DEF FieldsTaken
<1>3. ReadSoFar(f, g, s, it, 0)
  <2> DEFINE v == NoField(it.flag, it.fr)
             well == ~f[8].lost /\ ~ItemHasLong(it)
  <2>1. g[0] = After(s, f[0], v)
    <3>1. r.val = it.fr
      BY AfterIs
    <3> HIDE DEF v
    <3>2. g[0] = WithVal(r, v)
      BY <1>2, <3>1 DEF v
    <3> QED
      BY <3>2, AfterWithVal
  <2>2. v = [n \in ItemFields |-> v[n]] /\ v.flag = it.flag /\ v.fr = it.fr /\ v.cxt = <<>>
    BY DEF NoField, ItemFields
  <2>3. IsSeq(<<>>)
    <3>1. <<>> \in Seq({})
      OBVIOUS
    <3> QED
      BY <3>1 DEF IsSeq
  <2>4. \A i \in 1 .. 8 : v[FieldName[i]] = Nothing(i)
    <3>1. \A i \in 1 .. 8 : FieldName[i] \in ItemFields \ {"flag", "fr"}
      BY NamesDiffer
    <3>2. \A n \in ItemFields \ {"flag", "fr"} : NoField(0, 0)[n] = NoField(it.flag, it.fr)[n]
      BY DEF NoField, ItemFields
    <3> QED
      BY <3>1, <3>2 DEF Nothing
  <2> HIDE DEF v, well
  <2>5. \A i \in 1 .. 8 : ~(i <= 0)
    OBVIOUS
  <2>6. SoFar(v, it, 0, well)
    BY <2>2, <2>3, <2>4, <2>5 DEF SoFar
  <2> QED
    BY <2>1, <2>6 DEF ReadSoFar, well
<1>4. ASSUME NEW k \in 1 .. 8, ReadSoFar(f, g, s, it, k - 1) PROVE ReadSoFar(f, g, s, it, k)
  BY <1>2, <1>4, FieldStep
<1> DEFINE P == {k \in Nat : k <= 8 => ReadSoFar(f, g, s, it, k)}
<1>5. 0 \in P
  BY <1>3
<1>6. ASSUME NEW k \in P PROVE k + 1 \in P
  <2>1. SUFFICES ASSUME k + 1 <= 8 PROVE ReadSoFar(f, g, s, it, k + 1)
    OBVIOUS
  <2>2. k + 1 \in 1 .. 8 /\ k <= 8 /\ (k + 1) - 1 = k
    BY <2>1
  <2>3. ReadSoFar(f, g, s, it, (k + 1) - 1)
    BY <2>2
  <2> QED
    BY <1>4, <2>2, <2>3
<1>7. P = Nat
  <2> HIDE DEF P
  <2>1. P \in SUBSET Nat
    BY DEF P
  <2> QED
    BY <1>5, <1>6, <2>1, EveryNumber
<1>8. ReadSoFar(f, g, s, it, 8)
  BY <1>7
<1> QED
  BY <1>2, <1>8 DEF ReadSoFar

LEMMA ValueChanged ==
  ASSUME NEW a, NEW ok, NEW past, NEW v, NEW x, x = Reading(a, ok, past, v), NEW u,
         NEW y, y = [x EXCEPT !.val = u]
  PROVE  y = Reading(a, ok, past, u)
  BY DEF Reading

\* An item is parsed as it was serialized; its context says whom to answer.
LEMMA ItemIsRead8 ==
  ASSUME NEW it, IsItem(it), NEW w, w = SerialPsItem(it), w.ok, NEW m, m.payload = w.bytes
  PROVE  \E v : /\ ParseItem(m) = After(w.bytes, w, [v EXCEPT !.cxt = WithSource(v.cxt, m.extras)])
                /\ SoFar(v, it, 8, ~w.lost /\ ~ItemHasLong(it))
<1>1. PICK f : FieldsPut(f, it)
  BY SerialPsItemIs
<1> DEFINE s == w.bytes
           z == 0
<1>2. w = f[8] /\ s = f[8].bytes
  BY <1>1 DEF FieldsPut
<1>3. z = 0
  OBVIOUS
<1> HIDE DEF z
<1>4. Sound(f[8]) /\ Grown(f[z], f[8]) /\ f[z].bytes = Flags(it)
  <2>1. z \in 0 .. 8 /\ 8 \in 0 .. 8
    BY <1>3
  <2> QED
    BY <1>1, <1>3, <2>1, FieldsGrow
<1>5. Held(f[8], s)
  BY <1>2, <1>4 DEF Held, Sound, WriterState, Starts
<1>6. s \in Seq(Byte) /\ Starts(s, Flags(it))
  BY <1>2, <1>4 DEF Grown, Sound, WriterState
<1> DEFINE n == 6
           flags == Take(Reader(s), 2)
           fr == TakeInt(flags, 4)
           x == TakeFields(fr, flags.val[1], flags.val[2])
<1>7. /\ flags.ok /\ flags.val[1] = DataFlag(it) /\ flags.val[2] = it.flag
      /\ Gives(fr, At(s, n, it.fr))
  <2>1. n = 6 /\ flags = Take(Reader(s), 2)
    OBVIOUS
  <2> HIDE DEF s, n, flags
  <2> QED
    BY <1>6, <2>1, FrontIsRead
<1>8. fr = After(s, f[0], it.fr) /\ fr.ok
  <2>1. Len(f[0].bytes) = n
    BY <1>3, <1>4, FlagsTyped
  <2> HIDE DEF fr, n, s
  <2>2. fr = After(s, f[0], it.fr)
    BY <1>7, <2>1 DEF Gives, After
  <2> QED
    BY <2>2, AfterIs
<1>9. PICK v : x = After(s, f[8], v) /\ SoFar(v, it, 8, ~f[8].lost /\ ~ItemHasLong(it))
  <2> HIDE DEF s, fr, flags
  <2>1. \E v : /\ TakeFields(fr, DataFlag(it), it.flag) = After(s, f[8], v)
               /\ SoFar(v, it, 8, ~f[8].lost /\ ~ItemHasLong(it))
    BY <1>1, <1>2, <1>5, <1>8, FieldsAreRead
  <2> QED
    BY <1>7, <2>1
<1>10. x.ok /\ x.val = v
  <2> HIDE DEF x
  <2> QED
    BY <1>9, AfterIs
<1>11. ParseItem(m) = IfFailed([x EXCEPT !.val.cxt = WithSource(x.val.cxt, m.extras)], Null)
  <2>1. ParseItem(m) = IfFailed(IF ~flags.ok THEN flags
                                ELSE IF ~fr.ok THEN fr
                                ELSE IF ~x.ok THEN x
                                ELSE [x EXCEPT !.val.cxt = WithSource(x.val.cxt, m.extras)], Null)
    BY DEF ParseItem, AnswerTo
  <2> HIDE DEF x, fr, flags
  <2> QED
    BY <1>7, <1>8, <1>10, <2>1
<1> HIDE DEF x, fr, flags
<1> DEFINE u == [v EXCEPT !.cxt = WithSource(v.cxt, m.extras)]
<1>12. [x EXCEPT !.val.cxt = WithSource(x.val.cxt, m.extras)] = [x EXCEPT !.val = u]
  BY <1>10
<1> HIDE DEF u
<1>13. [x EXCEPT !.val = u] = After(s, f[8], u)
  <2> DEFINE a == Rest(s, Len(f[8].bytes))
  <2>1. x = Reading(a, TRUE, FALSE, v)
    BY <1>9 DEF After, At
  <2> HIDE DEF a
  <2> DEFINE y == [x EXCEPT !.val = u]
             yes == TRUE
             no == FALSE
  <2>2. x = Reading(a, yes, no, v) /\ y = [x EXCEPT !.val = u]
    BY <2>1
  <2> HIDE DEF x, y, yes, no
  <2>4. y = Reading(a, yes, no, u)
    BY <2>2, ValueChanged
  <2>3. [x EXCEPT !.val = u] = Reading(a, TRUE, FALSE, u)
    BY <2>4 DEF yes, no, y
  <2> QED
    BY <2>3 DEF After, At, a
<1>14. ParseItem(m) = After(s, f[8], u)
  <2>1. After(s, f[8], u).ok
    BY AfterIs
  <2> QED
    BY <1>11, <1>12, <1>13, <2>1 DEF IfFailed
<1> QED
  BY <1>2, <1>9, <1>14 DEF u

-----------------------------------------------------------------------------
(* Whom to answer                                                          *)

\* Where two lists agree about a key.
LEMMA SameValue ==
  ASSUME NEW l, IsSeq(l), NEW m, IsSeq(m), NEW key, Len(l) \in Nat, Len(m) \in Nat,
         Len(l) <= Len(m),
         \A i \in 1 .. Len(l) : l[i].key = key <=> m[i].key = key,
         \A i \in 1 .. Len(l) : l[i].key = key => m[i].val = l[i].val,
         \A i \in 1 .. Len(m) : Len(l) < i => m[i].key # key
  PROVE  Gives(ValueOf(m, key), ValueOf(l, key))
<1>1. CASE Found(l, key) = {}
  <2>1. \A i \in 1 .. Len(l) : l[i].key # key
    BY <1>1, FoundIs
  <2>2. \A i \in 1 .. Len(m) : m[i].key # key
    <3> TAKE i \in 1 .. Len(m)
    <3>1. CASE i <= Len(l)
      <4>1. i \in 1 .. Len(l)
        BY <3>1
      <4> QED
        BY <2>1, <4>1
    <3>2. CASE ~(i <= Len(l))
      BY <3>2
    <3> QED
      BY <3>1, <3>2
  <2>3. Found(m, key) = {}
    BY <2>2, FoundIs
  <2> QED
    BY <1>1, <2>3 DEF ValueOf, Gives
<1>2. CASE Found(l, key) # {}
  <2>1. PICK i \in Found(l, key) : TRUE
    BY <1>2
  <2>2. i \in 1 .. Len(l) /\ l[i].key = key /\ \A j \in 1 .. i - 1 : l[j].key # key
    <3>1. DOMAIN l = 1 .. Len(l)
      BY DEF IsSeq
    <3> QED
      BY <2>1, <3>1 DEF Found
  <2>3. i \in 1 .. Len(m) /\ m[i].key = key /\ m[i].val = l[i].val
    BY <2>2
  <2>4. \A j \in 1 .. i - 1 : m[j].key # key
    <3> TAKE j \in 1 .. i - 1
    <3>1. j \in 1 .. Len(l)
      BY <2>2
    <3> QED
      BY <2>2, <3>1
  <2>5. ValueOf(l, key) = l[i].val
    BY <2>2, FoundIs DEF Gives
  <2>6. ValueOf(m, key) = m[i].val
    BY <2>3, <2>4, FoundIs DEF Gives
  <2> QED
    BY <2>3, <2>5, <2>6 DEF Gives
<1> QED
  BY <1>1, <1>2

\* extra_sput.
SPutOf(m, l, e) ==
  /\ IsSeq(m) /\ Len(m) \in Nat /\ Len(l) \in Nat /\ Len(l) <= Len(m) /\ m # <<>>
  /\ \A i \in 1 .. Len(l) : l[i].key # e.key => m[i] = l[i]
  /\ ValueOf(m, e.key) = e.val
  /\ \A key : key # e.key => ValueOf(m, key) = ValueOf(l, key)

LEMMA SPutNew ==
  ASSUME NEW l, IsSeq(l), NEW e, Found(l, e.key) = {}
  PROVE  SPutOf(SPutExtra(l, e), l, e)
<1> DEFINE m == SPutExtra(l, e)
<1>1. PICK S : l \in Seq(S)
  BY DEF IsSeq
<1> DEFINE T == S \cup {e}
<1>2. m = Append(l, e)
  BY DEF SPutExtra
<1>3. l \in Seq(T) /\ Len(l) \in Nat /\ e \in T
  BY <1>1
<1> HIDE DEF m, T
<1>4. m \in Seq(T) /\ Len(m) = Len(l) + 1 /\ m[Len(l) + 1] = e
      /\ \A i \in 1 .. Len(l) : m[i] = l[i]
  BY <1>2, <1>3
<1>5. IsSeq(m) /\ Len(m) \in Nat /\ Len(l) <= Len(m) /\ m # <<>>
  <2>1. m # <<>>
    <3>1. SUFFICES ASSUME m = <<>> PROVE FALSE
      OBVIOUS
    <3>2. Len(m) = 0
      BY <3>1
    <3> QED
      BY <1>3, <1>4, <3>2
  <2> QED
    BY <1>3, <1>4, <2>1 DEF IsSeq
<1>6. \A i \in 1 .. Len(l) : l[i].key # e.key
  BY FoundIs
<1>7. ValueOf(m, e.key) = e.val
  <2> DEFINE i == Len(l) + 1
  <2>1. i \in 1 .. Len(m) /\ m[i] = e
    BY <1>3, <1>4
  <2>2. \A j \in 1 .. i - 1 : m[j].key # e.key
    BY <1>3, <1>4, <1>6
  <2> HIDE DEF i
  <2>3. ValueOf(m, e.key) = m[i].val
    BY <1>5, <2>1, <2>2, FoundIs DEF Gives
  <2> QED
    BY <2>1, <2>3
<1>8. ASSUME NEW key, key # e.key PROVE ValueOf(m, key) = ValueOf(l, key)
  <2>1. /\ \A i \in 1 .. Len(l) : l[i].key = key <=> m[i].key = key
        /\ \A i \in 1 .. Len(l) : l[i].key = key => m[i].val = l[i].val
    BY <1>4
  <2>2. \A i \in 1 .. Len(m) : Len(l) < i => m[i].key # key
    <3> TAKE i \in 1 .. Len(m)
    <3>1. SUFFICES ASSUME Len(l) < i PROVE m[i].key # key
      OBVIOUS
    <3>2. i = Len(l) + 1
      BY <1>3, <1>4, <3>1
    <3> QED
      BY <1>4, <1>8, <3>2
  <2> QED
    BY <1>3, <1>5, <2>1, <2>2, SameValue DEF Gives
<1> QED
  BY <1>3, <1>4, <1>5, <1>7, <1>8 DEF SPutOf, m

LEMMA SPutOld ==
  ASSUME NEW l, IsSeq(l), NEW e, Found(l, e.key) # {}
  PROVE  SPutOf(SPutExtra(l, e), l, e)
<1> DEFINE m == SPutExtra(l, e)
           F == Found(l, e.key)
<1>1. PICK S : l \in Seq(S)
  BY DEF IsSeq
<1> DEFINE T == S \cup {e}
<1>2. Len(l) \in Nat /\ DOMAIN l = 1 .. Len(l) /\ \A i \in 1 .. Len(l) : l[i] \in T
  BY <1>1
<1>3. m = [i \in 1 .. Len(l) |-> IF i \in F THEN e ELSE l[i]]
  BY <1>2 DEF SPutExtra
<1>4. PICK i0 \in F : TRUE
  OBVIOUS
<1>5. i0 \in 1 .. Len(l) /\ l[i0].key = e.key /\ \A j \in 1 .. i0 - 1 : l[j].key # e.key
  BY <1>2, <1>4 DEF Found
<1>6. \A i \in F : l[i].key = e.key
  BY DEF Found
<1> HIDE DEF m, F
<1>7. m \in Seq(T) /\ Len(m) = Len(l) /\ \A i \in 1 .. Len(l) : m[i] = IF i \in F THEN e ELSE l[i]
  <2>1. \A i \in 1 .. Len(l) : (IF i \in F THEN e ELSE l[i]) \in T
    BY <1>2
  <2> HIDE DEF T
  <2> QED
    BY <1>2, <1>3, <2>1
<1> HIDE DEF T
<1>8. IsSeq(m) /\ Len(m) \in Nat /\ Len(l) <= Len(m) /\ m # <<>>
  <2>1. m # <<>>
    BY <1>5, <1>7
  <2> QED
    BY <1>2, <1>7, <2>1 DEF IsSeq
<1>9. \A i \in 1 .. Len(l) : l[i].key # e.key => m[i] = l[i]
  BY <1>6, <1>7
<1>10. ValueOf(m, e.key) = e.val
  <2>1. i0 \in 1 .. Len(m) /\ m[i0] = e
    BY <1>4, <1>5, <1>7
  <2>2. \A j \in 1 .. i0 - 1 : m[j].key # e.key
    <3> TAKE j \in 1 .. i0 - 1
    <3>1. j \in 1 .. Len(l)
      BY <1>2, <1>5
    <3> QED
      BY <1>5, <1>9, <3>1
  <2>3. ValueOf(m, e.key) = m[i0].val
    BY <1>8, <2>1, <2>2, FoundIs DEF Gives
  <2> QED
    BY <2>1, <2>3
<1>11. ASSUME NEW key, key # e.key PROVE ValueOf(m, key) = ValueOf(l, key)
  <2>1. /\ \A i \in 1 .. Len(l) : l[i].key = key <=> m[i].key = key
        /\ \A i \in 1 .. Len(l) : l[i].key = key => m[i].val = l[i].val
    BY <1>6, <1>7, <1>11
  <2>2. \A i \in 1 .. Len(m) : Len(l) < i => m[i].key # key
    BY <1>2, <1>7
  <2> QED
    BY <1>2, <1>8, <2>1, <2>2, SameValue DEF Gives
<1> QED
  BY <1>2, <1>8, <1>9, <1>10, <1>11 DEF SPutOf, m

LEMMA SPutIs ==
  ASSUME NEW l, IsSeq(l), NEW e
  PROVE  SPutOf(SPutExtra(l, e), l, e)
  BY SPutNew, SPutOld

\* A context keeps its elements but those that say whom to answer.
Extended(m, l) ==
  /\ IsSeq(m) /\ Len(m) \in Nat /\ Len(l) \in Nat /\ Len(l) <= Len(m)
  /\ \A i \in 1 .. Len(l) : l[i].key \notin ReplyKeys => m[i] = l[i]

LEMMA ExtendedIs ==
  /\ \A l : IsSeq(l) => Extended(l, l)
  /\ \A l, m, n : Extended(m, l) /\ Extended(n, m) => Extended(n, l)
  /\ \A l, e : IsSeq(l) /\ e.key \in ReplyKeys => Extended(SPutExtra(l, e), l)
<1>1. ASSUME NEW l, IsSeq(l) PROVE Extended(l, l)
  <2>1. Len(l) \in Nat
    BY <1>1 DEF IsSeq
  <2> QED
    BY <1>1, <2>1 DEF Extended
<1>2. ASSUME NEW l, NEW m, NEW n, Extended(m, l), Extended(n, m) PROVE Extended(n, l)
  <2>1. ASSUME NEW i \in 1 .. Len(l), l[i].key \notin ReplyKeys PROVE n[i] = l[i]
    <3>1. i \in 1 .. Len(m) /\ m[i] = l[i]
      BY <1>2, <2>1 DEF Extended
    <3> QED
      BY <1>2, <2>1, <3>1 DEF Extended
  <2> QED
    BY <1>2, <2>1 DEF Extended
<1>3. ASSUME NEW l, NEW e, IsSeq(l), e.key \in ReplyKeys PROVE Extended(SPutExtra(l, e), l)
  BY <1>3, SPutIs DEF Extended, SPutOf
<1> QED
  BY <1>1, <1>2, <1>3

LEMMA WithSourceIs ==
  ASSUME NEW cxt, IsSeq(cxt), NEW extras
  PROVE  Extended(WithSource(cxt, extras), cxt)
<1> DEFINE port == ValueOf(extras, EXTRA_KEY_UDP_PORT)
           host == ValueOf(extras, EXTRA_KEY_UDP_HOST)
           ack == ValueOf(extras, EXTRA_KEY_UDP_ACK)
           a == AddPort(cxt, port)
           b == AddHost(a, host)
           c == AddAck(b, ack)
<1>1. WithSource(cxt, extras) = c
  BY DEF WithSource
<1>2. ASSUME NEW l, IsSeq(l), NEW v
      PROVE  Extended(AddPort(l, v), l) /\ Extended(AddHost(l, v), l) /\ Extended(AddAck(l, v), l)
  <2> DEFINE p == IntExtra(EXTRA_SKEY_UDP_PORT, v)
             h == StrExtra(EXTRA_SKEY_UDP_HOST, v)
             k == Extra(EXTRA_SKEY_UDP_ACK, PREFIX_TYPE_BOOLEAN, IF v = Null THEN 0 ELSE v)
  <2>1. p.key \in ReplyKeys /\ h.key \in ReplyKeys /\ k.key \in ReplyKeys
    BY DEF IntExtra, StrExtra, Extra, ReplyKeys
  <2>2. /\ AddPort(l, v) = IF v \in {Null, 0} THEN l ELSE SPutExtra(l, p)
        /\ AddHost(l, v) = IF v = Null THEN l ELSE SPutExtra(l, h)
        /\ AddAck(l, v) = IF l = <<>> THEN <<>> ELSE SPutExtra(l, k)
    BY DEF AddPort, AddHost, AddAck
  <2> HIDE DEF p, h, k
  <2>3. Extended(l, l) /\ Extended(SPutExtra(l, p), l) /\ Extended(SPutExtra(l, h), l)
        /\ Extended(SPutExtra(l, k), l)
    BY <1>2, <2>1, ExtendedIs
  <2> QED
    BY <2>2, <2>3
<1> HIDE DEF port, host, ack
<1>3. Extended(a, cxt) /\ IsSeq(a)
  BY <1>2 DEF Extended
<1> HIDE DEF a
<1>4. Extended(b, a) /\ IsSeq(b)
  BY <1>2, <1>3 DEF Extended
<1> HIDE DEF b
<1>5. Extended(c, b)
  BY <1>2, <1>4
<1> HIDE DEF c
<1>6. Extended(b, cxt)
  BY <1>3, <1>4, ExtendedIs
<1>7. Extended(c, cxt)
  BY <1>5, <1>6, ExtendedIs
<1> QED
  BY <1>1, <1>7

\* The context says whom to answer.
LEMMA SourceIsFound ==
  ASSUME NEW cxt, IsSeq(cxt), NEW extras,
         NEW port, port = ValueOf(extras, EXTRA_KEY_UDP_PORT), port \notin {Null, 0},
         NEW host, host = ValueOf(extras, EXTRA_KEY_UDP_HOST), host # Null
  PROVE  /\ ValueOf(WithSource(cxt, extras), EXTRA_SKEY_UDP_PORT) = port
         /\ ValueOf(WithSource(cxt, extras), EXTRA_SKEY_UDP_HOST) = host
<1> DEFINE ack == ValueOf(extras, EXTRA_KEY_UDP_ACK)
           P == EXTRA_SKEY_UDP_PORT
           H == EXTRA_SKEY_UDP_HOST
           A == EXTRA_SKEY_UDP_ACK
           p == IntExtra(P, port)
           h == StrExtra(H, host)
           k == Extra(A, PREFIX_TYPE_BOOLEAN, IF ack = Null THEN 0 ELSE ack)
           a == SPutExtra(cxt, p)
           b == SPutExtra(a, h)
           c == SPutExtra(b, k)
<1>1. P # H /\ P # A /\ H # A
  <2>1. P[4] = 49 /\ H[4] = 48 /\ A[4] = 57
    BY DEF EXTRA_SKEY_UDP_PORT, EXTRA_SKEY_UDP_HOST, EXTRA_SKEY_UDP_ACK
  <2> HIDE DEF P, H, A
  <2> QED
    BY <2>1
<1>2. /\ p.key = P /\ p.val = port /\ h.key = H /\ h.val = host /\ k.key = A
  BY DEF IntExtra, StrExtra, Extra
<1>3. WithSource(cxt, extras) = AddAck(b, ack)
  BY DEF WithSource, AddPort, AddHost
<1>4. AddAck(b, ack) = IF b = <<>> THEN <<>> ELSE c
  BY DEF AddAck
<1> HIDE DEF P, H, A, p, h, k
<1>5. SPutOf(a, cxt, p)
  BY SPutIs
<1> HIDE DEF a
<1>6. SPutOf(b, a, h)
  BY <1>5, SPutIs DEF SPutOf
<1> HIDE DEF b
<1>7. SPutOf(c, b, k)
  BY <1>6, SPutIs DEF SPutOf
<1> HIDE DEF c
<1>8. b # <<>>
  BY <1>6 DEF SPutOf
<1>9. ValueOf(a, P) = port
  BY <1>2, <1>5 DEF SPutOf
<1>10. ValueOf(b, P) = port /\ ValueOf(b, H) = host
  BY <1>1, <1>2, <1>6, <1>9 DEF SPutOf
<1>11. ValueOf(c, P) = port /\ ValueOf(c, H) = host
  BY <1>1, <1>2, <1>7, <1>10 DEF SPutOf
<1> QED
  BY <1>3, <1>4, <1>8, <1>11 DEF P, H

\* A key that is not left out is found in what is left, or in neither.
LEMMA KeysLeft ==
  ASSUME NEW l, IsSeq(l), NEW keys, NEW key, key \notin keys
  PROVE  (\E i \in 1 .. Len(l) : l[i].key = key)
           <=> (\E i \in 1 .. Len(Without(l, keys)) : Without(l, keys)[i].key = key)
<1> DEFINE n == Len(l)
<1>1. n \in Nat
  BY DEF IsSeq
<1>2. PICK f : PartsLeft(f, l, keys)
  BY <1>1, WithoutIs
<1>3. /\ Without(l, keys) = f[n] /\ f[0] = <<>>
      /\ \A k \in 1 .. n : f[k] = IF l[n + 1 - k].key \in keys THEN f[k - 1]
                                  ELSE <<l[n + 1 - k]>> \o f[k - 1]
  BY <1>2 DEF PartsLeft
<1> HIDE DEF n
<1> DEFINE In(k) == \E i \in 1 .. n : n - k < i /\ l[i].key = key
           Left(k) == \E i \in 1 .. Len(f[k]) : f[k][i].key = key
           P == {k \in Nat : k <= n => IsSeq(f[k]) /\ (In(k) <=> Left(k))}
<1>4. 0 \in P
  <2>1. ~In(0)
    BY <1>1
  <2>2. Len(f[0]) = 0
    BY <1>3
  <2>3. IsSeq(f[0])
    <3>1. <<>> \in Seq({})
      OBVIOUS
    <3> QED
      BY <1>3, <3>1 DEF IsSeq
  <2>4. ~Left(0)
    BY <2>2
  <2> QED
    BY <2>1, <2>3, <2>4
<1>5. ASSUME NEW k \in P PROVE k + 1 \in P
  <2>1. SUFFICES ASSUME k + 1 <= n PROVE IsSeq(f[k + 1]) /\ (In(k + 1) <=> Left(k + 1))
    OBVIOUS
  <2>2. k \in Nat /\ k <= n /\ IsSeq(f[k]) /\ (In(k) <=> Left(k))
    BY <1>1, <2>1
  <2> DEFINE e == l[n + 1 - (k + 1)]
             m == <<e>> \o f[k]
  <2>3. k + 1 \in 1 .. n /\ (k + 1) - 1 = k
    BY <1>1, <2>1, <2>2
  <2>4. f[k + 1] = IF e.key \in keys THEN f[k] ELSE m
    BY <1>3, <2>3
  <2>5. In(k + 1) <=> (e.key = key \/ In(k))
    <3>1. n - k \in 1 .. n /\ n + 1 - (k + 1) = n - k
      BY <1>1, <2>1, <2>2
    <3>2. \A i \in 1 .. n : n - (k + 1) < i <=> (i = n - k \/ n - k < i)
      BY <1>1, <2>2
    <3> QED
      BY <3>1, <3>2
  <2>6. /\ IsSeq(m) /\ Len(f[k]) \in Nat /\ Len(m) = Len(f[k]) + 1
        /\ m[1] = e /\ \A i \in 1 .. Len(f[k]) : m[i + 1] = f[k][i]
    <3>1. IsSeq(f[k])
      BY <2>2
    <3> DEFINE q == f[k]
    <3>2. IsSeq(q)
      BY <3>1
    <3> HIDE DEF e, q, In, Left, P
    <3>3. /\ IsSeq(<<e>> \o q) /\ Len(q) \in Nat /\ Len(<<e>> \o q) = Len(q) + 1
          /\ (<<e>> \o q)[1] = e /\ \A i \in 1 .. Len(q) : (<<e>> \o q)[i + 1] = q[i]
      BY <3>2, InFront
    <3> QED
      BY <3>3 DEF q
  <2> HIDE DEF e, m
  <2>7. (\E i \in 1 .. Len(m) : m[i].key = key) <=> (e.key = key \/ Left(k))
    <3>1. ASSUME NEW i \in 1 .. Len(m), m[i].key = key PROVE e.key = key \/ Left(k)
      <4>1. CASE i = 1
        BY <2>6, <3>1, <4>1
      <4>2. CASE i # 1
        <5>1. i - 1 \in 1 .. Len(f[k]) /\ (i - 1) + 1 = i
          BY <2>6, <4>2
        <5>2. f[k][i - 1] = m[i]
          BY <2>6, <5>1
        <5> QED
          BY <3>1, <5>1, <5>2
      <4> QED
        BY <4>1, <4>2
    <3>2. ASSUME e.key = key PROVE \E i \in 1 .. Len(m) : m[i].key = key
      <4>1. 1 \in 1 .. Len(m)
        BY <2>6
      <4> QED
        BY <2>6, <3>2, <4>1
    <3>3. ASSUME Left(k) PROVE \E i \in 1 .. Len(m) : m[i].key = key
      <4>1. PICK i \in 1 .. Len(f[k]) : f[k][i].key = key
        BY <3>3
      <4>2. i + 1 \in 1 .. Len(m) /\ m[i + 1] = f[k][i]
        BY <2>6, <4>1
      <4> QED
        BY <4>1, <4>2
    <3> HIDE DEF Left
    <3> QED
      BY <3>1, <3>2, <3>3
  <2>8. CASE e.key \in keys
    <3>1. f[k + 1] = f[k] /\ e.key # key
      BY <2>4, <2>8
    <3>2. Left(k + 1) <=> Left(k)
      BY <3>1
    <3> HIDE DEF In, Left
    <3> QED
      BY <2>2, <2>5, <3>1, <3>2
  <2>9. CASE e.key \notin keys
    <3>1. f[k + 1] = m
      BY <2>4, <2>9
    <3>2. Left(k + 1) <=> \E i \in 1 .. Len(m) : m[i].key = key
      BY <3>1
    <3> HIDE DEF In, Left
    <3> QED
      BY <2>2, <2>5, <2>6, <2>7, <3>1, <3>2
  <2> QED
    BY <2>8, <2>9
<1>6. P = Nat
  <2> HIDE DEF P
  <2>1. P \in SUBSET Nat
    BY DEF P
  <2> QED
    BY <1>4, <1>5, <2>1, EveryNumber
<1>7. In(n) <=> Left(n)
  BY <1>1, <1>6
<1>8. In(n) <=> \E i \in 1 .. n : l[i].key = key
  BY <1>1
<1> QED
  BY <1>3, <1>7, <1>8 DEF n

\* A list arrives with the keys it had.
LEMMA KeysArrive ==
  ASSUME NEW list, Len(list) \in Nat, NEW key, \A i \in 1 .. Len(list) : list[i].key # key
  PROVE  /\ IsSeq(ExtrasArrived(list)) /\ Len(ExtrasArrived(list)) = Len(list)
         /\ \A i \in 1 .. Len(ExtrasArrived(list)) : ExtrasArrived(list)[i].key # key
<1> DEFINE n == Len(list)
           arrived == MapArrived[Depth]
           a == ExtrasArrived(list)
<1>1. a = [i \in 1 .. n |-> ElementArrived(list[n + 1 - i], arrived)]
  BY DEF ExtrasArrived, ListArrived
<1> HIDE DEF arrived, a
<1>2. IsSeq(a)
  <2>1. ListArrived(list, arrived) = Reversed(Arrivals(list, arrived), n)
    BY ListArrivedIs
  <2>2. IsSeq(Reversed(Arrivals(list, arrived), n))
    BY ReversedGrows
  <2> QED
    BY <2>1, <2>2 DEF a, ExtrasArrived, arrived
<1>3. Len(a) = n
  <2> HIDE DEF n
  <2>1. DOMAIN a = 1 .. n
    BY <1>1
  <2>2. Len(a) \in Nat /\ DOMAIN a = 1 .. Len(a)
    BY <1>2 DEF IsSeq
  <2> QED
    BY <2>1, <2>2 DEF n
<1>4. ASSUME NEW i \in 1 .. n PROVE a[i].key # key
  <2>1. n + 1 - i \in 1 .. n
    OBVIOUS
  <2>2. ElementArrived(list[n + 1 - i], arrived).key = list[n + 1 - i].key
    BY ElementArrivedIs
  <2>3. a[i] = ElementArrived(list[n + 1 - i], arrived)
    BY <1>1
  <2> QED
    BY <2>1, <2>2, <2>3
<1> QED
  BY <1>2, <1>3, <1>4 DEF a

\* The sender is noted in front of the extras.
LEMMA SourceIsNoted ==
  ASSUME NEW extras, IsSeq(extras),
         Found(extras, EXTRA_KEY_UDP_PORT) = {}, Found(extras, EXTRA_KEY_UDP_HOST) = {},
         Found(extras, EXTRA_KEY_UDP_ACK) = {}, NEW source
  PROVE  /\ ValueOf(NotedExtras(extras, source), EXTRA_KEY_UDP_PORT) = source.port
         /\ ValueOf(NotedExtras(extras, source), EXTRA_KEY_UDP_HOST) = source.host
<1> DEFINE P == EXTRA_KEY_UDP_PORT
           H == EXTRA_KEY_UDP_HOST
           A == EXTRA_KEY_UDP_ACK
           p == IntExtra(P, source.port)
           h == StrExtra(H, source.host)
           k == Extra(A, PREFIX_TYPE_BOOLEAN, 1)
           a == <<p>> \o extras
           b == <<h>> \o a
           c == <<k>> \o b
<1>1. P # H /\ P # A /\ H # A
  BY DEF EXTRA_KEY_UDP_PORT, EXTRA_KEY_UDP_HOST, EXTRA_KEY_UDP_ACK
<1>2. /\ p.key = P /\ p.val = source.port /\ h.key = H /\ h.val = source.host /\ k.key = A
  BY DEF IntExtra, StrExtra, Extra
<1>3. NotedExtras(extras, source) = PutExtra(PutExtra(PutExtra(extras, p), h), k)
  BY DEF NotedExtras
<1> HIDE DEF p, h, k
<1>4. ASSUME NEW l, IsSeq(l), NEW e, NEW key, Found(l, key) = {}, e.key # key
      PROVE  Found(<<e>> \o l, key) = {}
  <2> DEFINE m == <<e>> \o l
  <2>1. /\ IsSeq(m) /\ Len(l) \in Nat /\ Len(m) = Len(l) + 1
        /\ m[1] = e /\ \A i \in 1 .. Len(l) : m[i + 1] = l[i]
    BY <1>4, InFront
  <2>2. \A i \in 1 .. Len(l) : l[i].key # key
    BY <1>4, FoundIs
  <2> HIDE DEF m
  <2>3. \A i \in 1 .. Len(m) : m[i].key # key
    <3> TAKE i \in 1 .. Len(m)
    <3>1. CASE i = 1
      BY <1>4, <2>1, <3>1
    <3>2. CASE i # 1
      <4>1. i - 1 \in 1 .. Len(l) /\ (i - 1) + 1 = i
        BY <2>1, <3>2
      <4> QED
        BY <2>1, <2>2, <4>1
    <3> QED
      BY <3>1, <3>2
  <2>4. Found(m, key) = {}
    BY <2>1, <2>3, FoundIs
  <2> QED
    BY <2>4 DEF m
<1> HIDE DEF P, H, A
<1>5. Found(extras, P) = {} /\ Found(extras, H) = {} /\ Found(extras, A) = {}
  BY DEF P, H, A
<1>6. PutExtra(extras, p) = a /\ IsSeq(a) /\ Found(a, H) = {} /\ Found(a, A) = {}
  BY <1>1, <1>2, <1>4, <1>5, InFront DEF PutExtra
<1> HIDE DEF a
<1>7. PutExtra(a, h) = b /\ IsSeq(b) /\ Found(b, A) = {}
  BY <1>1, <1>2, <1>4, <1>6, InFront DEF PutExtra
<1> HIDE DEF b
<1>8. PutExtra(b, k) = c
  BY <1>2, <1>7 DEF PutExtra
<1>9. NotedExtras(extras, source) = c
  BY <1>3, <1>6, <1>7, <1>8
<1>10. ValueOf(a, P) = source.port
  BY <1>2, ValueInFront DEF a, Gives
<1>11. ValueOf(b, P) = source.port /\ ValueOf(b, H) = source.host
  BY <1>1, <1>2, <1>6, <1>10, ValueInFront DEF b, Gives
<1>12. ValueOf(c, P) = source.port /\ ValueOf(c, H) = source.host
  BY <1>1, <1>2, <1>7, <1>11, ValueInFront DEF Gives
<1> QED
  BY <1>9, <1>12 DEF P, H

-----------------------------------------------------------------------------
(* An item as it is parsed                                                 *)

\* What every field is, whether it was written or not.
AllFields(v, it) ==
  /\ v.flag = it.flag /\ v.fr = it.fr /\ v.id = it.id /\ v.type = it.type
  /\ v.topic = it.topic /\ v.srcClientId = it.srcClientId /\ v.to = it.to
  /\ v.callback = it.callback
  /\ v.cxt = IF it.cxt # <<>> THEN ExtrasArrived(it.cxt) ELSE <<>>
  /\ v.data = IF it.data # Null THEN DataArrived(it) ELSE Null

LEMMA FieldsNow ==
  ASSUME NEW it, NEW v, NEW well, well = TRUE, NEW n, n = 8, SoFar(v, it, n, well)
  PROVE  AllFields(v, it)
<1>1. \A i \in 1 .. 8 :
        v[FieldName[i]] = IF Present(it)[i] THEN FieldArrived(it, i) ELSE Nothing(i)
  <2> TAKE i \in 1 .. 8
  <2>1. i <= n /\ v[FieldName[i]] = IF i <= n THEN FieldNow(it, i) ELSE Nothing(i)
    BY DEF SoFar
  <2> QED
    BY <2>1 DEF FieldNow
<1>2. /\ FieldName[1] = "id" /\ FieldName[2] = "type" /\ FieldName[3] = "topic"
      /\ FieldName[4] = "srcClientId" /\ FieldName[5] = "to" /\ FieldName[6] = "callback"
      /\ FieldName[7] = "cxt" /\ FieldName[8] = "data"
  BY DEF FieldName
<1>3. /\ Nothing(1) = 0 /\ Nothing(2) = 0 /\ Nothing(3) = Null /\ Nothing(4) = 0
      /\ Nothing(5) = 0 /\ Nothing(6) = Null /\ Nothing(7) = <<>> /\ Nothing(8) = Null
  BY <1>2 DEF Nothing, NoField
<1>14. 1 \in 1 .. 8 /\ 2 \in 1 .. 8 /\ 3 \in 1 .. 8 /\ 4 \in 1 .. 8 /\ 5 \in 1 .. 8
       /\ 6 \in 1 .. 8 /\ 7 \in 1 .. 8 /\ 8 \in 1 .. 8
  OBVIOUS
<1>12. /\ Present(it)[1] = (it.id # 0) /\ Present(it)[2] = (it.type # 0)
       /\ Present(it)[3] = (it.topic # Null) /\ Present(it)[4] = (it.srcClientId # 0)
       /\ Present(it)[5] = (it.to # 0) /\ Present(it)[6] = (it.callback # Null)
       /\ Present(it)[7] = (it.cxt # <<>>) /\ Present(it)[8] = (it.data # Null)
  BY PresentIs
<1>13. /\ FieldArrived(it, 1) = it.id /\ FieldArrived(it, 2) = it.type
       /\ FieldArrived(it, 3) = it.topic /\ FieldArrived(it, 4) = it.srcClientId
       /\ FieldArrived(it, 5) = it.to /\ FieldArrived(it, 6) = it.callback
       /\ FieldArrived(it, 7) = ExtrasArrived(it.cxt)
       /\ FieldArrived(it, 8) = DataArrived(it)
  BY FieldArrivedIs
<1>4. v.id = it.id
  <2>1. v.id = IF it.id # 0 THEN it.id ELSE 0
    BY <1>1, <1>2, <1>3, <1>12, <1>13, <1>14
  <2> QED
    BY <2>1
<1>5. v.type = it.type
  <2>1. v.type = IF it.type # 0 THEN it.type ELSE 0
    BY <1>1, <1>2, <1>3, <1>12, <1>13, <1>14
  <2> QED
    BY <2>1
<1>6. v.topic = it.topic
  <2>1. v.topic = IF it.topic # Null THEN it.topic ELSE Null
    BY <1>1, <1>2, <1>3, <1>12, <1>13, <1>14
  <2> QED
    BY <2>1
<1>7. v.srcClientId = it.srcClientId
  <2>1. v.srcClientId = IF it.srcClientId # 0 THEN it.srcClientId ELSE 0
    BY <1>1, <1>2, <1>3, <1>12, <1>13, <1>14
  <2> QED
    BY <2>1
<1>8. v.to = it.to
  <2>1. v.to = IF it.to # 0 THEN it.to ELSE 0
    BY <1>1, <1>2, <1>3, <1>12, <1>13, <1>14
  <2> QED
    BY <2>1
<1>9. v.callback = it.callback
  <2>1. v.callback = IF it.callback # Null THEN it.callback ELSE Null
    BY <1>1, <1>2, <1>3, <1>12, <1>13, <1>14
  <2> QED
    BY <2>1
<1>10. v.cxt = IF it.cxt # <<>> THEN ExtrasArrived(it.cxt) ELSE <<>>
  BY <1>1, <1>2, <1>3, <1>12, <1>13, <1>14
<1>11. v.data = IF it.data # Null THEN DataArrived(it) ELSE Null
  BY <1>1, <1>2, <1>3, <1>12, <1>13, <1>14
<1> QED
  BY <1>4, <1>5, <1>6, <1>7, <1>8, <1>9, <1>10, <1>11 DEF SoFar, AllFields

\* A new context leaves the other fields alone.
LEMMA ContextAdded ==
  ASSUME NEW it, NEW v, NEW k, NEW well, SoFar(v, it, k, well), NEW l,
         NEW u, u = [v EXCEPT !.cxt = l]
  PROVE  /\ u.cxt = l /\ u.flag = v.flag /\ u.fr = v.fr /\ u.id = v.id /\ u.type = v.type
         /\ u.topic = v.topic /\ u.srcClientId = v.srcClientId /\ u.to = v.to
         /\ u.callback = v.callback /\ u.data = v.data
<1>1. v = [n \in ItemFields |-> v[n]]
  BY DEF SoFar
<1>2. DOMAIN v = ItemFields
  BY <1>1
<1> QED
  BY <1>2 DEF ItemFields

\* The item that a listener gets is the one its publisher passed.
ItemParsed(it, extras, v) ==
  SoFar(v, it, 8, ~payload.lost /\ ~ItemHasLong(it))
  /\ value = After(payload.bytes, payload, [v EXCEPT !.cxt = WithSource(v.cxt, extras)])

LEMMA ItemIsParsed ==
  ASSUME MessageInv, SentWhole, stage = "parsed", msg.type = MSG_TYPE_PUBSUB
  PROVE  /\ asked \in DOMAIN Items /\ IsItem(Items[asked])
         /\ \E v : ItemParsed(Items[asked], got.msg.extras, v)
<1> DEFINE it == Items[asked]
           m == got.msg
           w == payload
<1>1. /\ AsSent /\ m.payload = msg.payload /\ m.type = msg.type
      /\ msg.payload # Null /\ value = Parsed(m)
  BY GotIsSent DEF MessageInv
<1>2. MSG_TYPE_REQ_JRPC # MSG_TYPE_PUBSUB
  BY DEF MSG_TYPE_REQ_JRPC, MSG_TYPE_PUBSUB
<1>3. /\ asked \in DOMAIN Items /\ w = SerialPsItem(it)
      /\ msg.payload = IF w.ok THEN w.bytes ELSE Null
  BY <1>1, <1>2 DEF AsSent, Made
<1>4. w.ok /\ m.payload = w.bytes
  BY <1>1, <1>3
<1>5. IsItem(it)
  BY <1>3, InputsTyped
<1>6. value = ParseItem(m)
  BY <1>1 DEF Parsed
<1> HIDE DEF it, m
<1>7. \E v : /\ ParseItem(m) = After(w.bytes, w, [v EXCEPT !.cxt = WithSource(v.cxt, m.extras)])
             /\ SoFar(v, it, 8, ~w.lost /\ ~ItemHasLong(it))
  <2>1. w = SerialPsItem(it) /\ w.ok /\ m.payload = w.bytes
    BY <1>3, <1>4
  <2> HIDE DEF w
  <2> QED
    BY <1>5, <2>1, ItemIsRead8
<1>8. \E v : ItemParsed(it, m.extras, v)
  BY <1>6, <1>7 DEF ItemParsed
<1> QED
  BY <1>3, <1>5, <1>8 DEF it, m

\* Elements of a context that say not whom to answer are as they were sent.
LEMMA ContextArrives ==
  ASSUME NEW it, it.cxt \in Map, NEW cxt, IsSeq(cxt),
         cxt = IF it.cxt # <<>> THEN ExtrasArrived(it.cxt) ELSE <<>>, NEW extras
  PROVE  \A i \in 1 .. Len(it.cxt) :
           ExtrasArrived(it.cxt)[i].key \in ReplyKeys
             \/ WithSource(cxt, extras)[i] = ExtrasArrived(it.cxt)[i]
<1> DEFINE u == WithSource(cxt, extras)
           n == Len(it.cxt)
<1>1. Extended(u, cxt)
  BY WithSourceIs
<1>2. n \in Nat /\ (n # 0 => it.cxt # <<>>)
  BY DEF Map
<1>3. DOMAIN ExtrasArrived(it.cxt) = 1 .. n
  BY DEF ExtrasArrived, ListArrived
<1> HIDE DEF u, n
<1>4. ASSUME NEW i \in 1 .. n, ExtrasArrived(it.cxt)[i].key \notin ReplyKeys
      PROVE  u[i] = ExtrasArrived(it.cxt)[i]
  <2>1. cxt = ExtrasArrived(it.cxt)
    BY <1>2, <1>4
  <2>2. Len(cxt) = n
    <3>1. DOMAIN cxt = 1 .. Len(cxt) /\ Len(cxt) \in Nat
      BY DEF IsSeq
    <3> QED
      BY <1>2, <1>3, <2>1, <3>1
  <2> QED
    BY <1>1, <1>4, <2>1, <2>2 DEF Extended
<1> QED
  BY <1>4 DEF u, n

\* The second part of ItemArrives, of a message that was sent whole.
LEMMA WholeItemArrives ==
  ASSUME MessageInv, SentWhole, stage = "parsed", msg.type = MSG_TYPE_PUBSUB,
         ~payload.lost, NEW it, it = Items[asked], ~ItemHasLong(it)
  PROVE  /\ value.ok
         /\ \A f \in DOMAIN it \ {"cxt", "data"} : value.val[f] = it[f]
         /\ \A i \in 1 .. Len(it.cxt) :
              ExtrasArrived(it.cxt)[i].key \in ReplyKeys
                \/ value.val.cxt[i] = ExtrasArrived(it.cxt)[i]
         /\ value.val.data = IF it.data # Null THEN DataArrived(it) ELSE Null
<1> DEFINE extras == got.msg.extras
<1>1. IsItem(it) /\ \E v : ItemParsed(it, extras, v)
  BY ItemIsParsed
<1>2. PICK v : ItemParsed(it, extras, v)
  BY <1>1
<1> DEFINE well == ~payload.lost /\ ~ItemHasLong(it)
           n == 8
           l == WithSource(v.cxt, extras)
           u == [v EXCEPT !.cxt = l]
<1>3. well = TRUE /\ n = 8 /\ SoFar(v, it, n, well) /\ value = After(payload.bytes, payload, u)
  BY <1>2 DEF ItemParsed
<1>4. value.ok /\ value.val = u
  BY <1>3, AfterIs
<1>5. u = [v EXCEPT !.cxt = l]
  OBVIOUS
<1> HIDE DEF well, n, u, l, extras
<1>6. /\ u.cxt = l /\ u.flag = v.flag /\ u.fr = v.fr /\ u.id = v.id /\ u.type = v.type
      /\ u.topic = v.topic /\ u.srcClientId = v.srcClientId /\ u.to = v.to
      /\ u.callback = v.callback /\ u.data = v.data
  BY <1>3, <1>5, ContextAdded
<1>10. AllFields(v, it)
  BY <1>3, FieldsNow
<1>7. /\ v.flag = it.flag /\ v.fr = it.fr /\ v.id = it.id /\ v.type = it.type
      /\ v.topic = it.topic /\ v.srcClientId = it.srcClientId /\ v.to = it.to
      /\ v.callback = it.callback
      /\ v.cxt = IF it.cxt # <<>> THEN ExtrasArrived(it.cxt) ELSE <<>>
      /\ v.data = IF it.data # Null THEN DataArrived(it) ELSE Null
  BY <1>10 DEF AllFields
<1>8. \A f \in DOMAIN it \ {"cxt", "data"} : value.val[f] = it[f]
  <2>1. DOMAIN it \ {"cxt", "data"}
          = {"flag", "fr", "id", "type", "topic", "srcClientId", "to", "callback"}
    BY <1>1 DEF IsItem
  <2> QED
    BY <1>4, <1>6, <1>7, <2>1
<1>9. \A i \in 1 .. Len(it.cxt) :
        ExtrasArrived(it.cxt)[i].key \in ReplyKeys \/ l[i] = ExtrasArrived(it.cxt)[i]
  <2>1. it.cxt \in Map /\ IsSeq(v.cxt)
    BY <1>1, <1>3, ItemIs DEF SoFar
  <2> QED
    BY <1>7, <2>1, ContextArrives DEF l
<1> QED
  BY <1>4, <1>6, <1>7, <1>8, <1>9

\* An item without payload did not fit.
LEMMA CrashedIsUnfit ==
  ASSUME MessageInv, SentWhole, stage = "crashed", msg.type = MSG_TYPE_PUBSUB
  PROVE  ~payload.ok
<1> DEFINE it == Items[asked]
<1>1. AsSent /\ msg.payload = Null
  BY GotIsSent DEF MessageInv
<1>2. MSG_TYPE_REQ_JRPC # MSG_TYPE_PUBSUB
  BY DEF MSG_TYPE_REQ_JRPC, MSG_TYPE_PUBSUB
<1>3. /\ asked \in DOMAIN Items /\ payload = SerialPsItem(it)
      /\ msg.payload = IF payload.ok THEN payload.bytes ELSE Null
  BY <1>1, <1>2 DEF AsSent, Made
<1>4. IsItem(it)
  BY <1>3, InputsTyped
<1> HIDE DEF it
<1>5. PICK f : FieldsPut(f, it)
  BY SerialPsItemIs
<1>6. Sound(payload)
  <2>1. 8 \in 0 .. 8
    OBVIOUS
  <2>2. Sound(f[8])
    BY <1>4, <1>5, <2>1, FieldsGrow
  <2> QED
    BY <1>3, <1>5, <2>2 DEF FieldsPut
<1>7. payload.bytes # Null
  BY <1>6, NullIsNothing DEF Sound, WriterState, Name
<1> QED
  BY <1>1, <1>3, <1>7

\* A key that was not sent is not received.
LEMMA KeyNotReceived ==
  ASSUME AsSent, Received(msg, Decoded, LongKeys), NEW key, Found(msg.extras, key) = {}
  PROVE  IsSeq(Decoded.val.extras) /\ Found(Decoded.val.extras, key) = {}
<1> DEFINE sent == msg.extras
           arrived == ExtrasArrived(sent)
           in == Decoded.val.extras
           keys == LongKeys
<1>1. IsSeq(sent) /\ Len(sent) \in Nat
  BY DEF AsSent, Marked, IsSeq, Extras
<1>2. \A i \in 1 .. Len(sent) : sent[i].key # key
  BY <1>1, FoundIs
<1>3. key \notin keys
  BY <1>2 DEF LongKeys
<1>4. IsSeq(in) /\ Without(in, keys) = Without(arrived, keys)
  BY DEF Received
<1> HIDE DEF sent, arrived, in, keys
<1>5. IsSeq(arrived) /\ \A i \in 1 .. Len(arrived) : arrived[i].key # key
  BY <1>1, <1>2, KeysArrive DEF arrived
<1>6. \A i \in 1 .. Len(Without(arrived, keys)) : Without(arrived, keys)[i].key # key
  BY <1>3, <1>5, KeysLeft
<1>7. \A i \in 1 .. Len(in) : in[i].key # key
  BY <1>3, <1>4, <1>6, KeysLeft
<1>8. Found(in, key) = {}
  BY <1>4, <1>7, FoundIs
<1> QED
  BY <1>4, <1>8 DEF in

\* An item of a message that was sent whole can be answered.
LEMMA WholeReplyNoted ==
  ASSUME MessageInv, SentWhole
  PROVE  ReplyAddressNoted
<1> DEFINE udp == {EXTRA_KEY_UDP_PORT, EXTRA_KEY_UDP_HOST, EXTRA_KEY_UDP_ACK}
           from == got.from
<1>1. SUFFICES ASSUME stage = "parsed", msg.type = MSG_TYPE_PUBSUB, from # Null,
                      \A key \in udp : Found(msg.extras, key) = {}
               PROVE  ReplyAddress = from
  BY DEF ReplyAddressNoted, FoundByUdp
<1>2. AsSent /\ Received(msg, Decoded, LongKeys) /\ DecodedMsg(Decoded.val)
  BY <1>1, GotIsSent
<1>3. from \in Sources /\ got.msg = NoteSource(Decoded.val, from)
  BY <1>1 DEF MessageInv
<1>4. from \in [host : Name, port : Between(1, 65535)]
  BY <1>3, InputsTyped
<1>5. from.host \in Name /\ from.port \in Int /\ from.port >= 1
      /\ from = [host |-> from.host, port |-> from.port]
  BY <1>4 DEF Between
<1>6. from.host # Null /\ from.port \notin {Null, 0}
  BY <1>5, NullIsNothing
<1> DEFINE in == Decoded.val.extras
           extras == got.msg.extras
<1>7. extras = NotedExtras(in, from)
  BY <1>2, <1>3, NotedIs
<1>8. /\ IsSeq(in) /\ Found(in, EXTRA_KEY_UDP_PORT) = {} /\ Found(in, EXTRA_KEY_UDP_HOST) = {}
      /\ Found(in, EXTRA_KEY_UDP_ACK) = {}
  BY <1>1, <1>2, KeyNotReceived
<1> HIDE DEF in, extras, from
<1>9. /\ ValueOf(extras, EXTRA_KEY_UDP_PORT) = from.port
      /\ ValueOf(extras, EXTRA_KEY_UDP_HOST) = from.host
  BY <1>7, <1>8, SourceIsNoted
<1>10. PICK v : ItemParsed(Items[asked], extras, v)
  BY <1>1, ItemIsParsed DEF extras
<1> DEFINE well == ~payload.lost /\ ~ItemHasLong(Items[asked])
           n == 8
           it == Items[asked]
           cxt == v.cxt
           l == WithSource(cxt, extras)
           u == [v EXCEPT !.cxt = l]
<1>11. IsSeq(cxt) /\ SoFar(v, it, n, well) /\ value = After(payload.bytes, payload, u)
       /\ u = [v EXCEPT !.cxt = l]
  BY <1>10 DEF ItemParsed, SoFar
<1>12. value.val = u
  BY <1>11, AfterIs
<1> HIDE DEF well, n, u, l, it
<1>13. u.cxt = l
  BY <1>11, ContextAdded
<1> DEFINE port == from.port
           host == from.host
<1>14. /\ port = ValueOf(extras, EXTRA_KEY_UDP_PORT) /\ port \notin {Null, 0}
       /\ host = ValueOf(extras, EXTRA_KEY_UDP_HOST) /\ host # Null
  BY <1>6, <1>9
<1> HIDE DEF port, host, cxt
<1>15. ValueOf(l, EXTRA_SKEY_UDP_PORT) = port /\ ValueOf(l, EXTRA_SKEY_UDP_HOST) = host
  BY <1>11, <1>14, SourceIsFound DEF l
<1>16. ReplyAddress = [host |-> host, port |-> port]
  BY <1>12, <1>13, <1>15 DEF ReplyAddress
<1> QED
  BY <1>5, <1>16 DEF host, port

-----------------------------------------------------------------------------
(* What follows a list that is read                                        *)

\* Two readers, the second with b behind what the first one has: it is as far
\* and has read the same, or it is beyond what the first one has.
Like(r, q, b) ==
  q.bytes = r.bytes \o b /\ q.ok = r.ok /\ q.past = r.past /\ q.val = r.val
Shorter(r, t) == t.bytes \in Seq(Byte) /\ Len(t.bytes) <= Len(r.bytes)
Beside(r, q, b) ==
  /\ r.bytes \in Seq(Byte) /\ q.bytes \in Seq(Byte) /\ b \in Seq(Byte)
  /\ Like(r, q, b) \/ Len(q.bytes) <= Len(b)

LEMMA ReadingIs ==
  ASSUME NEW bytes, NEW ok, NEW past, NEW val
  PROVE  /\ Reading(bytes, ok, past, val).bytes = bytes
         /\ Reading(bytes, ok, past, val).ok = ok
         /\ Reading(bytes, ok, past, val).past = past
         /\ Reading(bytes, ok, past, val).val = val
  BY DEF Reading

\* Once beyond, for ever beyond.
LEMMA StaysBeyond ==
  ASSUME NEW b \in Seq(Byte), NEW q, q.bytes \in Seq(Byte), Len(q.bytes) <= Len(b),
         NEW q2, Shorter(q, q2), NEW r2, r2.bytes \in Seq(Byte)
  PROVE  Beside(r2, q2, b)
<1>1. Len(q2.bytes) <= Len(b)
  BY DEF Shorter
<1> QED
  BY <1>1 DEF Shorter, Beside

LEMMA ShorterIs ==
  /\ \A r : r.bytes \in Seq(Byte) => Shorter(r, r)
  /\ \A r, t, u : Shorter(r, t) /\ Shorter(t, u) /\ r.bytes \in Seq(Byte) => Shorter(r, u)
  BY DEF Shorter

LEMMA ShorterFits ==
  ASSUME NEW r, NEW q, r.bytes \in Seq(Byte), q.bytes \in Seq(Byte), Shorter(r, q),
         NEW n \in Nat, Len(r.bytes) <= n
  PROVE  Len(q.bytes) <= n
<1>1. Len(r.bytes) \in Nat /\ Len(q.bytes) \in Nat
  OBVIOUS
<1>2. Len(q.bytes) <= Len(r.bytes)
  BY DEF Shorter
<1> QED
  BY <1>1, <1>2

LEMMA RestOfBoth ==
  ASSUME NEW s \in Seq(Byte), NEW b \in Seq(Byte), NEW x \in Nat, x <= Len(s)
  PROVE  Rest(s \o b, x) = Rest(s, x) \o b
<1> DEFINE a == s \o b
           c == Rest(s, x)
           e == Rest(a, x)
           d == c \o b
<1>1. /\ a \in Seq(Byte) /\ Len(a) = Len(s) + Len(b) /\ Len(s) \in Nat /\ Len(b) \in Nat
      /\ \A i \in 1 .. Len(s) : a[i] = s[i]
      /\ \A i \in 1 .. Len(b) : a[Len(s) + i] = b[i]
  BY Joining
<1> HIDE DEF a
<1>2. c \in Seq(Byte) /\ Len(c) = Len(s) - x /\ \A i \in 1 .. Len(s) - x : c[i] = s[x + i]
  BY RestIs
<1>3. e \in Seq(Byte) /\ Len(e) = Len(a) - x /\ \A i \in 1 .. Len(a) - x : e[i] = a[x + i]
  <2>1. a \in Seq(Byte) /\ x <= Len(a)
    BY <1>1
  <2>2. /\ Rest(a, x) \in Seq(Byte) /\ Len(Rest(a, x)) = Len(a) - x
        /\ \A i \in 1 .. Len(a) - x : Rest(a, x)[i] = a[x + i]
    BY <2>1, RestIs
  <2> QED
    BY <2>2
<1> HIDE DEF c, e
<1>4. /\ d \in Seq(Byte) /\ Len(d) = Len(c) + Len(b)
      /\ \A i \in 1 .. Len(c) : d[i] = c[i]
      /\ \A i \in 1 .. Len(b) : d[Len(c) + i] = b[i]
  <2>1. c \in Seq(Byte) /\ b \in Seq(Byte)
    BY <1>2
  <2>2. /\ c \o b \in Seq(Byte) /\ Len(c \o b) = Len(c) + Len(b)
        /\ \A i \in 1 .. Len(c) : (c \o b)[i] = c[i]
        /\ \A i \in 1 .. Len(b) : (c \o b)[Len(c) + i] = b[i]
    BY <2>1, Joining
  <2> QED
    BY <2>2
<1> HIDE DEF d
<1>5. Len(e) = Len(d)
  BY <1>1, <1>2, <1>3, <1>4
<1>6. ASSUME NEW i \in 1 .. Len(e) PROVE e[i] = d[i]
  <2>1. e[i] = a[x + i]
    BY <1>3
  <2>2. CASE i <= Len(c)
    <3>1. i \in 1 .. Len(c) /\ i \in 1 .. Len(s) - x /\ x + i \in 1 .. Len(s)
      BY <1>1, <1>2, <2>2
    <3> QED
      BY <1>1, <1>2, <1>4, <2>1, <3>1
  <2>3. CASE ~(i <= Len(c))
    <3> DEFINE j == i - Len(c)
    <3>1. j \in 1 .. Len(b) /\ i = Len(c) + j /\ x + i = Len(s) + j
      BY <1>1, <1>2, <1>3, <2>3
    <3> HIDE DEF j
    <3>2. d[i] = b[j] /\ a[x + i] = b[j]
      BY <1>1, <1>4, <3>1
    <3> QED
      BY <2>1, <3>2
  <2> QED
    BY <2>2, <2>3
<1>7. e = d
  BY <1>3, <1>4, <1>5, <1>6, SameSequence
<1> QED
  BY <1>7 DEF e, d, c, a

\* A byte or more that is taken, or not.
LEMMA TakeIs ==
  ASSUME NEW r, r.bytes \in Seq(Byte), NEW n
  PROVE  /\ Shorter(r, Take(r, n))
         /\ Take(r, n).ok => /\ r.ok /\ n \in Nat /\ n <= Len(r.bytes)
                             /\ Take(r, n).bytes = Rest(r.bytes, n)
                             /\ Len(Take(r, n).bytes) = Len(r.bytes) - n
                             /\ Take(r, n).val \in Seq(Byte) /\ Len(Take(r, n).val) = n
                             /\ Take(r, n).val = SubSeq(r.bytes, 1, n)
<1> DEFINE s == r.bytes
           u == Reading(Rest(s, n), TRUE, r.past, SubSeq(s, 1, n))
<1>1. Take(r, n) = IF r.ok /\ s # <<>> /\ n \in 0 .. Len(s) THEN u ELSE Failed(r)
  BY DEF Take, Rest
<1>2. CASE r.ok /\ s # <<>> /\ n \in 0 .. Len(s)
  <2>1. n \in Nat /\ n <= Len(s) /\ s \in Seq(Byte) /\ Len(s) \in Nat
    BY <1>2
  <2>2. Rest(s, n) \in Seq(Byte) /\ Len(Rest(s, n)) = Len(s) - n
    BY <2>1, RestIs
  <2>3. SubSeq(s, 1, n) \in Seq(Byte) /\ Len(SubSeq(s, 1, n)) = n
    <3> DEFINE z == 0
    <3>1. z \in Nat /\ z <= n /\ z + 1 = 1 /\ n - z = n
      BY <2>1
    <3> HIDE DEF z
    <3>2. SubSeq(s, z + 1, n) \in Seq(Byte) /\ Len(SubSeq(s, z + 1, n)) = n - z
      BY <2>1, <3>1, PartIs
    <3> QED
      BY <3>1, <3>2
  <2>4. u.bytes = Rest(s, n) /\ u.val = SubSeq(s, 1, n)
    BY DEF Reading
  <2> HIDE DEF u, s
  <2>5. Take(r, n) = u
    BY <1>1, <1>2
  <2>6. u.bytes \in Seq(Byte) /\ Len(u.bytes) <= Len(s) /\ Len(u.bytes) = Len(s) - n
    BY <2>1, <2>2, <2>4
  <2>7. u.val \in Seq(Byte) /\ Len(u.val) = n /\ u.val = SubSeq(s, 1, n)
    BY <2>3, <2>4
  <2>8. Shorter(r, u)
    BY <2>6 DEF Shorter, s
  <2> QED
    BY <1>2, <2>1, <2>4, <2>5, <2>6, <2>7, <2>8 DEF s
<1>3. CASE ~(r.ok /\ s # <<>> /\ n \in 0 .. Len(s))
  <2>1. Failed(r).bytes = s /\ Failed(r).ok = FALSE
    BY DEF Failed, Reading
  <2> HIDE DEF u
  <2>2. Take(r, n) = Failed(r)
    BY <1>1, <1>3
  <2> QED
    BY <2>1, <2>2 DEF Shorter
<1> QED
  BY <1>2, <1>3

LEMMA TakeBeside ==
  ASSUME NEW r, NEW q, NEW b, Beside(r, q, b), NEW x, NEW y, Like(r, q, b) => x = y
  PROVE  Beside(Take(r, x), Take(q, y), b)
<1>1. r.bytes \in Seq(Byte) /\ q.bytes \in Seq(Byte) /\ b \in Seq(Byte)
  BY DEF Beside
<1>2. Take(r, x).bytes \in Seq(Byte) /\ Shorter(q, Take(q, y))
  BY <1>1, TakeIs DEF Shorter
<1>3. CASE Len(q.bytes) <= Len(b)
  BY <1>1, <1>2, <1>3, StaysBeyond
<1>4. CASE Like(r, q, b)
  <2> DEFINE s == r.bytes
             t == q.bytes
  <2>1. x = y /\ t = s \o b /\ q.ok = r.ok /\ q.past = r.past /\ q.val = r.val
    BY <1>4 DEF Like
  <2>2. Len(t) = Len(s) + Len(b) /\ Len(s) \in Nat /\ Len(b) \in Nat
    BY <1>1, <2>1
  <2>3. Take(r, x) = IF r.ok /\ s # <<>> /\ x \in 0 .. Len(s)
                     THEN Reading(SubSeq(s, x + 1, Len(s)), TRUE, r.past, SubSeq(s, 1, x))
                     ELSE Failed(r)
    BY DEF Take
  <2>4. Take(q, y) = IF q.ok /\ t # <<>> /\ x \in 0 .. Len(t)
                     THEN Reading(SubSeq(t, x + 1, Len(t)), TRUE, q.past, SubSeq(t, 1, x))
                     ELSE Failed(q)
    BY <2>1 DEF Take
  <2>5. CASE r.ok /\ s # <<>> /\ x \in 0 .. Len(s)
    <3>1. t # <<>> /\ x \in 0 .. Len(t)
      BY <1>1, <2>1, <2>2, <2>5
    <3>2. SubSeq(t, x + 1, Len(t)) = SubSeq(s, x + 1, Len(s)) \o b
      <4>1. x \in Nat /\ x <= Len(s)
        BY <2>5
      <4>2. Rest(s \o b, x) = Rest(s, x) \o b
        BY <1>1, <4>1, RestOfBoth
      <4> QED
        BY <2>1, <4>2 DEF Rest
    <3>3. SubSeq(t, 1, x) = SubSeq(s, 1, x)
      BY <1>1, <2>1, <2>2, <2>5
    <3>4. Like(Take(r, x), Take(q, y), b)
      <4> DEFINE a == SubSeq(s, x + 1, Len(s))
                 c == SubSeq(t, x + 1, Len(t))
                 v == SubSeq(s, 1, x)
                 u == SubSeq(t, 1, x)
      <4>1. Take(r, x) = Reading(a, TRUE, r.past, v)
        BY <2>3, <2>5
      <4>2. Take(q, y) = Reading(c, TRUE, q.past, u)
        BY <2>1, <2>4, <2>5, <3>1
      <4>3. c = a \o b /\ u = v
        BY <3>2, <3>3
      <4> HIDE DEF a, c, v, u, s, t
      <4> QED
        BY <2>1, <4>1, <4>2, <4>3 DEF Like, Reading
    <3> QED
      BY <1>1, <1>2, <3>4 DEF Beside, Shorter
  <2>6. CASE ~(r.ok /\ s # <<>> /\ x \in 0 .. Len(s))
    <3>1. CASE q.ok /\ t # <<>> /\ x \in 0 .. Len(t)
      <4>1. x \in Nat /\ x >= Len(s)
        BY <2>1, <2>2, <2>6, <3>1
      <4>2. Take(q, y).ok
        BY <2>4, <3>1 DEF Reading
      <4>3. Len(Take(q, y).bytes) = Len(t) - x
        BY <1>1, <2>1, <4>2, TakeIs
      <4>4. Len(Take(q, y).bytes) <= Len(b)
        BY <2>2, <4>1, <4>3
      <4> QED
        BY <1>1, <1>2, <4>4 DEF Beside, Shorter
    <3>2. CASE ~(q.ok /\ t # <<>> /\ x \in 0 .. Len(t))
      <4>1. Take(r, x) = Failed(r) /\ Take(q, y) = Failed(q)
        BY <2>3, <2>4, <2>6, <3>2
      <4>2. Like(Failed(r), Failed(q), b)
        BY <2>1 DEF Like, Failed, Reading
      <4> QED
        BY <1>1, <1>2, <4>1, <4>2 DEF Beside, Shorter
    <3> QED
      BY <3>1, <3>2
  <2> QED
    BY <2>5, <2>6
<1> QED
  BY <1>3, <1>4 DEF Beside

\* It is enough to look at the case in which both are as far.
LEMMA FromLike ==
  ASSUME NEW r, NEW q, NEW b, Beside(r, q, b), NEW r2, r2.bytes \in Seq(Byte),
         NEW q2, Shorter(q, q2), Like(r, q, b) => Beside(r2, q2, b)
  PROVE  Beside(r2, q2, b)
<1>1. r.bytes \in Seq(Byte) /\ q.bytes \in Seq(Byte) /\ b \in Seq(Byte)
  BY DEF Beside
<1>2. CASE Len(q.bytes) <= Len(b)
  BY <1>1, <1>2, StaysBeyond
<1>3. CASE Like(r, q, b)
  BY <1>3
<1> QED
  BY <1>2, <1>3 DEF Beside

\* What changes no bytes.
LEMMA SameBytes ==
  ASSUME NEW r, r.bytes \in Seq(Byte), NEW u, NEW v
  PROVE  /\ Shorter(r, WithVal(r, v)) /\ Shorter(r, Failed(r)) /\ Shorter(r, Unharmed(r))
         /\ Shorter(r, IfFailed(r, v)) /\ Shorter(r, Unasked(u, r))
  BY DEF Shorter, WithVal, Failed, Unharmed, IfFailed, Unasked, Reading

LEMMA ValBeside ==
  ASSUME NEW r, NEW q, NEW b, Beside(r, q, b), NEW x, NEW y, Like(r, q, b) => x = y
  PROVE  Beside(WithVal(r, x), WithVal(q, y), b)
<1>1. r.bytes \in Seq(Byte) /\ q.bytes \in Seq(Byte) /\ b \in Seq(Byte)
  BY DEF Beside
<1>2. ASSUME Like(r, q, b) PROVE Beside(WithVal(r, x), WithVal(q, y), b)
  <2>1. Like(WithVal(r, x), WithVal(q, y), b)
    BY <1>2 DEF Like, WithVal, Reading
  <2> QED
    BY <1>1, <2>1, SameBytes DEF Beside, Shorter
<1>3. WithVal(r, x).bytes \in Seq(Byte) /\ Shorter(q, WithVal(q, y))
  BY <1>1, SameBytes DEF Shorter
<1> QED
  BY <1>2, <1>3, FromLike

LEMMA OthersBeside ==
  ASSUME NEW r, NEW q, NEW b, Beside(r, q, b), NEW x
  PROVE  /\ Beside(Failed(r), Failed(q), b) /\ Beside(Unharmed(r), Unharmed(q), b)
         /\ Beside(IfFailed(r, x), IfFailed(q, x), b)
<1>1. r.bytes \in Seq(Byte) /\ q.bytes \in Seq(Byte) /\ b \in Seq(Byte)
  BY DEF Beside
<1>2. /\ Failed(r).bytes \in Seq(Byte) /\ Unharmed(r).bytes \in Seq(Byte)
      /\ IfFailed(r, x).bytes \in Seq(Byte)
      /\ Shorter(q, Failed(q)) /\ Shorter(q, Unharmed(q)) /\ Shorter(q, IfFailed(q, x))
      /\ Failed(q).bytes \in Seq(Byte) /\ Unharmed(q).bytes \in Seq(Byte)
      /\ IfFailed(q, x).bytes \in Seq(Byte)
  BY <1>1, SameBytes DEF Shorter
<1>3. ASSUME Like(r, q, b)
      PROVE  /\ Like(Failed(r), Failed(q), b) /\ Like(Unharmed(r), Unharmed(q), b)
             /\ Like(IfFailed(r, x), IfFailed(q, x), b)
  BY <1>3 DEF Like, Failed, Unharmed, IfFailed, WithVal, Reading
<1>4. ASSUME Like(r, q, b)
      PROVE  /\ Beside(Failed(r), Failed(q), b) /\ Beside(Unharmed(r), Unharmed(q), b)
             /\ Beside(IfFailed(r, x), IfFailed(q, x), b)
  BY <1>1, <1>2, <1>3, <1>4 DEF Beside
<1> QED
  BY <1>2, <1>4, FromLike

LEMMA UnaskedBeside ==
  ASSUME NEW r, NEW q, NEW b, Beside(r, q, b), NEW t, NEW u, Beside(t, u, b), Shorter(q, u)
  PROVE  Beside(Unasked(r, t), Unasked(q, u), b)
<1>1. /\ r.bytes \in Seq(Byte) /\ q.bytes \in Seq(Byte) /\ b \in Seq(Byte)
      /\ t.bytes \in Seq(Byte) /\ u.bytes \in Seq(Byte)
  BY DEF Beside
<1>2. /\ Shorter(t, Unasked(r, t)) /\ Shorter(u, Unasked(q, u))
  BY <1>1, SameBytes
<1>3. Unasked(r, t).bytes \in Seq(Byte) /\ Unasked(q, u).bytes \in Seq(Byte)
      /\ Shorter(q, Unasked(q, u))
  BY <1>1, <1>2, ShorterIs DEF Shorter
<1>4. ASSUME Like(r, q, b) PROVE Beside(Unasked(r, t), Unasked(q, u), b)
  <2>1. ASSUME Like(t, u, b) PROVE Beside(Unasked(r, t), Unasked(q, u), b)
    <3>1. Like(Unasked(r, t), Unasked(q, u), b)
      BY <1>4, <2>1 DEF Like, Unasked, Reading
    <3> QED
      BY <1>1, <1>3, <3>1 DEF Beside
  <2> QED
    BY <1>2, <1>3, <2>1, FromLike
<1> QED
  BY <1>3, <1>4, FromLike

\* Integers and lengths.
LEMMA IntShorter ==
  ASSUME NEW r, r.bytes \in Seq(Byte), NEW n
  PROVE  Shorter(r, TakeInt(r, n)) /\ Shorter(r, TakeLen(r))
<1>1. \A k : Shorter(r, Take(r, k)) /\ Take(r, k).bytes \in Seq(Byte)
  BY TakeIs DEF Shorter
<1>2. \A k, v : Shorter(r, WithVal(Take(r, k), v))
  <2> TAKE k, v
  <2>1. Shorter(Take(r, k), WithVal(Take(r, k), v))
    BY <1>1, SameBytes
  <2> QED
    BY <1>1, <2>1, ShorterIs
<1> QED
  BY <1>1, <1>2 DEF TakeInt, TakeLen

\* A choice that both make alike as long as both are as far.
LEMMA ChoiceBeside ==
  ASSUME NEW r, NEW q, NEW b, Beside(r, q, b), NEW c, NEW d, Like(r, q, b) => (c <=> d),
         NEW r1, NEW q1, Beside(r1, q1, b), Shorter(q, q1),
         NEW r2, NEW q2, Beside(r2, q2, b), Shorter(q, q2)
  PROVE  /\ Beside(IF c THEN r1 ELSE r2, IF d THEN q1 ELSE q2, b)
         /\ Shorter(q, IF d THEN q1 ELSE q2)
<1> DEFINE R == IF c THEN r1 ELSE r2
           Q == IF d THEN q1 ELSE q2
<1>1. R.bytes \in Seq(Byte)
  BY DEF Beside
<1>2. Shorter(q, Q)
  OBVIOUS
<1>3. Like(r, q, b) => Beside(R, Q, b)
  OBVIOUS
<1> HIDE DEF R, Q
<1>4. Beside(R, Q, b)
  BY <1>1, <1>2, <1>3, FromLike
<1> QED
  BY <1>2, <1>4 DEF R, Q

LEMMA IntBeside ==
  ASSUME NEW r, NEW q, NEW b, Beside(r, q, b), NEW n
  PROVE  Beside(TakeInt(r, n), TakeInt(q, n), b) /\ Beside(TakeLen(r), TakeLen(q), b)
<1>1. r.bytes \in Seq(Byte) /\ q.bytes \in Seq(Byte) /\ b \in Seq(Byte)
  BY DEF Beside
<1>2. Beside(TakeInt(r, n), TakeInt(q, n), b)
  <2> DEFINE t == Take(r, n)
             u == Take(q, n)
             t1 == WithVal(t, Signed(t.val))
             u1 == WithVal(u, Signed(u.val))
  <2>1. Beside(t, u, b)
    BY TakeBeside
  <2>2. TakeInt(r, n) = (IF t.ok THEN t1 ELSE t) /\ TakeInt(q, n) = (IF u.ok THEN u1 ELSE u)
    BY DEF TakeInt
  <2> HIDE DEF t, u
  <2>3. Like(t, u, b) => (t.ok <=> u.ok) /\ Signed(t.val) = Signed(u.val)
    BY DEF Like
  <2>4. Beside(t1, u1, b)
    BY <2>1, <2>3, ValBeside
  <2>5. Shorter(u, u1) /\ Shorter(u, u)
    BY <2>1, SameBytes, ShorterIs DEF Beside
  <2> HIDE DEF t1, u1
  <2>6. Beside(IF t.ok THEN t1 ELSE t, IF u.ok THEN u1 ELSE u, b)
    BY <2>1, <2>3, <2>4, <2>5, ChoiceBeside
  <2> QED
    BY <2>2, <2>6
<1>3. Beside(TakeLen(r), TakeLen(q), b)
  <2> DEFINE t == Take(r, 2)
             u == Take(q, 2)
             t1 == WithVal(t, Unsigned(t.val))
             u1 == WithVal(u, Unsigned(u.val))
  <2>1. Beside(t, u, b)
    BY TakeBeside
  <2>2. TakeLen(r) = (IF t.ok THEN t1 ELSE t) /\ TakeLen(q) = (IF u.ok THEN u1 ELSE u)
    BY DEF TakeLen
  <2> HIDE DEF t, u
  <2>3. Like(t, u, b) => (t.ok <=> u.ok) /\ Unsigned(t.val) = Unsigned(u.val)
    BY DEF Like
  <2>4. Beside(t1, u1, b)
    BY <2>1, <2>3, ValBeside
  <2>5. Shorter(u, u1) /\ Shorter(u, u)
    BY <2>1, SameBytes, ShorterIs DEF Beside
  <2> HIDE DEF t1, u1
  <2>6. Beside(IF t.ok THEN t1 ELSE t, IF u.ok THEN u1 ELSE u, b)
    BY <2>1, <2>3, <2>4, <2>5, ChoiceBeside
  <2> QED
    BY <2>2, <2>6
<1> QED
  BY <1>2, <1>3

\* Strings; n is the length that was read first.
LongFrom(long) == IF long.ok THEN Take(long, long.val) ELSE long
KeyFrom(n) ==
  IF n.ok
  THEN IF n.val[1] = 0 THEN WithVal(n, <<>>)
       ELSE IF n.val[1] = 127 THEN LongFrom(Unasked(n, TakeLen(n)))
       ELSE Take(n, n.val[1])
  ELSE n
TextFrom(n) ==
  IF n.ok
  THEN IF n.val = -1 THEN WithVal(n, Null)
       ELSE IF n.val = 0 THEN WithVal(n, <<>>)
       ELSE IF n.val = 127 THEN LongFrom(TakeInt(n, 2))
       ELSE Take(n, n.val)
  ELSE n

LEMMA StringsFrom ==
  ASSUME NEW r
  PROVE  /\ ReadString(r) = KeyFrom(Unasked(r, Take(r, 1)))
         /\ TakeString(r) = TextFrom(TakeInt(r, 1))
<1>1. ReadString(r) = KeyFrom(Unasked(r, Take(r, 1)))
  <2> DEFINE n == Unasked(r, Take(r, 1))
             long == Unasked(n, TakeLen(n))
  <2>1. ReadString(r) = IF ~n.ok THEN n
                        ELSE CASE n.val[1] = 0 -> WithVal(n, <<>>)
                               [] n.val[1] = 127 -> IF long.ok THEN Take(long, long.val) ELSE long
                               [] OTHER -> Take(n, n.val[1])
    BY DEF ReadString
  <2> HIDE DEF n
  <2>2. KeyFrom(n) = IF ~n.ok THEN n
                     ELSE IF n.val[1] = 0 THEN WithVal(n, <<>>)
                     ELSE IF n.val[1] = 127 THEN (IF long.ok THEN Take(long, long.val) ELSE long)
                     ELSE Take(n, n.val[1])
    BY DEF KeyFrom, LongFrom
  <2> HIDE DEF long
  <2>3. KeyFrom(n) = ReadString(r)
    BY <2>1, <2>2
  <2> QED
    BY <2>3 DEF n
<1>2. TakeString(r) = TextFrom(TakeInt(r, 1))
  <2> DEFINE n == TakeInt(r, 1)
             long == TakeInt(n, 2)
  <2>1. TakeString(r) = IF ~n.ok THEN n
                        ELSE CASE n.val = -1 -> WithVal(n, Null)
                               [] n.val = 0 -> WithVal(n, <<>>)
                               [] n.val = 127 -> IF long.ok THEN Take(long, long.val) ELSE long
                               [] OTHER -> Take(n, n.val)
    BY DEF TakeString
  <2> HIDE DEF n
  <2>2. TextFrom(n) = IF ~n.ok THEN n
                      ELSE IF n.val = -1 THEN WithVal(n, Null)
                      ELSE IF n.val = 0 THEN WithVal(n, <<>>)
                      ELSE IF n.val = 127 THEN (IF long.ok THEN Take(long, long.val) ELSE long)
                      ELSE Take(n, n.val)
    BY DEF TextFrom, LongFrom
  <2> HIDE DEF long
  <2>3. TextFrom(n) = TakeString(r)
    BY <2>1, <2>2
  <2> QED
    BY <2>3 DEF n
<1> QED
  BY <1>1, <1>2

LEMMA LongBeside ==
  ASSUME NEW r, NEW q, NEW b, Beside(r, q, b)
  PROVE  Beside(LongFrom(r), LongFrom(q), b) /\ Shorter(q, LongFrom(q))
<1> DEFINE r1 == Take(r, r.val)
           q1 == Take(q, q.val)
<1>1. q.bytes \in Seq(Byte)
  BY DEF Beside
<1>2. Like(r, q, b) => (r.ok <=> q.ok) /\ r.val = q.val
  BY DEF Like
<1>3. Beside(r1, q1, b)
  BY <1>2, TakeBeside
<1>4. Shorter(q, q1) /\ Shorter(q, q)
  BY <1>1, TakeIs, ShorterIs
<1>5. LongFrom(r) = (IF r.ok THEN r1 ELSE r) /\ LongFrom(q) = (IF q.ok THEN q1 ELSE q)
  BY DEF LongFrom
<1> HIDE DEF r1, q1
<1>6. /\ Beside(IF r.ok THEN r1 ELSE r, IF q.ok THEN q1 ELSE q, b)
      /\ Shorter(q, IF q.ok THEN q1 ELSE q)
  BY <1>2, <1>3, <1>4, ChoiceBeside
<1> QED
  BY <1>5, <1>6

LEMMA KeyFromBeside ==
  ASSUME NEW n, NEW m, NEW b, Beside(n, m, b)
  PROVE  Beside(KeyFrom(n), KeyFrom(m), b) /\ Shorter(m, KeyFrom(m))
<1>1. m.bytes \in Seq(Byte) /\ n.bytes \in Seq(Byte)
  BY DEF Beside
<1>2. /\ Like(n, m, b) => (n.ok <=> m.ok)
      /\ Like(n, m, b) => n.val[1] = m.val[1]
      /\ Like(n, m, b) => (n.val[1] = 0 <=> m.val[1] = 0)
      /\ Like(n, m, b) => (n.val[1] = 127 <=> m.val[1] = 127)
  BY DEF Like
<1> DEFINE n0 == WithVal(n, <<>>)
           m0 == WithVal(m, <<>>)
           n1 == Unasked(n, TakeLen(n))
           m1 == Unasked(m, TakeLen(m))
           n2 == LongFrom(n1)
           m2 == LongFrom(m1)
           n3 == Take(n, n.val[1])
           m3 == Take(m, m.val[1])
           n4 == IF n.val[1] = 127 THEN n2 ELSE n3
           m4 == IF m.val[1] = 127 THEN m2 ELSE m3
           n5 == IF n.val[1] = 0 THEN n0 ELSE n4
           m5 == IF m.val[1] = 0 THEN m0 ELSE m4
<1>3. Beside(n0, m0, b) /\ Shorter(m, m0)
  BY <1>1, ValBeside, SameBytes
<1>4. Beside(n1, m1, b) /\ Shorter(m, m1)
  <2> DEFINE t == TakeLen(n)
             u == TakeLen(m)
  <2>1. Beside(t, u, b) /\ Shorter(m, u)
    BY <1>1, IntBeside, IntShorter
  <2> HIDE DEF t, u
  <2>2. Beside(Unasked(n, t), Unasked(m, u), b)
    BY <2>1, UnaskedBeside
  <2>3. Shorter(u, Unasked(m, u))
    BY <2>1, SameBytes DEF Beside
  <2>4. Shorter(m, Unasked(m, u))
    BY <1>1, <2>1, <2>3, ShorterIs
  <2> QED
    BY <2>2, <2>4 DEF t, u
<1> HIDE DEF n0, m0, n1, m1
<1>5. Beside(n2, m2, b) /\ Shorter(m1, m2)
  BY <1>4, LongBeside
<1>6. Shorter(m, m2)
  BY <1>1, <1>4, <1>5, ShorterIs
<1>7. Beside(n3, m3, b) /\ Shorter(m, m3)
  BY <1>1, <1>2, TakeBeside, TakeIs
<1> HIDE DEF n2, m2, n3, m3
<1>8. Beside(n4, m4, b) /\ Shorter(m, m4)
  <2>1. Like(n, m, b) => (n.val[1] = 127 <=> m.val[1] = 127)
    BY <1>2
  <2>2. Beside(n2, m2, b)
    BY <1>5
  <2> QED
    BY <1>6, <1>7, <2>1, <2>2, ChoiceBeside
<1> HIDE DEF n4, m4
<1>9. Beside(n5, m5, b) /\ Shorter(m, m5)
  BY <1>2, <1>3, <1>8, ChoiceBeside
<1>10. KeyFrom(n) = (IF n.ok THEN n5 ELSE n) /\ KeyFrom(m) = (IF m.ok THEN m5 ELSE m)
  BY DEF KeyFrom, n5, m5, n4, m4, n3, m3, n2, m2, n1, m1, n0, m0
<1> HIDE DEF n5, m5
<1>11. Shorter(m, m)
  BY <1>1, ShorterIs
<1>12. /\ Beside(IF n.ok THEN n5 ELSE n, IF m.ok THEN m5 ELSE m, b)
       /\ Shorter(m, IF m.ok THEN m5 ELSE m)
  BY <1>2, <1>9, <1>11, ChoiceBeside
<1> QED
  BY <1>10, <1>12

LEMMA TextFromBeside ==
  ASSUME NEW n, NEW m, NEW b, Beside(n, m, b)
  PROVE  Beside(TextFrom(n), TextFrom(m), b) /\ Shorter(m, TextFrom(m))
<1>1. m.bytes \in Seq(Byte) /\ n.bytes \in Seq(Byte)
  BY DEF Beside
<1>2. /\ Like(n, m, b) => (n.ok <=> m.ok)
      /\ Like(n, m, b) => n.val = m.val
  BY DEF Like
<1> DEFINE nil(v) == v = -1
           none(v) == v = 0
           long(v) == v = 127
           k0 == WithVal(n, Null)
           l0 == WithVal(m, Null)
           n0 == WithVal(n, <<>>)
           m0 == WithVal(m, <<>>)
           n1 == TakeInt(n, 2)
           m1 == TakeInt(m, 2)
           n2 == LongFrom(n1)
           m2 == LongFrom(m1)
           n3 == Take(n, n.val)
           m3 == Take(m, m.val)
           n4 == IF long(n.val) THEN n2 ELSE n3
           m4 == IF long(m.val) THEN m2 ELSE m3
           n5 == IF none(n.val) THEN n0 ELSE n4
           m5 == IF none(m.val) THEN m0 ELSE m4
           n6 == IF nil(n.val) THEN k0 ELSE n5
           m6 == IF nil(m.val) THEN l0 ELSE m5
<1>14. /\ Like(n, m, b) => (nil(n.val) <=> nil(m.val))
       /\ Like(n, m, b) => (none(n.val) <=> none(m.val))
       /\ Like(n, m, b) => (long(n.val) <=> long(m.val))
  BY <1>2
<1>3. Beside(n0, m0, b) /\ Shorter(m, m0) /\ Beside(k0, l0, b) /\ Shorter(m, l0)
  BY <1>1, ValBeside, SameBytes
<1>4. Beside(n1, m1, b) /\ Shorter(m, m1)
  BY <1>1, IntBeside, IntShorter
<1> HIDE DEF n0, m0, k0, l0, n1, m1, nil, none, long
<1>5. Beside(n2, m2, b) /\ Shorter(m1, m2)
  BY <1>4, LongBeside
<1>6. Shorter(m, m2)
  BY <1>1, <1>4, <1>5, ShorterIs
<1>7. Beside(n3, m3, b) /\ Shorter(m, m3)
  BY <1>1, <1>2, TakeBeside, TakeIs
<1> HIDE DEF n2, m2, n3, m3
<1>8. Beside(n4, m4, b) /\ Shorter(m, m4)
  BY <1>14, <1>5, <1>6, <1>7, ChoiceBeside
<1> HIDE DEF n4, m4
<1>9. Beside(n5, m5, b) /\ Shorter(m, m5)
  BY <1>14, <1>3, <1>8, ChoiceBeside
<1> HIDE DEF n5, m5
<1>13. Beside(n6, m6, b) /\ Shorter(m, m6)
  BY <1>14, <1>3, <1>9, ChoiceBeside
<1>10. TextFrom(n) = (IF n.ok THEN n6 ELSE n) /\ TextFrom(m) = (IF m.ok THEN m6 ELSE m)
  BY DEF TextFrom, n6, m6, n5, m5, n4, m4, n3, m3, n2, m2, n1, m1, n0, m0, k0, l0,
         nil, none, long
<1> HIDE DEF n6, m6
<1>11. Shorter(m, m)
  BY <1>1, ShorterIs
<1>12. /\ Beside(IF n.ok THEN n6 ELSE n, IF m.ok THEN m6 ELSE m, b)
       /\ Shorter(m, IF m.ok THEN m6 ELSE m)
  BY <1>2, <1>11, <1>13, ChoiceBeside
<1> QED
  BY <1>10, <1>12

LEMMA StringsBeside ==
  ASSUME NEW r, NEW q, NEW b, Beside(r, q, b)
  PROVE  /\ Beside(ReadString(r), ReadString(q), b) /\ Shorter(q, ReadString(q))
         /\ Beside(TakeString(r), TakeString(q), b) /\ Shorter(q, TakeString(q))
<1>1. r.bytes \in Seq(Byte) /\ q.bytes \in Seq(Byte)
  BY DEF Beside
<1>2. Beside(ReadString(r), ReadString(q), b) /\ Shorter(q, ReadString(q))
  <2> DEFINE t == Take(r, 1)
             u == Take(q, 1)
             n == Unasked(r, t)
             m == Unasked(q, u)
  <2>1. Beside(t, u, b) /\ Shorter(q, u)
    BY <1>1, TakeBeside, TakeIs
  <2> HIDE DEF t, u
  <2>2. Beside(n, m, b)
    BY <2>1, UnaskedBeside
  <2>3. Shorter(u, m)
    BY <2>1, SameBytes DEF Beside
  <2>4. Shorter(q, m)
    BY <1>1, <2>1, <2>3, ShorterIs
  <2>5. ReadString(r) = KeyFrom(n) /\ ReadString(q) = KeyFrom(m)
    BY StringsFrom DEF t, u
  <2> HIDE DEF n, m
  <2>6. Beside(KeyFrom(n), KeyFrom(m), b) /\ Shorter(m, KeyFrom(m))
    BY <2>2, KeyFromBeside
  <2>7. Shorter(q, KeyFrom(m))
    BY <1>1, <2>4, <2>6, ShorterIs
  <2> QED
    BY <2>5, <2>6, <2>7
<1>3. Beside(TakeString(r), TakeString(q), b) /\ Shorter(q, TakeString(q))
  <2> DEFINE n == TakeInt(r, 1)
             m == TakeInt(q, 1)
  <2>1. Beside(n, m, b) /\ Shorter(q, m)
    BY <1>1, IntBeside, IntShorter
  <2>2. TakeString(r) = TextFrom(n) /\ TakeString(q) = TextFrom(m)
    BY StringsFrom
  <2> HIDE DEF n, m
  <2>3. Beside(TextFrom(n), TextFrom(m), b) /\ Shorter(m, TextFrom(m))
    BY <2>1, TextFromBeside
  <2>4. Shorter(q, TextFrom(m))
    BY <1>1, <2>1, <2>3, ShorterIs
  <2> QED
    BY <2>2, <2>3, <2>4
<1> QED
  BY <1>2, <1>3

BlockFrom(n) ==
  IF n.ok THEN IF n.val = 0 THEN WithVal(n, Null) ELSE Take(n, n.val) ELSE n

LEMMA BlockBeside ==
  ASSUME NEW r, NEW q, NEW b, Beside(r, q, b)
  PROVE  Beside(TakeBlock(r), TakeBlock(q), b) /\ Shorter(q, TakeBlock(q))
<1> DEFINE n == TakeInt(r, 2)
           m == TakeInt(q, 2)
<1>1. r.bytes \in Seq(Byte) /\ q.bytes \in Seq(Byte)
  BY DEF Beside
<1>2. Beside(n, m, b) /\ Shorter(q, m) /\ m.bytes \in Seq(Byte)
  BY <1>1, IntBeside, IntShorter DEF Shorter
<1>3. TakeBlock(r) = BlockFrom(n) /\ TakeBlock(q) = BlockFrom(m)
  BY DEF TakeBlock, BlockFrom
<1> HIDE DEF n, m
<1> DEFINE none(v) == v = 0
           n0 == WithVal(n, Null)
           m0 == WithVal(m, Null)
           n1 == Take(n, n.val)
           m1 == Take(m, m.val)
           n2 == IF none(n.val) THEN n0 ELSE n1
           m2 == IF none(m.val) THEN m0 ELSE m1
           n3 == IF n.ok THEN n2 ELSE n
           m3 == IF m.ok THEN m2 ELSE m
<1>4. BlockFrom(n) = n3 /\ BlockFrom(m) = m3
  BY DEF BlockFrom
<1>5. /\ Like(n, m, b) => (n.ok <=> m.ok)
      /\ Like(n, m, b) => n.val = m.val
      /\ Like(n, m, b) => (none(n.val) <=> none(m.val))
  BY DEF Like
<1>6. Beside(n0, m0, b) /\ Shorter(m, m0) /\ Shorter(m, m)
  BY <1>2, ValBeside, SameBytes, ShorterIs
<1>7. Beside(n1, m1, b) /\ Shorter(m, m1)
  BY <1>2, <1>5, TakeBeside, TakeIs
<1> HIDE DEF none, n0, m0, n1, m1
<1>8. Beside(n2, m2, b) /\ Shorter(m, m2)
  BY <1>2, <1>5, <1>6, <1>7, ChoiceBeside
<1> HIDE DEF n2, m2
<1>9. Beside(n3, m3, b) /\ Shorter(m, m3)
  BY <1>2, <1>5, <1>6, <1>8, ChoiceBeside
<1> HIDE DEF n3, m3
<1>10. Shorter(q, m3)
  BY <1>1, <1>2, <1>9, ShorterIs
<1> QED
  BY <1>3, <1>4, <1>9, <1>10

LEMMA PlainBeside ==
  ASSUME NEW r, NEW q, NEW b, Beside(r, q, b), NEW type
  PROVE  Beside(TakePlain(r, type), TakePlain(q, type), b) /\ Shorter(q, TakePlain(q, type))
<1>1. r.bytes \in Seq(Byte) /\ q.bytes \in Seq(Byte)
  BY DEF Beside
<1>2. CASE type \in Scalars
  <2>1. TakePlain(r, type) = TakeInt(r, Width(type)) /\ TakePlain(q, type) = TakeInt(q, Width(type))
    BY <1>2, TakePlainIs
  <2>2. Beside(TakeInt(r, Width(type)), TakeInt(q, Width(type)), b)
        /\ Shorter(q, TakeInt(q, Width(type)))
    BY <1>1, IntBeside, IntShorter
  <2> QED
    BY <2>1, <2>2
<1>3. CASE type = PREFIX_TYPE_STRINGG
  <2>1. TakePlain(r, type) = TakeString(r) /\ TakePlain(q, type) = TakeString(q)
    BY <1>3, TakePlainIs
  <2> QED
    BY <2>1, StringsBeside
<1>4. CASE type = PREFIX_TYPE_BYTEBUFFER
  <2>1. TakePlain(r, type) = TakeBlock(r) /\ TakePlain(q, type) = TakeBlock(q)
    BY <1>4, TakePlainIs
  <2> QED
    BY <2>1, BlockBeside
<1>5. CASE type \notin Scalars \cup {PREFIX_TYPE_STRINGG, PREFIX_TYPE_BYTEBUFFER}
  <2>1. TakePlain(r, type) = WithVal(r, Null) /\ TakePlain(q, type) = WithVal(q, Null)
    BY <1>5, TakePlainIs
  <2>2. Beside(WithVal(r, Null), WithVal(q, Null), b) /\ Shorter(q, WithVal(q, Null))
    BY <1>1, ValBeside, SameBytes
  <2> QED
    BY <2>1, <2>2
<1> QED
  BY <1>2, <1>3, <1>4, <1>5

\* A byte that was taken.
LEMMA ByteTaken ==
  ASSUME NEW r, r.bytes \in Seq(Byte), Take(r, 1).ok
  PROVE  Take(r, 1).val[1] \in Byte /\ Len(Take(r, 1).bytes) = Len(r.bytes) - 1
<1> DEFINE n == 1
<1>1. n = 1
  OBVIOUS
<1> HIDE DEF n
<1>2. Take(r, n).ok
  BY <1>1
<1>3. Take(r, n).val \in Seq(Byte) /\ Len(Take(r, n).val) = n /\ Len(Take(r, n).bytes) = Len(r.bytes) - n
  BY <1>2, TakeIs
<1> QED
  BY <1>1, <1>3

\* c and d are what the calls one deeper do, of at most n and m bytes.
InnerShorter(c, n) ==
  \A s \in Seq(Byte) : Len(s) <= n => c[s].bytes \in Seq(Byte) /\ Len(c[s].bytes) <= Len(s)
InnerBeside(c, d, n, b) ==
  \A s \in Seq(Byte) : Len(s) <= n => Beside(c[s], d[s \o b], b)
Inners(c, d, n, m, b) ==
  InnerShorter(c, n) /\ InnerShorter(d, m) /\ InnerBeside(c, d, n, b)
Within(r, q, b, n, m) ==
  Beside(r, q, b) /\ n \in Nat /\ m \in Nat /\ Len(r.bytes) <= n /\ Len(q.bytes) <= m
\* t and u are what is read from r and q.
ReadOn(r, q, t, u, b) ==
  Beside(t, u, b) /\ Shorter(r, t) /\ Shorter(q, u)

LEMMA ReadOnIs ==
  /\ \A r, q, b : Beside(r, q, b) => ReadOn(r, q, r, q, b)
  /\ \A r, q, b, t, u, v, w :
       Beside(r, q, b) /\ ReadOn(r, q, t, u, b) /\ ReadOn(t, u, v, w, b) => ReadOn(r, q, v, w, b)
  /\ \A r, q, b, n, m, t, u :
       Within(r, q, b, n, m) /\ ReadOn(r, q, t, u, b) => Within(t, u, b, n, m)
<1>1. \A r, q, b : Beside(r, q, b) => ReadOn(r, q, r, q, b)
  BY ShorterIs DEF ReadOn, Beside
<1>2. ASSUME NEW r, NEW q, NEW b, NEW t, NEW u, NEW v, NEW w,
             Beside(r, q, b), ReadOn(r, q, t, u, b), ReadOn(t, u, v, w, b)
      PROVE  ReadOn(r, q, v, w, b)
  BY <1>2, ShorterIs DEF ReadOn, Beside
<1>3. ASSUME NEW r, NEW q, NEW b, NEW n, NEW m, NEW t, NEW u,
             Within(r, q, b, n, m), ReadOn(r, q, t, u, b)
      PROVE  Within(t, u, b, n, m)
  <2>1. /\ Beside(t, u, b) /\ n \in Nat /\ m \in Nat /\ Len(r.bytes) <= n /\ Len(q.bytes) <= m
        /\ Len(t.bytes) <= Len(r.bytes) /\ Len(u.bytes) <= Len(q.bytes)
        /\ t.bytes \in Seq(Byte) /\ u.bytes \in Seq(Byte)
        /\ r.bytes \in Seq(Byte) /\ q.bytes \in Seq(Byte)
    BY <1>3 DEF Within, ReadOn, Shorter, Beside
  <2>2. /\ Len(t.bytes) \in Nat /\ Len(u.bytes) \in Nat /\ Len(r.bytes) \in Nat
        /\ Len(q.bytes) \in Nat
    BY <2>1
  <2>3. Len(t.bytes) <= n /\ Len(u.bytes) <= m
    BY <2>1, <2>2
  <2> QED
    BY <2>1, <2>3 DEF Within
<1> QED
  BY <1>1, <1>2, <1>3

LEMMA SelfBeside ==
  ASSUME NEW r, r.bytes \in Seq(Byte)
  PROVE  Beside(r, r, <<>>)
<1>1. r.bytes \o <<>> = r.bytes /\ <<>> \in Seq(Byte)
  OBVIOUS
<1> QED
  BY <1>1 DEF Beside, Like

\* What is read without a call inside.
LEMMA OnOfTake ==
  ASSUME NEW r, NEW q, NEW b, Beside(r, q, b), NEW strKey, NEW n, NEW type
  PROVE  /\ ReadOn(r, q, Take(r, n), Take(q, n), b)
         /\ ReadOn(r, q, Unasked(r, Take(r, n)), Unasked(q, Take(q, n)), b)
         /\ ReadOn(r, q, TakeKey(r, strKey), TakeKey(q, strKey), b)
         /\ ReadOn(r, q, TakePlain(r, type), TakePlain(q, type), b)
<1>1. r.bytes \in Seq(Byte) /\ q.bytes \in Seq(Byte)
  BY DEF Beside
<1>2. Beside(r, r, <<>>)
  BY <1>1, SelfBeside
<1>3. ReadOn(r, q, Take(r, n), Take(q, n), b)
  BY <1>1, TakeBeside, TakeIs DEF ReadOn
<1>4. ReadOn(r, q, Unasked(r, Take(r, n)), Unasked(q, Take(q, n)), b)
  <2> DEFINE t == Take(r, n)
             u == Take(q, n)
  <2>1. Beside(t, u, b) /\ Shorter(q, u) /\ Shorter(r, t) /\ t.bytes \in Seq(Byte) /\ u.bytes \in Seq(Byte)
    BY <1>3 DEF ReadOn, Beside
  <2> HIDE DEF t, u
  <2>2. Beside(Unasked(r, t), Unasked(q, u), b)
    BY <2>1, UnaskedBeside
  <2>3. Shorter(t, Unasked(r, t)) /\ Shorter(u, Unasked(q, u))
    BY <2>1, SameBytes
  <2>4. Shorter(r, Unasked(r, t)) /\ Shorter(q, Unasked(q, u))
    BY <1>1, <2>1, <2>3, ShorterIs
  <2>5. ReadOn(r, q, Unasked(r, t), Unasked(q, u), b)
    BY <2>2, <2>4 DEF ReadOn
  <2> QED
    BY <2>5 DEF t, u
<1>5. ReadOn(r, q, TakeKey(r, strKey), TakeKey(q, strKey), b)
  <2>1. ReadOn(r, q, ReadString(r), ReadString(q), b)
    <3>1. Beside(ReadString(r), ReadString(q), b) /\ Shorter(q, ReadString(q))
      BY StringsBeside
    <3>2. Shorter(r, ReadString(r))
      BY <1>2, StringsBeside
    <3> QED
      BY <3>1, <3>2 DEF ReadOn
  <2>2. ReadOn(r, q, TakeInt(r, 1), TakeInt(q, 1), b)
    BY <1>1, IntBeside, IntShorter DEF ReadOn
  <2> QED
    BY <2>1, <2>2 DEF TakeKey
<1>6. ReadOn(r, q, TakePlain(r, type), TakePlain(q, type), b)
  <2>1. Beside(TakePlain(r, type), TakePlain(q, type), b) /\ Shorter(q, TakePlain(q, type))
    BY PlainBeside
  <2>2. Shorter(r, TakePlain(r, type))
    BY <1>2, PlainBeside
  <2> QED
    BY <2>1, <2>2 DEF ReadOn
<1> QED
  BY <1>3, <1>4, <1>5, <1>6

LEMMA InnerTaken ==
  ASSUME NEW r, NEW q, NEW b, NEW n, NEW m, Within(r, q, b, n, m),
         NEW c, NEW d, Inners(c, d, n, m, b)
  PROVE  ReadOn(r, q, Unharmed(TakeInner(r, c)), Unharmed(TakeInner(q, d)), b)
<1> DEFINE t == c[r.bytes]
           u == d[q.bytes]
           v == Unharmed(TakeInner(r, c))
           w == Unharmed(TakeInner(q, d))
<1>1. /\ r.bytes \in Seq(Byte) /\ q.bytes \in Seq(Byte) /\ b \in Seq(Byte)
      /\ Len(r.bytes) <= n /\ Len(q.bytes) <= m
  BY DEF Within, Beside
<1>2. t.bytes \in Seq(Byte) /\ Len(t.bytes) <= Len(r.bytes)
      /\ u.bytes \in Seq(Byte) /\ Len(u.bytes) <= Len(q.bytes)
  BY <1>1 DEF Inners, InnerShorter
<1>3. /\ v.bytes = t.bytes /\ v.ok = TRUE /\ v.past = (t.past \/ r.past) /\ v.val = t.val
      /\ w.bytes = u.bytes /\ w.ok = TRUE /\ w.past = (u.past \/ q.past) /\ w.val = u.val
  BY DEF Unharmed, TakeInner, Reading
<1> HIDE DEF v, w
<1>4. Shorter(r, v) /\ Shorter(q, w)
  BY <1>2, <1>3 DEF Shorter
<1>5. ASSUME Like(r, q, b) PROVE Beside(v, w, b)
  <2>1. q.bytes = r.bytes \o b /\ q.past = r.past
    BY <1>5 DEF Like
  <2>2. Beside(t, u, b)
    BY <1>1, <2>1 DEF Inners, InnerBeside
  <2>3. ASSUME Like(t, u, b) PROVE Beside(v, w, b)
    <3>1. u.bytes = t.bytes \o b /\ u.past = t.past /\ u.val = t.val
      BY <2>3 DEF Like
    <3> HIDE DEF t, u
    <3>2. Like(v, w, b)
      BY <1>3, <2>1, <3>1 DEF Like
    <3> QED
      BY <1>1, <1>2, <1>3, <3>2 DEF Beside
  <2>4. ASSUME Len(u.bytes) <= Len(b) PROVE Beside(v, w, b)
    BY <1>1, <1>2, <1>3, <2>4 DEF Beside
  <2> QED
    BY <2>2, <2>3, <2>4 DEF Beside
<1>6. Beside(v, w, b)
  <2>1. Beside(r, q, b) /\ v.bytes \in Seq(Byte)
    BY <1>4 DEF Within, Shorter
  <2> QED
    BY <1>4, <1>5, <2>1, FromLike
<1>7. ReadOn(r, q, v, w, b)
  BY <1>4, <1>6 DEF ReadOn
<1> QED
  BY <1>7 DEF v, w

\* Nothing is given back.
LEMMA PartsShorter ==
  ASSUME NEW r, r.bytes \in Seq(Byte), NEW strKey, NEW k, NEW type
  PROVE  /\ Shorter(r, Take(r, k)) /\ Shorter(r, Unasked(r, Take(r, k)))
         /\ Shorter(r, TakeKey(r, strKey)) /\ Shorter(r, TakePlain(r, type))
<1>1. Beside(r, r, <<>>)
  BY SelfBeside
<1> DEFINE none == <<>>
<1> HIDE DEF none
<1>2. Beside(r, r, none)
  BY <1>1 DEF none
<1> QED
  BY <1>2, OnOfTake DEF ReadOn

Bounded(r, c, n) ==
  r.bytes \in Seq(Byte) /\ n \in Nat /\ Len(r.bytes) <= n /\ InnerShorter(c, n)

LEMMA BoundedIs ==
  ASSUME NEW r, NEW c, NEW n, Bounded(r, c, n), NEW t, Shorter(r, t)
  PROVE  Bounded(t, c, n) /\ \A u : Shorter(t, u) => Shorter(r, u)
<1>1. /\ r.bytes \in Seq(Byte) /\ n \in Nat /\ Len(r.bytes) <= n /\ t.bytes \in Seq(Byte)
      /\ Len(t.bytes) <= Len(r.bytes)
  BY DEF Bounded, Shorter
<1>2. Len(t.bytes) <= n
  BY <1>1
<1>3. \A u : Shorter(t, u) => Shorter(r, u)
  BY <1>1, ShorterIs
<1> QED
  BY <1>1, <1>2, <1>3 DEF Bounded

LEMMA ExtraShorter ==
  ASSUME NEW r, NEW c, NEW n, Bounded(r, c, n), NEW type
  PROVE  Shorter(r, TakeExtraVal(r, type, c)) /\ Shorter(r, TakeExtra(r, c))
<1>1. ASSUME NEW t, Bounded(t, c, n), NEW x PROVE Shorter(t, TakeExtraVal(t, x, c))
  <2>1. CASE x = PREFIX_TYPE_MAP
    <3> DEFINE u == c[t.bytes]
               v == Unharmed(TakeInner(t, c))
    <3>1. u.bytes \in Seq(Byte) /\ Len(u.bytes) <= Len(t.bytes)
      BY <1>1 DEF Bounded, InnerShorter
    <3>2. v.bytes = u.bytes
      BY DEF Unharmed, TakeInner, Reading
    <3>3. TakeExtraVal(t, x, c) = v
      BY <2>1 DEF TakeExtraVal
    <3> HIDE DEF v
    <3> QED
      BY <3>1, <3>2, <3>3 DEF Shorter
  <2>2. CASE x # PREFIX_TYPE_MAP
    <3>1. TakeExtraVal(t, x, c) = TakePlain(t, x)
      BY <2>2 DEF TakeExtraVal
    <3>2. Shorter(t, TakePlain(t, x))
      BY <1>1, PartsShorter DEF Bounded
    <3> QED
      BY <3>1, <3>2
  <2> QED
    BY <2>1, <2>2
<1>2. Shorter(r, TakeExtra(r, c))
  <2> DEFINE t == Unasked(r, Take(r, 1))
             x == t.val[1]
             v == TakeExtraVal(t, x, c)
             w == WithVal(v, Extra(r.val, x, v.val))
  <2>1. Shorter(r, t)
    BY PartsShorter DEF Bounded
  <2>2. TakeExtra(r, c) = IF ~t.ok THEN t ELSE IF ~v.ok THEN v ELSE w
    BY DEF TakeExtra, WithExtra
  <2> HIDE DEF t
  <2>3. Bounded(t, c, n) /\ \A u : Shorter(t, u) => Shorter(r, u)
    BY <2>1, BoundedIs
  <2> HIDE DEF x
  <2>4. Shorter(t, v)
    BY <1>1, <2>3
  <2> HIDE DEF v
  <2>5. Shorter(v, w)
    BY <2>4, SameBytes DEF Shorter
  <2> HIDE DEF w
  <2>6. Shorter(t, w)
    BY <2>3, <2>4, <2>5, ShorterIs DEF Bounded
  <2> QED
    BY <2>1, <2>2, <2>3, <2>4, <2>6
<1> QED
  BY <1>1, <1>2

LEMMA ElementShorter ==
  ASSUME NEW r, NEW c, NEW n, Bounded(r, c, n), NEW strKey
  PROVE  Shorter(r, TakeElement(r, strKey, c))
<1> DEFINE k == TakeKey(r, strKey)
           e == TakeExtra(k, c)
           j == Joined(r.val, e, <<e.val>> \o r.val)
<1>1. TakeElement(r, strKey, c) = IF k.ok THEN j ELSE k
  BY DEF TakeElement, AtFront, TakeKey
<1>2. Shorter(r, k)
  BY PartsShorter DEF Bounded
<1> HIDE DEF k
<1>3. Bounded(k, c, n) /\ \A u : Shorter(k, u) => Shorter(r, u)
  BY <1>2, BoundedIs
<1>4. Shorter(k, e)
  BY <1>3, ExtraShorter
<1>5. j.bytes = e.bytes
  BY DEF Joined, Reading
<1> HIDE DEF e, j
<1>6. Shorter(k, j)
  BY <1>4, <1>5 DEF Shorter
<1> QED
  BY <1>1, <1>2, <1>3, <1>6

LEMMA ElementsShorter ==
  ASSUME NEW r, NEW c, NEW n, Bounded(r, c, n), NEW count \in Nat, NEW strKey
  PROVE  Shorter(r, TakeElements(r, count, strKey, c))
<1>1. PICK f : ElementsTaken(f, r, count, strKey, c)
  BY TakeElementsIs
<1>2. /\ TakeElements(r, count, strKey, c) = f[count] /\ f[0] = WithVal(r, <<>>)
      /\ \A k \in 1 .. count :
           f[k] = IF f[k - 1].ok THEN TakeElement(f[k - 1], strKey, c) ELSE f[k - 1]
  BY <1>1 DEF ElementsTaken
<1> DEFINE P == {k \in Nat : k <= count => Shorter(r, f[k])}
<1>3. 0 \in P
  BY <1>2, SameBytes DEF Bounded
<1>4. ASSUME NEW k \in P PROVE k + 1 \in P
  <2>1. SUFFICES ASSUME k + 1 <= count PROVE Shorter(r, f[k + 1])
    OBVIOUS
  <2>2. k \in Nat /\ Shorter(r, f[k]) /\ k + 1 \in 1 .. count /\ (k + 1) - 1 = k
    BY <2>1
  <2> HIDE DEF P
  <2> DEFINE t == f[k]
             u == TakeElement(t, strKey, c)
  <2>3. f[k + 1] = IF t.ok THEN u ELSE t
    BY <1>2, <2>2
  <2>4. Shorter(r, t)
    BY <2>2
  <2> HIDE DEF t
  <2>5. Bounded(t, c, n) /\ \A x : Shorter(t, x) => Shorter(r, x)
    BY <2>4, BoundedIs
  <2>6. Shorter(t, u)
    BY <2>5, ElementShorter
  <2> QED
    BY <2>3, <2>4, <2>5, <2>6
<1>5. P = Nat
  <2> HIDE DEF P
  <2>1. P \in SUBSET Nat
    BY DEF P
  <2> QED
    BY <1>3, <1>4, <2>1, EveryNumber
<1> QED
  BY <1>2, <1>5

\* Inside a list one byte less is left; nothing is read of no bytes.
LEMMA ListShorter ==
  ASSUME NEW s \in Seq(Byte), NEW c, NEW n \in Nat,
         Len(s) <= n + 1, InnerShorter(c, n) \/ s = <<>>
  PROVE  TakeList(Reader(s), c).bytes \in Seq(Byte) /\ Len(TakeList(Reader(s), c).bytes) <= Len(s)
<1> DEFINE r == Reader(s)
           t == Take(r, 1)
           kind == Take(t, 1)
           els == TakeElements(kind, t.val[1], kind.val[1] = 1, c)
           body == IF ~t.ok THEN t
                   ELSE IF t.val[1] = 0 THEN Failed(t)
                   ELSE IF ~kind.ok THEN kind
                   ELSE els
<1>1. TakeList(r, c) = IfFailed(body, <<>>)
  BY DEF TakeList
<1>2. r.bytes = s
  BY DEF Reader, Reading
<1> HIDE DEF r
<1>3. Shorter(r, t) /\ t.bytes \in Seq(Byte)
  BY <1>2, TakeIs DEF Shorter
<1>4. t.ok => t.val[1] \in Byte /\ Len(t.bytes) = Len(s) - 1 /\ s # <<>>
  <2>1. ASSUME t.ok PROVE t.val[1] \in Byte /\ Len(t.bytes) = Len(s) - 1
    BY <1>2, <2>1, ByteTaken
  <2>2. ASSUME t.ok PROVE s # <<>>
    <3>1. Len(s) - 1 = Len(t.bytes) /\ Len(t.bytes) \in Nat
      BY <1>3, <2>1, <2>2
    <3> QED
      BY <3>1
  <2> QED
    BY <2>1, <2>2
<1> HIDE DEF t
<1>5. Shorter(t, kind) /\ kind.bytes \in Seq(Byte)
  BY <1>3, TakeIs DEF Shorter
<1> HIDE DEF kind
<1>6. t.ok => Shorter(kind, els)
  <2>1. SUFFICES ASSUME t.ok PROVE Shorter(kind, els)
    OBVIOUS
  <2>2. t.val[1] \in Nat /\ InnerShorter(c, n) /\ Len(t.bytes) <= n
    BY <1>4, <2>1 DEF Byte, Between
  <2>3. Len(kind.bytes) <= n
    BY <1>3, <1>5, <2>2 DEF Shorter
  <2>4. Bounded(kind, c, n)
    BY <1>5, <2>2, <2>3 DEF Bounded
  <2> QED
    BY <2>2, <2>4, ElementsShorter
<1> HIDE DEF els
<1>7. Shorter(r, body)
  <2>1. Shorter(r, kind) /\ Shorter(t, Failed(t))
    BY <1>2, <1>3, <1>5, ShorterIs, SameBytes
  <2>2. Shorter(r, Failed(t)) /\ (t.ok => Shorter(r, els))
    BY <1>2, <1>3, <1>6, <2>1, ShorterIs
  <2> QED
    BY <1>3, <2>1, <2>2
<1> HIDE DEF body
<1>8. Shorter(body, IfFailed(body, <<>>))
  BY <1>7, SameBytes DEF Shorter
<1>9. Shorter(r, IfFailed(body, <<>>))
  BY <1>2, <1>7, <1>8, ShorterIs
<1> QED
  BY <1>1, <1>2, <1>9 DEF Shorter, r

LEMMA WithinIs ==
  ASSUME NEW r, NEW q, NEW b, NEW n, NEW m, Within(r, q, b, n, m),
         NEW c, NEW d, Inners(c, d, n, m, b)
  PROVE  /\ Beside(r, q, b) /\ Bounded(r, c, n) /\ Bounded(q, d, m)
         /\ \A t, u : Beside(t, u, b) /\ Shorter(r, t) /\ Shorter(q, u) => Within(t, u, b, n, m)
<1>1. Beside(r, q, b) /\ Bounded(r, c, n) /\ Bounded(q, d, m)
  BY DEF Within, Inners, Bounded, Beside
<1>2. ASSUME NEW t, NEW u, Beside(t, u, b), Shorter(r, t), Shorter(q, u)
      PROVE  Within(t, u, b, n, m)
  <2>1. ReadOn(r, q, t, u, b)
    BY <1>2 DEF ReadOn
  <2> QED
    BY <2>1, ReadOnIs
<1> QED
  BY <1>1, <1>2

LEMMA ExtraValBeside ==
  ASSUME NEW r, NEW q, NEW b, NEW n, NEW m, Within(r, q, b, n, m),
         NEW c, NEW d, Inners(c, d, n, m, b), NEW x, NEW y, Like(r, q, b) => x = y
  PROVE  Beside(TakeExtraVal(r, x, c), TakeExtraVal(q, y, d), b)
<1> DEFINE v == TakeExtraVal(r, x, c)
           w == TakeExtraVal(q, y, d)
<1>1. Beside(r, q, b) /\ Bounded(r, c, n) /\ Bounded(q, d, m)
  BY WithinIs
<1>2. Shorter(r, v) /\ Shorter(q, w)
  BY <1>1, ExtraShorter
<1>3. ASSUME Like(r, q, b) PROVE Beside(v, w, b)
  <2>1. x = y
    BY <1>3
  <2>2. CASE x = PREFIX_TYPE_MAP
    <3>1. v = Unharmed(TakeInner(r, c)) /\ w = Unharmed(TakeInner(q, d))
      BY <2>1, <2>2 DEF TakeExtraVal
    <3>2. Beside(Unharmed(TakeInner(r, c)), Unharmed(TakeInner(q, d)), b)
      BY InnerTaken DEF ReadOn
    <3> QED
      BY <3>1, <3>2
  <2>3. CASE x # PREFIX_TYPE_MAP
    <3>1. v = TakePlain(r, x) /\ w = TakePlain(q, x)
      BY <2>1, <2>3 DEF TakeExtraVal
    <3>2. Beside(TakePlain(r, x), TakePlain(q, x), b)
      BY <1>1, PlainBeside
    <3> QED
      BY <3>1, <3>2
  <2> QED
    BY <2>2, <2>3
<1> HIDE DEF v, w
<1>4. v.bytes \in Seq(Byte)
  BY <1>2 DEF Shorter
<1>5. Beside(v, w, b)
  BY <1>1, <1>2, <1>3, <1>4, FromLike
<1> QED
  BY <1>5 DEF v, w

LEMMA ExtraBeside ==
  ASSUME NEW r, NEW q, NEW b, NEW n, NEW m, Within(r, q, b, n, m),
         NEW c, NEW d, Inners(c, d, n, m, b)
  PROVE  Beside(TakeExtra(r, c), TakeExtra(q, d), b)
<1> DEFINE t == Unasked(r, Take(r, 1))
           u == Unasked(q, Take(q, 1))
           x == t.val[1]
           y == u.val[1]
           v == TakeExtraVal(t, x, c)
           w == TakeExtraVal(u, y, d)
           v1 == WithVal(v, Extra(r.val, x, v.val))
           w1 == WithVal(w, Extra(q.val, y, w.val))
           v2 == IF v.ok THEN v1 ELSE v
           w2 == IF w.ok THEN w1 ELSE w
           R == TakeExtra(r, c)
           Q == TakeExtra(q, d)
<1>1. Beside(r, q, b) /\ Bounded(r, c, n) /\ Bounded(q, d, m)
  BY WithinIs
<1>2. Shorter(r, R) /\ Shorter(q, Q) /\ R.bytes \in Seq(Byte)
  BY <1>1, ExtraShorter DEF Shorter
<1>3. R = (IF t.ok THEN v2 ELSE t) /\ Q = (IF u.ok THEN w2 ELSE u)
  BY DEF TakeExtra, WithExtra
<1>4. Beside(t, u, b) /\ Shorter(r, t) /\ Shorter(q, u)
  BY <1>1, OnOfTake DEF ReadOn
<1> HIDE DEF R, Q, t, u
<1>5. Within(t, u, b, n, m) /\ Bounded(t, c, n) /\ Bounded(u, d, m)
  BY <1>1, <1>4, WithinIs, BoundedIs
<1>6. Like(t, u, b) => x = y /\ (t.ok <=> u.ok)
  BY DEF Like
<1> HIDE DEF x, y
<1>7. Beside(v, w, b) /\ Shorter(t, v) /\ Shorter(u, w)
  BY <1>5, <1>6, ExtraValBeside, ExtraShorter
<1> HIDE DEF v, w
<1>8. Shorter(v, v1) /\ Shorter(w, w1) /\ Shorter(v, v) /\ Shorter(w, w)
  BY <1>7, SameBytes, ShorterIs DEF Shorter
<1>9. ASSUME Like(r, q, b) PROVE Beside(R, Q, b)
  <2>1. r.val = q.val
    BY <1>9 DEF Like
  <2>2. ASSUME Like(t, u, b) PROVE Beside(R, Q, b)
    <3>1. x = y /\ (t.ok <=> u.ok)
      BY <1>6, <2>2
    <3>2. Like(v, w, b) => (v.ok <=> w.ok) /\ Extra(r.val, x, v.val) = Extra(q.val, y, w.val)
      BY <2>1, <3>1 DEF Like
    <3> DEFINE g == Extra(r.val, x, v.val)
               h == Extra(q.val, y, w.val)
    <3>3. Like(v, w, b) => g = h
      BY <3>2
    <3> HIDE DEF g, h
    <3>4. Beside(WithVal(v, g), WithVal(w, h), b)
      BY <1>7, <3>3, ValBeside
    <3>5. Beside(v1, w1, b)
      BY <3>4 DEF g, h
    <3> HIDE DEF v1, w1
    <3>6. Beside(v2, w2, b)
      BY <1>7, <1>8, <3>2, <3>5, ChoiceBeside
    <3> QED
      BY <1>3, <1>4, <3>1, <3>6
  <2>3. Shorter(u, Q)
    <3>1. Shorter(u, u) /\ Shorter(u, w1) /\ Shorter(u, w)
      BY <1>5, <1>7, <1>8, ShorterIs DEF Bounded
    <3> HIDE DEF w1
    <3> QED
      BY <1>3, <3>1
  <2> QED
    BY <1>2, <1>4, <2>2, <2>3, FromLike
<1>10. Beside(R, Q, b)
  BY <1>1, <1>2, <1>9, FromLike
<1> QED
  BY <1>10 DEF R, Q

LEMMA ElementBeside ==
  ASSUME NEW r, NEW q, NEW b, NEW n, NEW m, Within(r, q, b, n, m),
         NEW c, NEW d, Inners(c, d, n, m, b), NEW strKey
  PROVE  Beside(TakeElement(r, strKey, c), TakeElement(q, strKey, d), b)
<1> DEFINE k == TakeKey(r, strKey)
           l == TakeKey(q, strKey)
           e == TakeExtra(k, c)
           f == TakeExtra(l, d)
           i == Joined(r.val, e, <<e.val>> \o r.val)
           j == Joined(q.val, f, <<f.val>> \o q.val)
           R == TakeElement(r, strKey, c)
           Q == TakeElement(q, strKey, d)
<1>1. Beside(r, q, b) /\ Bounded(r, c, n) /\ Bounded(q, d, m)
  BY WithinIs
<1>2. Shorter(r, R) /\ Shorter(q, Q) /\ R.bytes \in Seq(Byte)
  BY <1>1, ElementShorter DEF Shorter
<1>3. R = (IF k.ok THEN i ELSE k) /\ Q = (IF l.ok THEN j ELSE l)
  BY DEF TakeElement, AtFront, TakeKey
<1>4. Beside(k, l, b) /\ Shorter(r, k) /\ Shorter(q, l)
  BY <1>1, OnOfTake DEF ReadOn
<1> HIDE DEF R, Q, k, l
<1>5. Within(k, l, b, n, m) /\ Bounded(k, c, n) /\ Bounded(l, d, m)
  BY <1>1, <1>4, WithinIs, BoundedIs
<1>6. Like(k, l, b) => (k.ok <=> l.ok)
  BY DEF Like
<1>7. Beside(e, f, b) /\ Shorter(k, e) /\ Shorter(l, f)
  BY <1>5, ExtraBeside, ExtraShorter
<1> HIDE DEF e, f
<1>8. /\ i.bytes = e.bytes /\ i.ok = TRUE /\ i.past = e.past
      /\ i.val = (IF e.ok THEN <<e.val>> \o r.val ELSE r.val)
      /\ j.bytes = f.bytes /\ j.ok = TRUE /\ j.past = f.past
      /\ j.val = (IF f.ok THEN <<f.val>> \o q.val ELSE q.val)
  BY DEF Joined, Reading
<1> HIDE DEF i, j
<1>9. Shorter(l, j) /\ Shorter(f, j) /\ Shorter(l, l) /\ i.bytes \in Seq(Byte)
  BY <1>5, <1>7, <1>8, ShorterIs DEF Shorter, Bounded
<1>10. ASSUME Like(r, q, b) PROVE Beside(R, Q, b)
  <2>1. r.val = q.val
    BY <1>10 DEF Like
  <2>2. ASSUME Like(e, f, b) PROVE Beside(i, j, b)
    <3>1. f.bytes = e.bytes \o b /\ e.past = f.past /\ e.ok = f.ok /\ e.val = f.val
      BY <2>2 DEF Like
    <3>2. i.val = j.val
      BY <1>8, <2>1, <3>1
    <3>3. Like(i, j, b)
      BY <1>8, <3>1, <3>2 DEF Like
    <3> QED
      BY <1>7, <1>8, <3>3 DEF Beside
  <2>3. Beside(i, j, b)
    BY <1>7, <1>9, <2>2, FromLike
  <2>4. Beside(IF k.ok THEN i ELSE k, IF l.ok THEN j ELSE l, b)
    BY <1>4, <1>6, <1>9, <2>3, ChoiceBeside
  <2> QED
    BY <1>3, <2>4
<1>11. Beside(R, Q, b)
  BY <1>1, <1>2, <1>10, FromLike
<1> QED
  BY <1>11 DEF R, Q

LEMMA ElementsBeside ==
  ASSUME NEW r, NEW q, NEW b, NEW n, NEW m, Within(r, q, b, n, m),
         NEW c, NEW d, Inners(c, d, n, m, b), NEW count \in Nat, NEW strKey
  PROVE  Beside(TakeElements(r, count, strKey, c), TakeElements(q, count, strKey, d), b)
<1>1. PICK f : ElementsTaken(f, r, count, strKey, c)
  BY TakeElementsIs
<1>2. PICK g : ElementsTaken(g, q, count, strKey, d)
  BY TakeElementsIs
<1>3. /\ TakeElements(r, count, strKey, c) = f[count] /\ f[0] = WithVal(r, <<>>)
      /\ \A k \in 1 .. count :
           f[k] = IF f[k - 1].ok THEN TakeElement(f[k - 1], strKey, c) ELSE f[k - 1]
  BY <1>1 DEF ElementsTaken
<1>4. /\ TakeElements(q, count, strKey, d) = g[count] /\ g[0] = WithVal(q, <<>>)
      /\ \A k \in 1 .. count :
           g[k] = IF g[k - 1].ok THEN TakeElement(g[k - 1], strKey, d) ELSE g[k - 1]
  BY <1>2 DEF ElementsTaken
<1>5. Beside(r, q, b) /\ Bounded(r, c, n) /\ Bounded(q, d, m)
  BY WithinIs
<1> DEFINE P == {k \in Nat : k <= count => Within(f[k], g[k], b, n, m)}
<1>6. 0 \in P
  <2>1. Beside(f[0], g[0], b)
    BY <1>3, <1>4, <1>5, ValBeside
  <2>2. Shorter(r, f[0]) /\ Shorter(q, g[0])
    BY <1>3, <1>4, <1>5, SameBytes DEF Bounded
  <2>3. Within(f[0], g[0], b, n, m)
    BY <2>1, <2>2, WithinIs
  <2> QED
    BY <2>3
<1>7. ASSUME NEW k \in P PROVE k + 1 \in P
  <2>1. SUFFICES ASSUME k + 1 <= count PROVE Within(f[k + 1], g[k + 1], b, n, m)
    OBVIOUS
  <2>2. k \in Nat /\ Within(f[k], g[k], b, n, m) /\ k + 1 \in 1 .. count /\ (k + 1) - 1 = k
    BY <2>1
  <2> HIDE DEF P
  <2> DEFINE t == f[k]
             u == g[k]
             t1 == TakeElement(t, strKey, c)
             u1 == TakeElement(u, strKey, d)
             t2 == IF t.ok THEN t1 ELSE t
             u2 == IF u.ok THEN u1 ELSE u
  <2>3. f[k + 1] = t2 /\ g[k + 1] = u2
    BY <1>3, <1>4, <2>2
  <2>4. Within(t, u, b, n, m)
    BY <2>2
  <2> HIDE DEF t, u
  <2>5. Beside(t, u, b) /\ Bounded(t, c, n) /\ Bounded(u, d, m)
    BY <2>4, WithinIs
  <2>6. Beside(t1, u1, b) /\ Shorter(t, t1) /\ Shorter(u, u1) /\ Shorter(t, t) /\ Shorter(u, u)
    BY <2>4, <2>5, ElementBeside, ElementShorter, ShorterIs DEF Bounded
  <2>7. Like(t, u, b) => (t.ok <=> u.ok)
    BY DEF Like
  <2> HIDE DEF t1, u1
  <2>8. Beside(t2, u2, b) /\ Shorter(t, t2) /\ Shorter(u, u2)
    BY <2>5, <2>6, <2>7, ChoiceBeside
  <2> HIDE DEF t2, u2
  <2>9. Within(t2, u2, b, n, m)
    BY <2>4, <2>8, WithinIs
  <2> QED
    BY <2>3, <2>9
<1>8. P = Nat
  <2> HIDE DEF P
  <2>1. P \in SUBSET Nat
    BY DEF P
  <2> QED
    BY <1>6, <1>7, <2>1, EveryNumber
<1>9. Within(f[count], g[count], b, n, m)
  BY <1>8
<1> QED
  BY <1>3, <1>4, <1>9 DEF Within

\* A list is read alike, whatever comes behind it.
LEMMA ListBeside ==
  ASSUME NEW s \in Seq(Byte), NEW b \in Seq(Byte), NEW n \in Nat, NEW m \in Nat,
         Len(s) <= n + 1, Len(s \o b) <= m + 1, NEW c, NEW d, Inners(c, d, n, m, b)
  PROVE  Beside(TakeList(Reader(s), c), TakeList(Reader(s \o b), d), b)
<1> DEFINE a == s \o b
           r == Reader(s)
           q == Reader(a)
           t == Take(r, 1)
           u == Take(q, 1)
           k == Take(t, 1)
           l == Take(u, 1)
           t1 == TakeElements(k, t.val[1], k.val[1] = 1, c)
           u1 == TakeElements(l, u.val[1], l.val[1] = 1, d)
           t2 == IF k.ok THEN t1 ELSE k
           u2 == IF l.ok THEN u1 ELSE l
           none(v) == v[1] = 0
           t3 == IF none(t.val) THEN Failed(t) ELSE t2
           u3 == IF none(u.val) THEN Failed(u) ELSE u2
           t4 == IF t.ok THEN t3 ELSE t
           u4 == IF u.ok THEN u3 ELSE u
<1>1. TakeList(r, c) = IfFailed(t4, <<>>) /\ TakeList(q, d) = IfFailed(u4, <<>>)
  BY DEF TakeList
<1>2. a \in Seq(Byte) /\ r.bytes = s /\ q.bytes = a
  BY DEF Reader, Reading
<1>3. Beside(r, q, b)
  <2>1. Like(r, q, b)
    BY DEF Like, Reader, Reading
  <2> QED
    BY <1>2, <2>1 DEF Beside
<1>4. InnerShorter(c, n) /\ InnerShorter(d, m)
  BY DEF Inners
<1> HIDE DEF r, q, a
<1>5. Beside(t, u, b) /\ Shorter(r, t) /\ Shorter(q, u) /\ t.bytes \in Seq(Byte) /\ u.bytes \in Seq(Byte)
  BY <1>3, OnOfTake DEF ReadOn, Beside
<1>6. /\ t.ok => t.val[1] \in Byte /\ Len(t.bytes) = Len(s) - 1
      /\ u.ok => u.val[1] \in Byte /\ Len(u.bytes) = Len(a) - 1
  BY <1>2, ByteTaken
<1> HIDE DEF t, u
<1>7. Beside(k, l, b) /\ Shorter(t, k) /\ Shorter(u, l) /\ k.bytes \in Seq(Byte) /\ l.bytes \in Seq(Byte)
  BY <1>5, OnOfTake DEF ReadOn, Beside
<1>8. /\ Like(t, u, b) => (t.ok <=> u.ok)
      /\ Like(t, u, b) => t.val[1] = u.val[1]
      /\ Like(t, u, b) => (none(t.val) <=> none(u.val))
      /\ Like(k, l, b) => (k.ok <=> l.ok)
      /\ Like(k, l, b) => (k.val[1] = 1) = (l.val[1] = 1)
  BY DEF Like
<1> HIDE DEF k, l, none
<1>9. ASSUME t.ok, u.ok
      PROVE  /\ Within(k, l, b, n, m) /\ Bounded(k, c, n) /\ Bounded(l, d, m)
             /\ t.val[1] \in Nat /\ u.val[1] \in Nat
  <2>1. Len(t.bytes) <= n /\ Len(u.bytes) <= m /\ t.val[1] \in Nat /\ u.val[1] \in Nat
    <3>1. Len(a) <= m + 1 /\ Len(a) \in Nat /\ Len(s) \in Nat
      BY <1>2 DEF a
    <3>2. Len(t.bytes) = Len(s) - 1 /\ Len(u.bytes) = Len(a) - 1
      BY <1>6, <1>9
    <3>3. Len(t.bytes) <= n
      BY <3>1, <3>2
    <3>4. Len(u.bytes) <= m
      BY <3>1, <3>2
    <3>5. t.val[1] \in Byte /\ u.val[1] \in Byte
      BY <1>6, <1>9
    <3>6. Byte \subseteq Nat
      BY DEF Byte, Between
    <3> QED
      BY <3>3, <3>4, <3>5, <3>6
  <2>2. Len(k.bytes) <= n /\ Len(l.bytes) <= m
    <3>1. Len(k.bytes) <= n
      BY <1>5, <1>7, <2>1, ShorterFits
    <3>2. Len(l.bytes) <= m
      BY <1>5, <1>7, <2>1, ShorterFits
    <3> QED
      BY <3>1, <3>2
  <2> QED
    BY <1>4, <1>7, <2>1, <2>2 DEF Within, Bounded
<1>10. ASSUME t.ok, u.ok PROVE Shorter(k, t1) /\ Shorter(l, u1)
  BY <1>9, <1>10, ElementsShorter
<1>11. ASSUME Like(t, u, b), t.ok, u.ok PROVE Beside(t1, u1, b)
  <2>1. ASSUME Like(k, l, b) PROVE Beside(t1, u1, b)
    <3> DEFINE count == t.val[1]
               strKey == k.val[1] = 1
    <3>1. u.val[1] = count /\ (l.val[1] = 1) = strKey /\ count \in Nat
      BY <1>8, <1>9, <1>11, <2>1
    <3>2. t1 = TakeElements(k, count, strKey, c) /\ u1 = TakeElements(l, count, strKey, d)
      BY <3>1
    <3> HIDE DEF count, strKey
    <3>3. Beside(TakeElements(k, count, strKey, c), TakeElements(l, count, strKey, d), b)
      BY <1>9, <1>11, <3>1, ElementsBeside
    <3> HIDE DEF t1, u1
    <3> QED
      BY <3>2, <3>3
  <2>2. t1.bytes \in Seq(Byte) /\ Shorter(l, u1)
    BY <1>10, <1>11 DEF Shorter
  <2> HIDE DEF t1, u1
  <2> QED
    BY <1>7, <2>1, <2>2, FromLike
<1> HIDE DEF t1, u1
<1>12. ASSUME t.ok, u.ok PROVE Shorter(t, t2) /\ Shorter(u, u2)
  <2>1. Shorter(t, t1) /\ Shorter(u, u1)
    BY <1>5, <1>7, <1>10, <1>12, ShorterIs
  <2> QED
    BY <1>7, <2>1
<1>13. ASSUME Like(t, u, b), t.ok, u.ok PROVE Beside(t2, u2, b)
  <2>1. Shorter(l, u1) /\ Shorter(l, l)
    BY <1>7, <1>10, <1>13, ShorterIs
  <2>2. Beside(t1, u1, b)
    BY <1>11, <1>13
  <2> QED
    BY <1>7, <1>8, <2>1, <2>2, ChoiceBeside
<1> HIDE DEF t2, u2
<1>14. /\ Beside(Failed(t), Failed(u), b) /\ Shorter(t, Failed(t)) /\ Shorter(u, Failed(u))
       /\ Shorter(t, t) /\ Shorter(u, u)
  BY <1>5, OthersBeside, SameBytes, ShorterIs
<1>15. ASSUME Like(t, u, b), t.ok, u.ok PROVE Beside(t3, u3, b)
  BY <1>5, <1>8, <1>12, <1>13, <1>14, <1>15, ChoiceBeside
<1>16. (t.ok => Shorter(t, t3)) /\ (u.ok => Shorter(u, u3))
  <2>1. t.ok => Shorter(t, t2)
    <3>1. ASSUME t.ok PROVE Shorter(t, t2)
      <4>1. t.val[1] \in Nat /\ Len(t.bytes) <= n
        <5>1. t.val[1] \in Byte /\ Len(t.bytes) = Len(s) - 1
          BY <1>6, <3>1
        <5>2. t.val[1] \in Nat
          BY <5>1 DEF Byte, Between
        <5>3. Len(s) \in Nat
          OBVIOUS
        <5> QED
          BY <5>1, <5>2, <5>3
      <4>2. Len(k.bytes) <= n
        BY <1>5, <1>7, <4>1, ShorterFits
      <4>3. Bounded(k, c, n)
        BY <1>4, <1>7, <4>2 DEF Bounded
      <4>4. Shorter(k, t1)
        BY <4>1, <4>3, ElementsShorter DEF t1
      <4>5. Shorter(t, t1)
        BY <1>5, <1>7, <4>4, ShorterIs
      <4> QED
        BY <1>7, <4>5 DEF t2
    <3> QED
      BY <3>1
  <2>2. u.ok => Shorter(u, u2)
    <3>1. ASSUME u.ok PROVE Shorter(u, u2)
      <4>1. u.val[1] \in Nat /\ Len(u.bytes) <= m
        <5>1. u.val[1] \in Byte /\ Len(u.bytes) = Len(a) - 1
          BY <1>6, <3>1
        <5>2. u.val[1] \in Nat
          BY <5>1 DEF Byte, Between
        <5>3. Len(a) \in Nat /\ Len(a) <= m + 1
          BY <1>2 DEF a
        <5> QED
          BY <5>1, <5>2, <5>3
      <4>2. Len(l.bytes) <= m
        BY <1>5, <1>7, <4>1, ShorterFits
      <4>3. Bounded(l, d, m)
        BY <1>4, <1>7, <4>2 DEF Bounded
      <4>4. Shorter(l, u1)
        BY <4>1, <4>3, ElementsShorter DEF u1
      <4>5. Shorter(u, u1)
        BY <1>5, <1>7, <4>4, ShorterIs
      <4> QED
        BY <1>7, <4>5 DEF u2
    <3> QED
      BY <3>1
  <2> QED
    BY <1>14, <2>1, <2>2
<1> HIDE DEF t3, u3
<1>17. Shorter(t, t4) /\ Shorter(u, u4)
  BY <1>14, <1>16
<1>18. Beside(t4, u4, b)
  <2>1. ASSUME Like(t, u, b) PROVE Beside(t4, u4, b)
    BY <1>5, <1>8, <1>15, <2>1
  <2>2. t4.bytes \in Seq(Byte)
    BY <1>17 DEF Shorter
  <2> HIDE DEF t4, u4
  <2> QED
    BY <1>5, <1>17, <2>1, <2>2, FromLike
<1> HIDE DEF t4, u4
<1>19. Beside(IfFailed(t4, <<>>), IfFailed(u4, <<>>), b)
  BY <1>18, OthersBeside
<1> QED
  BY <1>1, <1>19 DEF r, q, a

\* No call takes anything back, however many are inside one another.
LEMMA CallsShorter ==
  ASSUME NEW d, NEW N \in Nat, ListCalls(d, N)
  PROVE  \A n \in 0 .. N : InnerShorter(d[n], n)
<1> DEFINE P == {k \in Nat : k <= N => InnerShorter(d[k], k)}
<1>1. ASSUME NEW n \in 0 .. N, NEW s \in Seq(Byte)
      PROVE  d[n][s] = TakeList(Reader(s), IF n = 0 THEN <<>> ELSE d[n - 1])
  BY <1>1 DEF ListCalls
<1>2. 0 \in P
  <2>1. ASSUME NEW s \in Seq(Byte), Len(s) <= 0
        PROVE  d[0][s].bytes \in Seq(Byte) /\ Len(d[0][s].bytes) <= Len(s)
    <3> DEFINE n == 0
               c == IF n = 0 THEN <<>> ELSE d[n - 1]
               t == TakeList(Reader(s), c)
    <3>1. s = <<>> /\ n \in Nat /\ Len(s) <= n + 1 /\ n \in 0 .. N
      BY <2>1
    <3>2. d[n][s] = t
      BY <1>1, <3>1
    <3> HIDE DEF c, n
    <3>3. t.bytes \in Seq(Byte) /\ Len(t.bytes) <= Len(s)
      BY <3>1, ListShorter
    <3> HIDE DEF t
    <3>4. d[n][s].bytes \in Seq(Byte) /\ Len(d[n][s].bytes) <= Len(s)
      BY <3>2, <3>3
    <3> QED
      BY <3>4 DEF n
  <2> QED
    BY <2>1 DEF InnerShorter
<1>3. ASSUME NEW k \in P PROVE k + 1 \in P
  <2>1. k \in Nat /\ (k <= N => InnerShorter(d[k], k))
    BY <1>3
  <2>2. ASSUME k + 1 <= N, NEW s \in Seq(Byte), Len(s) <= k + 1
        PROVE  d[k + 1][s].bytes \in Seq(Byte) /\ Len(d[k + 1][s].bytes) <= Len(s)
    <3> DEFINE n == k + 1
               c == d[k]
               t == TakeList(Reader(s), c)
    <3>1. n \in 0 .. N /\ n # 0 /\ n - 1 = k /\ k <= N
      BY <2>1, <2>2
    <3>2. d[n][s] = t
      <4>1. d[n][s] = TakeList(Reader(s), IF n = 0 THEN <<>> ELSE d[n - 1])
        BY <1>1, <3>1
      <4>2. (IF n = 0 THEN <<>> ELSE d[n - 1]) = c
        BY <3>1
      <4> QED
        BY <4>1, <4>2
    <3>3. InnerShorter(c, k)
      BY <2>1, <3>1
    <3> HIDE DEF c
    <3>4. t.bytes \in Seq(Byte) /\ Len(t.bytes) <= Len(s)
      BY <2>1, <2>2, <3>3, ListShorter
    <3> HIDE DEF t
    <3> QED
      BY <3>2, <3>4
  <2>3. k + 1 <= N => InnerShorter(d[k + 1], k + 1)
    BY <2>2 DEF InnerShorter
  <2> QED
    BY <2>1, <2>3
<1>4. P = Nat
  <2> HIDE DEF P
  <2>1. P \in SUBSET Nat
    BY DEF P
  <2> QED
    BY <1>2, <1>3, <2>1, EveryNumber
<1>5. ASSUME NEW n \in 0 .. N PROVE InnerShorter(d[n], n)
  <2>1. n \in P /\ n <= N
    BY <1>4
  <2> QED
    BY <2>1
<1> QED
  BY <1>5

LEMMA CallIs ==
  ASSUME NEW c, NEW N \in Nat, ListCalls(c, N), NEW n \in 0 .. N, NEW s \in Seq(Byte)
  PROVE  c[n][s] = TakeList(Reader(s), IF n = 0 THEN <<>> ELSE c[n - 1])
  BY DEF ListCalls

\* Nor does it read otherwise when b comes behind its bytes.
LEMMA CallsBeside ==
  ASSUME NEW b \in Seq(Byte), NEW N \in Nat, NEW c, ListCalls(c, N),
         NEW M \in Nat, M = N + Len(b), NEW d, ListCalls(d, M)
  PROVE  \A n \in 0 .. N : InnerBeside(c[n], d[n + Len(b)], n, b)
<1> DEFINE B == Len(b)
           P == {k \in Nat : k <= N => InnerBeside(c[k], d[k + B], k, b)}
<1>1. B \in Nat /\ M = N + B
  OBVIOUS
<1>2. ASSUME NEW n \in 0 .. N, NEW s \in Seq(Byte)
      PROVE  c[n][s] = TakeList(Reader(s), IF n = 0 THEN <<>> ELSE c[n - 1])
  BY <1>2, CallIs
<1>3. ASSUME NEW n \in 0 .. M, NEW s \in Seq(Byte)
      PROVE  d[n][s] = TakeList(Reader(s), IF n = 0 THEN <<>> ELSE d[n - 1])
  BY <1>3, CallIs
<1>4. /\ \A n \in 0 .. N : InnerShorter(c[n], n)
      /\ \A n \in 0 .. M : InnerShorter(d[n], n)
  BY CallsShorter
<1> HIDE DEF B
<1>5. 0 \in P
  <2>1. ASSUME NEW s \in Seq(Byte), Len(s) <= 0 PROVE Beside(c[0][s], d[0 + B][s \o b], b)
    <3> DEFINE r == c[0][s]
               q == d[B][b]
    <3>1. s = <<>> /\ s \o b = b /\ 0 + B = B /\ 0 \in 0 .. N /\ B \in 0 .. M /\ Len(s) = 0
      BY <1>1, <2>1
    <3>2. r.bytes \in Seq(Byte)
      <4>1. InnerShorter(c[0], 0)
        BY <1>4, <3>1
      <4> QED
        BY <2>1, <4>1 DEF InnerShorter
    <3>3. q.bytes \in Seq(Byte) /\ Len(q.bytes) <= Len(b)
      <4>1. InnerShorter(d[B], B) /\ Len(b) <= B
        BY <1>4, <3>1 DEF B
      <4> QED
        BY <4>1 DEF InnerShorter
    <3> HIDE DEF r, q
    <3>4. Beside(r, q, b)
      BY <3>2, <3>3 DEF Beside
    <3> QED
      BY <3>1, <3>4 DEF r, q
  <2> QED
    BY <2>1 DEF InnerBeside
<1>6. ASSUME NEW k \in P PROVE k + 1 \in P
  <2>1. k \in Nat /\ (k <= N => InnerBeside(c[k], d[k + B], k, b))
    BY <1>6
  <2>2. ASSUME k + 1 <= N, NEW s \in Seq(Byte), Len(s) <= k + 1
        PROVE  Beside(c[k + 1][s], d[(k + 1) + B][s \o b], b)
    <3> DEFINE n == k + 1
               m == k + B
               e == c[k]
               f == d[m]
               a == s \o b
               t == TakeList(Reader(s), e)
               u == TakeList(Reader(a), f)
    <3>1. /\ n \in 0 .. N /\ n # 0 /\ n - 1 = k /\ k <= N /\ k \in 0 .. N
          /\ n + B = m + 1 /\ m + 1 \in 0 .. M /\ m + 1 # 0 /\ (m + 1) - 1 = m /\ m \in 0 .. M
          /\ m \in Nat
      BY <1>1, <2>1, <2>2
    <3>2. c[n][s] = t
      <4>1. c[n][s] = TakeList(Reader(s), IF n = 0 THEN <<>> ELSE c[n - 1])
        BY <1>2, <3>1
      <4>2. (IF n = 0 THEN <<>> ELSE c[n - 1]) = e
        BY <3>1
      <4> QED
        BY <4>1, <4>2
    <3>3. a \in Seq(Byte) /\ Len(a) <= m + 1
      <4>1. a \in Seq(Byte) /\ Len(a) = Len(s) + Len(b)
        BY JoinedBytes
      <4>2. Len(s) \in Nat /\ Len(b) = B
        BY DEF B
      <4> HIDE DEF a
      <4> QED
        BY <1>1, <2>1, <2>2, <4>1, <4>2
    <3>4. d[m + 1][a] = u
      <4> DEFINE j == m + 1
      <4>1. d[j][a] = TakeList(Reader(a), IF j = 0 THEN <<>> ELSE d[j - 1])
        <5> HIDE DEF a, m
        <5> QED
          BY <1>3, <3>1, <3>3
      <4>2. (IF j = 0 THEN <<>> ELSE d[j - 1]) = f
        BY <3>1
      <4> HIDE DEF a, m, f
      <4> QED
        BY <4>1, <4>2
    <3>5. Inners(e, f, k, m, b)
      <4>1. InnerBeside(c[k], d[m], k, b)
        BY <2>1, <3>1
      <4>2. InnerShorter(c[k], k) /\ InnerShorter(d[m], m)
        <5> HIDE DEF m
        <5> QED
          BY <1>4, <3>1
      <4> QED
        BY <4>1, <4>2 DEF Inners
    <3> HIDE DEF e, f, m
    <3>6. Beside(t, u, b)
      BY <2>1, <2>2, <3>1, <3>3, <3>5, ListBeside
    <3> HIDE DEF t, u, a
    <3>7. n + B = m + 1
      BY <3>1
    <3> HIDE DEF n
    <3>8. Beside(c[n][s], d[n + B][a], b)
      BY <3>2, <3>4, <3>6, <3>7
    <3> QED
      BY <3>8 DEF n, a
  <2>3. k + 1 <= N => InnerBeside(c[k + 1], d[(k + 1) + B], k + 1, b)
    BY <2>2 DEF InnerBeside
  <2> QED
    BY <2>1, <2>3
<1>7. P = Nat
  <2> HIDE DEF P
  <2>1. P \in SUBSET Nat
    BY DEF P
  <2> QED
    BY <1>5, <1>6, <2>1, EveryNumber
<1>8. ASSUME NEW n \in 0 .. N PROVE InnerBeside(c[n], d[n + B], n, b)
  <2>1. n \in P /\ n <= N
    BY <1>7
  <2> QED
    BY <2>1
<1> QED
  BY <1>8 DEF B

\* When s is all one list, a list with b behind s takes s, at least.
LEMMA DecodeBeyond ==
  ASSUME NEW s \in Seq(Byte), NEW b \in Seq(Byte),
         NEW r, r.bytes = s, NEW q, q.bytes = s \o b,
         Len(DecodeExtras(r).bytes) = 0
  PROVE  DecodeExtras(q).bytes \in Seq(Byte) /\ Len(DecodeExtras(q).bytes) <= Len(b)
<1> DEFINE a == s \o b
           N == Len(s)
           M == Len(a)
<1>1. a \in Seq(Byte) /\ M = N + Len(b) /\ N \in Nat /\ M \in Nat /\ Len(b) \in Nat
  BY JoinedBytes
<1>2. PICK c : ListCalls(c, Len(r.bytes)) /\ Gives(DecodeExtras(r), TakeInner(r, c[Len(r.bytes)]))
  <2>1. Len(r.bytes) \in Nat
    OBVIOUS
  <2> QED
    BY <2>1, DecodeExtrasIs
<1>3. PICK d : ListCalls(d, Len(q.bytes)) /\ Gives(DecodeExtras(q), TakeInner(q, d[Len(q.bytes)]))
  <2>1. Len(q.bytes) \in Nat
    BY <1>1
  <2> QED
    BY <2>1, DecodeExtrasIs
<1> HIDE DEF a
<1>4. r.bytes = s /\ q.bytes = a
  BY DEF a
<1>5. DecodeExtras(r).bytes = c[N][s].bytes /\ DecodeExtras(q).bytes = d[M][a].bytes
  BY <1>2, <1>3, <1>4 DEF Gives, TakeInner, Reading
<1>6. ListCalls(c, N) /\ ListCalls(d, M)
  BY <1>2, <1>3, <1>4
<1> HIDE DEF N, M
<1>7. \A n \in 0 .. N : InnerBeside(c[n], d[n + Len(b)], n, b)
  BY <1>1, <1>6, CallsBeside
<1>8. InnerBeside(c[N], d[M], N, b)
  <2>1. N \in 0 .. N
    BY <1>1
  <2> QED
    BY <1>1, <1>7, <2>1
<1>9. Beside(c[N][s], d[M][a], b)
  BY <1>1, <1>8 DEF InnerBeside, N, a
<1>10. Len(c[N][s].bytes) = 0
  BY <1>5
<1>11. d[M][a].bytes \in Seq(Byte) /\ Len(d[M][a].bytes) <= Len(b)
  <2> DEFINE t == c[N][s]
             u == d[M][a]
  <2>1. Beside(t, u, b) /\ Len(t.bytes) = 0
    BY <1>9, <1>10
  <2> HIDE DEF t, u
  <2>2. CASE Like(t, u, b)
    <3>1. t.bytes \in Seq(Byte) /\ u.bytes = t.bytes \o b /\ u.bytes \in Seq(Byte)
      BY <2>1, <2>2 DEF Beside, Like
    <3>2. Len(t.bytes \o b) = Len(t.bytes) + Len(b)
      BY <3>1, JoinedBytes
    <3> QED
      BY <1>1, <2>1, <3>1, <3>2 DEF t, u
  <2>3. CASE ~Like(t, u, b)
    BY <2>1, <2>3 DEF Beside, t, u
  <2> QED
    BY <2>2, <2>3
<1> QED
  BY <1>5, <1>11

-----------------------------------------------------------------------------
(* A message whose extras fill their buffer                                *)

\* Reading all the extras leaves nothing of them.
LEMMA ExtrasAreUsed ==
  ASSUME NEW m, Marked(m), Ext(m).ok, NEW s, s = Ext(m).bytes,
         NEW r, r = Reading(s, TRUE, FALSE, 1)
  PROVE  Len(DecodeExtras(r).bytes) = 0
<1> DEFINE w == Writer(ExtraCap)
           e == Ext(m)
           list == m.extras
           no == FALSE
           keys == {}
<1>1. /\ Sound(e) /\ e.cap = ExtraCap /\ e.bytes \in Seq(Byte) /\ Len(e.bytes) \in Nat
      /\ Len(e.bytes) <= ExtraCap
  BY ExtIs
<1>2. ExtraCap \in Nat /\ ExtraCap <= 513 /\ ExtraCap < 32768
  BY CapsFit
<1>3. Sound(w) /\ w.cap = ExtraCap /\ w.bytes = <<>>
  BY <1>2, NewWriter
<1>4. no \in BOOLEAN /\ ~no /\ e = EncodeExtras(w, list, no)
  BY DEF Ext
<1> HIDE DEF e
<1>5. s = e.bytes
  BY DEF e
<1>6. Held(e, s)
  <2>1. Starts(s, e.bytes)
    BY <1>1, <1>5 DEF Starts
  <2>2. e.ok
    BY DEF e
  <2> QED
    BY <1>1, <1>5, <2>1, <2>2 DEF Held, Sound
<1>7. r = After(s, w, 1)
  <2>1. Len(w.bytes) = 0
    BY <1>3
  <2>2. Rest(s, 0) = s
    BY <1>1, <1>5, RestOfAll
  <2>3. Rest(s, Len(w.bytes)) = s
    BY <2>1, <2>2
  <2> HIDE DEF w
  <2> QED
    BY <2>3 DEF After, At
<1> HIDE DEF w, no, list
<1>8. ListFits(list, SmallInt, Tree[Depth], no)
  <2>1. list \in Extras
    BY DEF Marked, list
  <2> QED
    BY <1>4, <2>1, ExtrasFit
<1> HIDE DEF keys
<1>9. Listed(s, EncodeExtras(w, list, no), DecodeExtras(After(s, w, 1)), ExtrasArrived(list),
             ~EncodeExtras(w, list, no).lost /\ ~MapHasLong(list), keys,
             ~EncodeExtras(w, list, no).lost /\ LongUnder(list, keys))
  <2>1. w.cap <= 513
    BY <1>2, <1>3
  <2>2. Held(EncodeExtras(w, list, no), s)
    BY <1>4, <1>6
  <2> QED
    BY <1>3, <1>4, <1>8, <2>1, <2>2, ExtrasComeBack
<1> DEFINE x == DecodeExtras(r)
<1>10. x = After(s, e, x.val)
  <2> HIDE DEF x
  <2>1. x = DecodeExtras(After(s, w, 1))
    BY <1>7 DEF x
  <2> QED
    BY <1>4, <1>9, <2>1 DEF Listed
<1> HIDE DEF x
<1>11. x.bytes = Rest(s, Len(e.bytes))
  BY <1>10, AfterIs
<1>12. Len(Rest(s, Len(e.bytes))) = Len(s) - Len(e.bytes)
  <2>1. s \in Seq(Byte) /\ Len(e.bytes) \in Nat /\ Len(e.bytes) <= Len(s)
    BY <1>1, <1>5
  <2> QED
    BY <2>1, RestIs
<1>13. Len(x.bytes) = 0
  BY <1>1, <1>5, <1>11, <1>12
<1> QED
  BY <1>13 DEF x

\* When the extras take as much as the length in the header says, or more, no
\* payload is left.
LEMMA NoPayloadLeft ==
  ASSUME NEW r, NEW flag, Field(flag, FLAG_EXTRA, 2) = 1, NEW k \in Nat, NEW type,
         NEW n \in Nat, Len(r.bytes) = n + k, k <= n,
         Len(DecodeExtras(r).bytes) \in Nat, Len(DecodeExtras(r).bytes) <= k,
         TakeBody(r, flag, k, type).ok
  PROVE  TakeBody(r, flag, k, type).val.payload = Null
<1> DEFINE y == DecodeExtras(r)
           x == TakeHeaderData(r, flag)
           left == k - (Len(r.bytes) - Len(x.bytes))
           data == TakePayload(x, left)
           m == [type |-> type, id |-> r.val, flag |-> flag, extras |-> x.val,
                 payload |-> data.val, extrFlag |-> FlagsIn(x.val)]
           all == WithVal(data, m)
<1>1. TakeBody(r, flag, k, type) = IF ~x.ok THEN x ELSE IF ~data.ok THEN data ELSE all
  BY DEF TakeBody, TakeRest, WithPayload
<1>2. TakeBody(r, flag, k, type) = all /\ x.ok
  <2> HIDE DEF x, data, all
  <2> QED
    BY <1>1
<1>3. all.val = m
  BY DEF WithVal, Reading
<1>4. x = IF y.ok /\ y.val = <<>> THEN Failed(y) ELSE y
  <2> HIDE DEF y
  <2> QED
    BY DEF TakeHeaderData, NotNull, y
<1>5. ~Failed(y).ok
  BY DEF Failed, Reading
<1> HIDE DEF x, y
<1>6. x = y
  BY <1>2, <1>4, <1>5
<1>7. ~(left > 0)
  <2>1. Len(y.bytes) \in Nat /\ Len(y.bytes) <= k
    BY DEF y
  <2> QED
    BY <1>6, <2>1
<1> HIDE DEF left
<1>8. data.val = Null
  BY <1>7 DEF TakePayload, WithVal, Reading
<1> HIDE DEF data
<1>9. m.payload = Null
  BY <1>8
<1> HIDE DEF all, m
<1> QED
  BY <1>2, <1>3, <1>9

\* When the extras fill their buffer, msg_encode does not count them, and what
\* msg_decode then takes for the message has no payload.
LEMMA FilledIsRead ==
  ASSUME NEW m, Marked(m), EncodeMarked(m).w.ok, ~(Len(Ext(m).bytes) < ExtraCap),
         Decode(EncodeMarked(m).w.bytes).ok
  PROVE  Decode(EncodeMarked(m).w.bytes).val.payload = Null
<1> DEFINE s == EncodeMarked(m).w.bytes
           e == Ext(m)
           n == Len(e.bytes)
           p == Body(m)
           k == Len(p)
           h == Header(m, k)
           q == h \o e.bytes
           t == e.bytes \o p
           r == At(s, 13, 1)
<1>1. /\ Sound(e) /\ e.ok /\ e.bytes \in Seq(Byte) /\ n \in Nat /\ n <= ExtraCap /\ e.cap = ExtraCap
  BY ExtIs, EncodedIs
<1>2. p \in Seq(Byte) /\ k \in Nat /\ k <= ItemCap
  BY BodyIs DEF Marked
<1>3. /\ ItemCap \in Nat /\ ExtraCap \in Nat /\ 0 < ExtraCap /\ ItemCap <= ExtraCap
      /\ ItemCap < 32768
  BY CapsFit DEF HeaderLen
<1>4. n = ExtraCap /\ k <= n /\ k < 32768
  <2>1. ~(n < ExtraCap)
    OBVIOUS
  <2> HIDE DEF n, k
  <2> QED
    BY <1>1, <1>2, <1>3, <2>1
<1>5. WrittenLen(e) = 0
  <2> HIDE DEF e
  <2>1. WrittenLen(e) = ExtraCap % ExtraCap
    BY <1>1, <1>4 DEF WrittenLen
  <2> QED
    BY <1>3, <2>1
<1>6. s = q \o p
  <2>1. s = (Header(m, WrittenLen(e) + k) \o e.bytes) \o p
    BY EncodedIs
  <2>2. WrittenLen(e) + k = k
    <3> HIDE DEF e, k
    <3> QED
      BY <1>2, <1>5
  <2> HIDE DEF s, e, p, k
  <2> QED
    BY <2>1, <2>2
<1> HIDE DEF s, e, p
<1>7. h \in Seq(Byte) /\ Len(h) = 13
  BY <1>2, HeaderIs
<1> HIDE DEF h
<1>8. q \in Seq(Byte) /\ Len(q) = 13 + n /\ Starts(q, h) /\ Rest(q, 13) = e.bytes
  <2>1. /\ Rest(h \o e.bytes, Len(h)) = e.bytes /\ Starts(h \o e.bytes, h)
        /\ h \o e.bytes \in Seq(Byte) /\ Len(h \o e.bytes) = Len(h) + Len(e.bytes)
    BY <1>1, <1>7, RestOfJoin
  <2> QED
    BY <1>7, <2>1
<1> HIDE DEF q
<1>9. s \in Seq(Byte) /\ Len(s) = (13 + n) + k /\ Starts(s, q)
  <2>1. /\ Starts(q \o p, q) /\ q \o p \in Seq(Byte) /\ Len(q \o p) = Len(q) + Len(p)
    BY <1>2, <1>8, RestOfJoin
  <2> QED
    BY <1>6, <1>8, <2>1
<1>10. Starts(s, h)
  <2>1. \A i \in 1 .. Len(h) : i \in 1 .. Len(q)
    BY <1>1, <1>7, <1>8
  <2>2. Len(h) <= Len(s)
    BY <1>1, <1>2, <1>7, <1>9
  <2> QED
    BY <1>8, <1>9, <2>1, <2>2 DEF Starts
<1>11. Gives(Decode(s), TakeBody(r, m.flag, k, m.type))
  <2>1. 13 + k <= Len(s)
    BY <1>1, <1>2, <1>9
  <2>2. Starts(s, Header(m, k))
    BY <1>10 DEF h
  <2>3. Gives(Decode(s), TakeBody(At(s, 13, 1), m.flag, k, m.type))
    BY <1>2, <1>4, <1>9, <2>1, <2>2, HeaderIsRead
  <2> QED
    BY <2>3
<1>12. r.bytes = t
  <2>1. r.bytes = Rest(s, 13)
    BY DEF At, Reading
  <2>2. 13 \in Nat /\ 13 <= Len(q)
    BY <1>1, <1>8
  <2>3. Rest(q \o p, 13) = Rest(q, 13) \o p
    BY <1>2, <1>8, <2>2, RestOfBoth
  <2> HIDE DEF r
  <2> QED
    BY <1>6, <1>8, <2>1, <2>3
<1> HIDE DEF r
<1>13. Len(t) = n + k
  BY <1>1, <1>2, JoinedBytes
<1> HIDE DEF t
<1> DEFINE u == Reading(e.bytes, TRUE, FALSE, 1)
<1>14. u.bytes = e.bytes
  BY DEF Reading
<1>15. Len(DecodeExtras(u).bytes) = 0
  <2>1. Ext(m).ok /\ e.bytes = Ext(m).bytes
    BY <1>1 DEF e
  <2> QED
    BY <2>1, ExtrasAreUsed
<1> HIDE DEF u
<1>16. DecodeExtras(r).bytes \in Seq(Byte) /\ Len(DecodeExtras(r).bytes) <= k
  <2>1. r.bytes = e.bytes \o p
    BY <1>12 DEF t
  <2> QED
    BY <1>1, <1>2, <1>14, <1>15, <2>1, DecodeBeyond
<1>17. Field(m.flag, FLAG_EXTRA, 2) = 1
  <2>1. m.flag \in {1588, 1078}
    BY DEF Marked
  <2> QED
    BY <2>1, FlagsAre
<1>18. TakeBody(r, m.flag, k, m.type).ok
  <2>1. Decode(s).ok
    BY DEF s
  <2> QED
    BY <1>11, <2>1 DEF Gives
<1>19. Len(r.bytes) = n + k /\ Len(DecodeExtras(r).bytes) \in Nat
  BY <1>12, <1>13, <1>16
<1> DEFINE flag == m.flag
           type == m.type
<1> HIDE DEF n, k, flag, type
<1>20. TakeBody(r, flag, k, type).val.payload = Null
  <2>1. n \in Nat /\ k \in Nat /\ k <= n /\ Len(r.bytes) = n + k
    BY <1>1, <1>2, <1>4, <1>19
  <2>2. Field(flag, FLAG_EXTRA, 2) = 1 /\ TakeBody(r, flag, k, type).ok
    BY <1>17, <1>18 DEF flag, type
  <2>3. Len(DecodeExtras(r).bytes) \in Nat /\ Len(DecodeExtras(r).bytes) <= k
    BY <1>16, <1>19
  <2> QED
    BY <2>1, <2>2, <2>3, NoPayloadLeft
<1>21. Decode(s).val.payload = Null
  BY <1>11, <1>20 DEF Gives, flag, type
<1> QED
  BY <1>21 DEF s

\* So such a message is never parsed.
LEMMA ParsedIsWhole ==
  ASSUME MessageInv, stage = "parsed"
  PROVE  SentWhole
<1> SUFFICES ASSUME ~SentWhole PROVE FALSE
  OBVIOUS
<1>1. AsSent /\ Decoded.ok /\ got.msg.payload # Null
      /\ (\/ got = [msg |-> Decoded.val, from |-> Null]
          \/ got.from \in Sources /\ got.msg = NoteSource(Decoded.val, got.from))
  BY DEF MessageInv, AsSent
<1>2. DecodedMsg(Decoded.val)
  BY <1>1, DecodedIsMsg DEF Decoded
<1>3. got.msg.payload = Decoded.val.payload
  BY <1>1, <1>2, NotedIs
<1>4. /\ Marked(msg) /\ EncodeMarked(msg).w.ok /\ wire.ext = Ext(msg)
      /\ wire.w.bytes = EncodeMarked(msg).w.bytes
  BY <1>1 DEF AsSent
<1>5. ~(Len(Ext(msg).bytes) < ExtraCap)
  BY <1>4 DEF SentWhole
<1>6. Decode(EncodeMarked(msg).w.bytes).ok
  BY <1>1, <1>4 DEF Decoded
<1>7. Decode(EncodeMarked(msg).w.bytes).val.payload = Null
  BY <1>4, <1>5, <1>6, FilledIsRead
<1> QED
  BY <1>1, <1>3, <1>4, <1>7 DEF Decoded

\* ItemArrives follows from the invariant.
LEMMA MessageInvItem ==
  ASSUME MessageInv
  PROVE  ItemArrives
<1>1. ReplyAddressNoted
  <2>1. CASE stage = "parsed"
    BY <2>1, ParsedIsWhole, WholeReplyNoted
  <2>2. CASE stage # "parsed"
    BY <2>2 DEF ReplyAddressNoted, FoundByUdp
  <2> QED
    BY <2>1, <2>2
<1>2. ASSUME msg.type = MSG_TYPE_PUBSUB, SentWhole, ~payload.lost, stage = "crashed"
      PROVE  ~payload.ok
  BY <1>2, CrashedIsUnfit
<1>3. ASSUME msg.type = MSG_TYPE_PUBSUB, SentWhole, ~payload.lost, stage = "parsed",
             NEW item, item = Items[asked], ~ItemHasLong(item)
      PROVE  /\ value.ok
             /\ \A f \in DOMAIN item \ {"cxt", "data"} : value.val[f] = item[f]
             /\ \A i \in 1 .. Len(item.cxt) :
                  ExtrasArrived(item.cxt)[i].key \in ReplyKeys
                    \/ value.val.cxt[i] = ExtrasArrived(item.cxt)[i]
             /\ value.val.data = IF item.data = Null THEN Null ELSE DataArrived(item)
  <2>1. /\ value.ok
        /\ \A f \in DOMAIN item \ {"cxt", "data"} : value.val[f] = item[f]
        /\ \A i \in 1 .. Len(item.cxt) :
             ExtrasArrived(item.cxt)[i].key \in ReplyKeys
               \/ value.val.cxt[i] = ExtrasArrived(item.cxt)[i]
        /\ value.val.data = IF item.data # Null THEN DataArrived(item) ELSE Null
    BY <1>3, WholeItemArrives
  <2> QED
    BY <2>1
<1> QED
  BY <1>1, <1>2, <1>3 DEF ItemArrives

\* A published item arrives with all its fields, an item without payload only
\* when it did not fit into its buffer, and one that came by UDP can be
\* answered: _c_serialPsItem, msg_encode, msg_decode, the UDP loop and
\* _psitem_pubsubItemParseBin, one after another.
THEOREM ItemsAlwaysArrive == Spec => []ItemArrives
<1>1. MessageInv => ItemArrives
  BY MessageInvItem
<1> QED
  BY <1>1, MessageInvariant, PTL

\* NeverReadsPast follows from the invariant.
LEMMA MessageInvReads ==
  ASSUME MessageInv
  PROVE  NeverReadsPast
<1>1. CASE stage = "parsed"
  <2>1. SentWhole /\ Made
    BY <1>1, ParsedIsWhole DEF MessageInv
  <2>2. CASE msg.type = MSG_TYPE_REQ_JRPC
    BY <1>1, <2>1, <2>2, ParamIsParsed DEF NeverReadsPast
  <2>3. CASE msg.type = MSG_TYPE_PUBSUB
    <3>1. PICK v : ItemParsed(Items[asked], got.msg.extras, v)
      BY <1>1, <2>1, <2>3, ItemIsParsed
    <3> DEFINE u == [v EXCEPT !.cxt = WithSource(v.cxt, got.msg.extras)]
    <3>2. value = After(payload.bytes, payload, u)
      BY <3>1 DEF ItemParsed
    <3> HIDE DEF u
    <3>3. ~value.past
      BY <3>2, AfterIs
    <3> QED
      BY <3>3 DEF NeverReadsPast
  <2> QED
    BY <2>1, <2>2, <2>3 DEF Made
<1>2. CASE stage # "parsed"
  <2>1. value = Reader(<<>>)
    BY <1>2 DEF MessageInv
  <2> QED
    BY <2>1 DEF NeverReadsPast, Reader, Reading
<1> QED
  BY <1>1, <1>2

\* No reader is taken past the end of what was sent: bb_readString and the
\* other functions that do not ask whether a read failed never need to.
THEOREM NeverAnyReadPast == Spec => []NeverReadsPast
<1>1. MessageInv => NeverReadsPast
  BY MessageInvReads
<1> QED
  BY <1>1, MessageInvariant, PTL

=============================================================================
