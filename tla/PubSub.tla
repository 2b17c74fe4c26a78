------------------------------- MODULE PubSub -------------------------------
(***************************************************************************)
(* Subscriptions in src/src/jm_client.c: the topic maps (ps_listener), the *)
(* requests that subscribe a topic at the server, their answers, and the   *)
(* items that are dispatched to listeners.                                 *)
(*                                                                         *)
(* Handlers run to completion, each a step, except that the loop of        *)
(* _c_subTopicAfterjmLogin takes a step for each topic.  That listener     *)
(* comes first in the table of login listeners; the order of topics in the *)
(* loop is left open.  A listener of items may call client_subscribe while *)
(* an item is dispatched, which changes nothing for that item; no listener *)
(* calls client_unsubscribe, and nothing calls client_distroy.             *)
(***************************************************************************)
EXTENDS Naturals, Sequences, SequencesExt

CONSTANTS
  Topics,      \* topics
  P2P,         \* TOPIC_P2P
  Fns,         \* listeners of items
  Types,       \* the types of items; 0 subscribes to all of them
  MaxMsgs,     \* bound: subscribe and unsubscribe messages
  MaxWanted    \* bound: listeners that want a topic at a time

ASSUME P2PIsTopic == P2P \in Topics
ASSUME ZeroIsEveryType == 0 \in Types
ASSUME BoundsAreNat == MaxMsgs \in Nat /\ MaxWanted \in Nat

VARIABLES
  maps,       \* the map of each topic
  loginState, \* "in": the login listeners were called; "bare": loginCode
              \* is LSUCCESS but they were not (an answer without data); "out"
  todo,       \* the topics that _c_subTopicAfterjmLogin still has to ask for
  lastId,     \* the counter msgId of jm_msg.c
  (* The network and the callers, kept for the properties.                 *)
  requests,   \* the subscribe requests handed to the network
  mark,       \* lastId when the login listeners were last called
  missed,     \* topics whose request failed since, or could not be made
  wanted      \* the type that each listener last subscribed a topic for

subsVars == <<maps, loginState, todo, lastId, requests, mark, missed, wanted>>

Listener == [fn : Fns, type : Types]
Map == [known : BOOLEAN, rm : BOOLEAN, subMsgId : Nat, subId : Nat,
        listeners : Seq(Listener)]
NoMap == [known |-> FALSE, rm |-> FALSE, subMsgId |-> 0, subId |-> 0,
          listeners |-> <<>>]

isLogin == loginState # "out"
NextId == lastId + 1

(* The subscription that the server makes of a request: one of its own.    *)
Given(request) == request.id

-----------------------------------------------------------------------------
(* client_subscribe                                                        *)

(* _c_createPubsubListenerMap: rm counts only when the map is made.        *)
MapFor(t, rm) ==
  IF maps[t].known THEN maps[t] ELSE [NoMap EXCEPT !.known = TRUE, !.rm = rm]

(* _c_addListenerItem: a listener that is there gets the new type, else it *)
(* is put at the head.                                                     *)
WithListenerTwice(m, fn, type) ==         \* deviation: no search
  [m EXCEPT !.listeners = <<[fn |-> fn, type |-> type]>> \o @]
WithListener(m, fn, type) ==
  [m EXCEPT !.listeners =
     IF \E i \in DOMAIN @ : @[i].fn = fn
     THEN [i \in DOMAIN @ |->
             IF @[i].fn = fn THEN [@[i] EXCEPT !.type = type] ELSE @[i]]
     ELSE <<[fn |-> fn, type |-> type]>> \o @]

(* _c_doSubscribeTopic for topic t whose map is m: there is no message, or *)
(* the request is made and sent, or made and not sent.                     *)
AskedMap(m) == [m EXCEPT !.subMsgId = NextId, !.subId = 0]
DoSubscribe(t, m) ==
  \/ /\ maps' = [maps EXCEPT ![t] = m]
     /\ missed' = missed \cup {t}
     /\ UNCHANGED <<lastId, requests>>
  \/ /\ lastId < MaxMsgs
     /\ lastId' = NextId
     /\ maps' = [maps EXCEPT ![t] = AskedMap(m)]
     /\ \/ requests' = requests \cup {[id |-> NextId, topic |-> t]}
           /\ missed' = missed \ {t}
        \/ UNCHANGED requests /\ missed' = missed \cup {t}

(* client_subscribe, directly or through client_subscribeByType.  Only a   *)
(* new topic is asked for.                                                 *)
AsksNever(t, rm) == FALSE                 \* deviation: left to the login
AsksNow(t, rm) == rm /\ ~maps[t].known /\ isLogin

(* The bound on listeners.                                                 *)
HasRoomFor(t, fn) ==
  \/ wanted[t][fn] # {}
  \/ Cardinality({p \in Topics \X Fns : wanted[p[1]][p[2]] # {}}) < MaxWanted

Subscribe(t, fn, type, rm) ==
  /\ todo = {}
  /\ HasRoomFor(t, fn)
  /\ LET m == WithListener(MapFor(t, rm), fn, type)
     IN IF AsksNow(t, rm)
        THEN DoSubscribe(t, m)
        ELSE /\ maps' = [maps EXCEPT ![t] = m]
             /\ UNCHANGED <<lastId, requests, missed>>
  /\ wanted' = [wanted EXCEPT ![t][fn] = {type}]
  /\ UNCHANGED <<loginState, todo, mark>>

(* There is memory for the map and none for the listener: the map stays.   *)
SubscribeNoItem(t, fn, rm) ==
  /\ todo = {}
  /\ \A i \in DOMAIN maps[t].listeners : maps[t].listeners[i].fn # fn
  /\ maps' = [maps EXCEPT ![t] = MapFor(t, rm)]
  /\ missed' = missed \cup {t}
  /\ UNCHANGED <<loginState, todo, lastId, requests, mark, wanted>>

(* client_subscribeP2PByType.                                              *)
SubscribeP2P(fn, type) ==
  /\ todo = {}
  /\ HasRoomFor(P2P, fn)
  /\ maps' = [maps EXCEPT ![P2P] = WithListener(MapFor(P2P, FALSE), fn, type)]
  /\ wanted' = [wanted EXCEPT ![P2P][fn] = {type}]
  /\ UNCHANGED <<loginState, todo, lastId, requests, mark, missed>>

(* client_unsubscribe: a listener behind the head is unlinked; with the    *)
(* head the whole list goes, and the server is told, if there is a message *)
(* and it can be sent.                                                     *)
Unlink(t, i) ==
  IF i = 1
  THEN /\ maps' = [maps EXCEPT ![t].listeners = <<>>]
       /\ UNCHANGED lastId \/ (lastId < MaxMsgs /\ lastId' = NextId)
  ELSE /\ maps' = [maps EXCEPT ![t].listeners = RemoveAt(@, i)]
       /\ UNCHANGED lastId

Unsubscribe(t, fn) ==
  /\ todo = {}
  /\ LET at == {i \in DOMAIN maps[t].listeners : maps[t].listeners[i].fn = fn}
     IN \/ \E i \in at : (\A j \in at : i <= j) /\ Unlink(t, i)
        \/ at = {} /\ UNCHANGED <<maps, lastId>>
  /\ wanted' = [wanted EXCEPT ![t][fn] = {}]
  /\ UNCHANGED <<loginState, todo, requests, mark, missed>>

-----------------------------------------------------------------------------
(* The login                                                               *)

(* The login listeners are called; _c_subTopicAfterjmLogin passes over     *)
(* local topics and TOPIC_P2P.                                             *)
Resub == {t \in Topics : maps[t].known /\ maps[t].rm /\ t # P2P}

AfterLogin ==
  /\ todo = {}
  /\ loginState' = "in"
  /\ todo' = Resub
  /\ mark' = lastId
  /\ missed' = {}
  /\ UNCHANGED <<maps, lastId, requests, wanted>>

Resubscribe(t) ==
  /\ t \in todo
  /\ todo' = todo \ {t}
  /\ DoSubscribe(t, maps[t])
  /\ UNCHANGED <<loginState, mark, wanted>>

(* An answer without data, a failed login, client_logout.                  *)
LoginChanges(code) ==
  /\ todo = {}
  /\ loginState' = code
  /\ UNCHANGED <<maps, todo, lastId, requests, mark, missed, wanted>>

-----------------------------------------------------------------------------
(* Messages from the server                                                *)

(* _c_pubsubOpMsgHandle: the server answers a request, once or more.       *)
OpMsgUnchecked(r) ==                      \* deviation: subMsgId not compared
  /\ todo = {}
  /\ maps' = [maps EXCEPT ![r.topic].subId = Given(r)]
  /\ UNCHANGED <<loginState, todo, lastId, requests, mark, missed, wanted>>
OpMsg(r) ==
  /\ todo = {}
  /\ maps[r.topic].subMsgId = r.id
  /\ maps' = [maps EXCEPT ![r.topic].subId = Given(r)]
  /\ UNCHANGED <<loginState, todo, lastId, requests, mark, missed, wanted>>

(* _c_dispachPubsubItem: where the listeners stand in the list that an     *)
(* item of a topic is given to.  It changes no state.                      *)
Serves(listener, type) == listener.type = 0 \/ listener.type = type
Served(t, type) ==
  {i \in DOMAIN maps[t].listeners : Serves(maps[t].listeners[i], type)}

-----------------------------------------------------------------------------
SubsInit ==
  /\ maps = [t \in Topics |-> NoMap]
  /\ loginState = "out"
  /\ todo = {}
  /\ lastId = 0
  /\ requests = {}
  /\ mark = 0
  /\ missed = {}
  /\ wanted = [t \in Topics |-> [fn \in Fns |-> {}]]

SubsNext ==
  \/ \E t \in Topics, fn \in Fns, type \in Types, rm \in BOOLEAN :
       Subscribe(t, fn, type, rm)
  \/ \E t \in Topics, fn \in Fns, rm \in BOOLEAN : SubscribeNoItem(t, fn, rm)
  \/ \E fn \in Fns, type \in Types : SubscribeP2P(fn, type)
  \/ \E t \in Topics, fn \in Fns : Unsubscribe(t, fn)
  \/ AfterLogin
  \/ \E t \in Topics : Resubscribe(t)
  \/ \E code \in {"bare", "out"} : LoginChanges(code)
  \/ \E r \in requests : OpMsg(r)

SubsSpec == SubsInit /\ [][SubsNext]_subsVars

-----------------------------------------------------------------------------
(* Properties                                                              *)

(* Every variable has its type.                                            *)
SubsTyped ==
  /\ maps \in [Topics -> Map]
  /\ loginState \in {"in", "bare", "out"}
  /\ todo \subseteq Topics
  /\ lastId \in 0..MaxMsgs
  /\ requests \subseteq [id : 1..MaxMsgs, topic : Topics]
  /\ mark \in 0..lastId
  /\ missed \subseteq Topics
  /\ wanted \in [Topics -> [Fns -> SUBSET Types]]

(* The subId that a later client_unsubscribe would cancel is the one the   *)
(* server gave to the latest request for the topic, although topics are    *)
(* asked for again at each login and answers come late, twice and out of   *)
(* order (_c_doSubscribeTopic, _c_pubsubOpMsgHandle).                      *)
Latest(t) == {r \in requests :
                r.topic = t /\ \A q \in requests : q.topic = t => q.id <= r.id}
SubIdIsLatest ==
  \A t \in Topics :
    maps[t].subId # 0 => \E r \in Latest(t) : maps[t].subId = Given(r)

(* The server is never asked for a topic whose map was made for local use, *)
(* whatever later calls of client_subscribe say, and however often the     *)
(* topics are subscribed again (ps_listener_map.rm, jm_client.c:43).       *)
LocalNeverAsked == \A r \in requests : maps[r.topic].rm

(* The server is asked for remote topics only; and while the client is     *)
(* logged in it has been asked, since the login, for every one of them,    *)
(* whether it was subscribed before the login or after; the exceptions are *)
(* a failed request and a call that found no memory (client_subscribe,     *)
(* _c_subTopicAfterjmLogin).                                               *)
AskedSinceLogin ==
  /\ LocalNeverAsked
  /\ loginState = "in" /\ todo = {} =>
       \A t \in Resub \ missed :
         \E r \in requests : r.topic = t /\ r.id > mark

(* An item reaches a listener at most once, and only one whose latest call *)
(* asked for its topic and type and that has not unsubscribed since, in    *)
(* spite of the other listeners that client_unsubscribe drops with the     *)
(* head (_c_addListenerItem, client_unsubscribe, _c_dispachPubsubItem).    *)
OnlyWantedServed ==
  \A t \in Topics, type \in Types : \A i \in Served(t, type) :
    LET fn == maps[t].listeners[i].fn
    IN /\ \A j \in Served(t, type) : maps[t].listeners[j].fn = fn => i = j
       /\ wanted[t][fn] \cap {0, type} # {}

=============================================================================
