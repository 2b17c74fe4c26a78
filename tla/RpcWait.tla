------------------------------ MODULE RpcWait ------------------------------
(***************************************************************************)
(* The RPC wait table of src/src/jm_client.c: client_invokeRpc claims an   *)
(* entry of the list wait_for_resps, encodes the request into the shared   *)
(* sendBuf and hands that buffer to the sender; _c_rpcMsgHandle finds the  *)
(* entry of an arriving response, runs its callback and gives the entry    *)
(* back.                                                                   *)
(*                                                                         *)
(* Every handler here runs to completion, as on the ESP8266, where the SDK *)
(* calls the client from one event loop: client_invokeRpc is one step.     *)
(* _c_rpcMsgHandle is two, because the callback it runs may itself call    *)
(* client_invokeRpc (a login listener subscribes, jm_ctrl.c asks the       *)
(* server for versions) while the entry is still the callback's own.       *)
(*                                                                         *)
(* The network is a sequence of requests that is never shortened: the      *)
(* response to a transmitted request may come never, once or many times,   *)
(* in any order.                                                           *)
(***************************************************************************)
EXTENDS Integers, Sequences, FiniteSets

CONSTANTS
  Calls,     \* the calls of client_invokeRpc made in a run, each made once
  NoCall,    \* the NULL callback
  MaxMsgs,   \* bound: messages that take an id from msg_create_msg
  SendCap,   \* bound: requests that fit in sendBuf (1024 bytes)
  IdMod      \* ids are kept in a 32-bit int by a wait entry: 2^32

ASSUME NoCallIsNoCall == NoCall \notin Calls
ASSUME MaxMsgsIsNat == MaxMsgs \in Nat
ASSUME SendCapPositive == SendCap \in Nat \ {0}
(* The counter msgId of jm_msg.c has 64 bits; below 2^32 messages no id is *)
(* cut by the 32 bits of the wait entry.                                   *)
ASSUME IdsFit == IdMod \in Nat /\ MaxMsgs < IdMod

VARIABLES
  pool,       \* the entries of wait_for_resps, oldest first (the list is
              \* newest first: an entry is found from the end of pool)
  lastId,     \* the counter msgId of jm_msg.c
  sendBuf,    \* the encoded requests that wait in sendBuf
  handling,   \* the entry whose callback _c_rpcMsgHandle is running, or 0
  nullCall,   \* _c_rpcMsgHandle has called a NULL callback
  wire,       \* every request handed to the network, oldest first
  (* What the callers and the network saw, kept for the properties.        *)
  returned,   \* what client_invokeRpc returned to each call
  reqId,      \* the id of the request made for each call
  heard,      \* the ids of the responses each call's callback was run with
  discarded   \* the ids of the responses no entry waited for

codeVars == <<pool, lastId, sendBuf, handling, nullCall>>
vars == <<pool, lastId, sendBuf, handling, nullCall, wire,
          returned, reqId, heard, discarded>>

Trunc(id) == id % IdMod

Request == [id : Nat, rpc : BOOLEAN, whole : BOOLEAN]
Entry == [inUsed : BOOLEAN, msgId : Nat, callback : Calls \cup {NoCall}]

IdleEntry == [inUsed |-> FALSE, msgId |-> 0, callback |-> NoCall]
FreshEntry == [inUsed |-> TRUE, msgId |-> 0, callback |-> NoCall]
BusyEntry(id, c) == [inUsed |-> TRUE, msgId |-> Trunc(id), callback |-> c]

NextId == lastId + 1

(* The element of a set of entries that the list, newest first, meets      *)
(* first.                                                                  *)
IsNewest(e, S) == e \in S /\ \A f \in S : f <= e

(* _c_createRpcWaitForResponse: the first entry not in use, else a new one *)
(* put at the head of the list.                                            *)
IdleTestDropped == DOMAIN pool          \* deviation: in_used is not tested
Idle == {e \in DOMAIN pool : ~pool[e].inUsed}

IsSlot(e) == IF Idle # {} THEN IsNewest(e, Idle) ELSE e = Len(pool) + 1
Created == IF Idle # {} THEN pool ELSE Append(pool, FreshEntry)
Slots == 1..(Len(pool) + 1)

(* The entry as client_invokeRpc leaves it before it sends: only a call    *)
(* with a callback is registered.                                          *)
Registered(e, c, withCallback) ==
  IF withCallback THEN [Created EXCEPT ![e] = BusyEntry(NextId, c)]
  ELSE Created

(* _c_rebackRpcWaitRorResponse.                                            *)
RebackFlagOnly(entries, e) ==           \* deviation: the id is not cleared
  [entries EXCEPT ![e].inUsed = FALSE]
Reback(entries, e) == [entries EXCEPT ![e] = IdleEntry]

(* msg_encode into sendBuf behind what is there.  Its last step, the       *)
(* payload, may not fit and is not checked: the request is then cut short. *)
(* A lone request always fits.                                             *)
Encoded(rpc, whole) ==
  Append(sendBuf, [id |-> NextId, rpc |-> rpc, whole |-> whole])
TransmitCopy(rpc, whole) ==             \* deviation: sendBuf is not consumed
  /\ wire' = wire \o Encoded(rpc, whole)
  /\ sendBuf' = Encoded(rpc, whole)
Transmit(rpc, whole) ==
  /\ wire' = wire \o Encoded(rpc, whole)
  /\ sendBuf' = <<>>
CanEncode(whole) ==
  /\ Len(sendBuf) < SendCap
  /\ whole \/ sendBuf # <<>>

-----------------------------------------------------------------------------
(* client_invokeRpc and client_sendMessage                                 *)

(* The parameters cannot be encoded or no message is free: no id is taken. *)
InvokeRefused(c) ==
  /\ returned[c] = "none"
  /\ returned' = [returned EXCEPT ![c] = "refused"]
  /\ UNCHANGED <<codeVars, wire, reqId, heard, discarded>>

(* Every entry is in use and os_zalloc has no memory for another.          *)
InvokeNoEntry(c) ==
  /\ returned[c] = "none"
  /\ lastId < MaxMsgs
  /\ Idle = {}
  /\ lastId' = NextId
  /\ reqId' = [reqId EXCEPT ![c] = NextId]
  /\ returned' = [returned EXCEPT ![c] = "refused"]
  /\ UNCHANGED <<pool, sendBuf, handling, nullCall, wire, heard, discarded>>

(* The request is encoded and the sender takes all of sendBuf.  A call     *)
(* without a callback keeps its entry: client_invokeRpc returns before the *)
(* entry is given back.                                                    *)
InvokeSent(c, withCallback, whole) ==
  /\ returned[c] = "none"
  /\ lastId < MaxMsgs
  /\ CanEncode(whole)
  /\ lastId' = NextId
  /\ \E e \in Slots :
       IsSlot(e) /\ pool' = Registered(e, c, withCallback)
  /\ Transmit(TRUE, whole)
  /\ reqId' = [reqId EXCEPT ![c] = NextId]
  /\ returned' = [returned EXCEPT
       ![c] = IF withCallback THEN "accepted" ELSE "forgotten"]
  /\ UNCHANGED <<handling, nullCall, heard, discarded>>

(* No sender, a failed encoding, or a sender that fails: what each leaves  *)
(* in sendBuf and on the wire.                                             *)
NoSender == UNCHANGED <<sendBuf, wire>>
EncodeFails == sendBuf' = <<>> /\ UNCHANGED wire
SenderKeeps(rpc) ==      \* it fails before it reads sendBuf: no memory
  \E whole \in BOOLEAN :
    /\ CanEncode(whole)
    /\ sendBuf' = Encoded(rpc, whole)
    /\ UNCHANGED wire
SenderDrops(rpc) ==      \* it has read sendBuf, the socket fails part way
  \E whole \in BOOLEAN, k \in 0..SendCap :
    /\ CanEncode(whole)
    /\ k <= Len(Encoded(rpc, whole))
    /\ sendBuf' = <<>>
    /\ wire' = wire \o SubSeq(Encoded(rpc, whole), 1, k)

SendFails(rpc) ==
  NoSender \/ EncodeFails \/ SenderKeeps(rpc) \/ SenderDrops(rpc)

InvokeNotSent(c, withCallback) ==
  /\ returned[c] = "none"
  /\ lastId < MaxMsgs
  /\ lastId' = NextId
  /\ SendFails(TRUE)
  /\ \E e \in Slots :
       IsSlot(e) /\ pool' = Reback(Registered(e, c, withCallback), e)
  /\ reqId' = [reqId EXCEPT ![c] = NextId]
  /\ returned' = [returned EXCEPT ![c] = "refused"]
  /\ UNCHANGED <<handling, nullCall, heard, discarded>>

(* A message that is not a request (a publication, a subscription) takes   *)
(* an id and goes through the same sendBuf.                                *)
SendOther ==
  /\ lastId < MaxMsgs
  /\ lastId' = NextId
  /\ \/ \E whole \in BOOLEAN : CanEncode(whole) /\ Transmit(FALSE, whole)
     \/ SendFails(FALSE)
  /\ UNCHANGED <<pool, handling, nullCall, returned, reqId, heard, discarded>>

-----------------------------------------------------------------------------
(* _c_rpcMsgHandle                                                         *)

(* The server answers the RPC requests that reached it whole.              *)
Answerable ==
  {wire[i].id : i \in {j \in DOMAIN wire : wire[j].rpc /\ wire[j].whole}}

(* _c_GetRpcWaitForResponse compares ids only: it does not ask for in_used *)
WaitersByFlag(id) ==                    \* deviation: any entry in use
  {e \in DOMAIN pool : pool[e].inUsed}
WaitersHeadOnly(id) ==                  \* deviation: the list is not walked
  {e \in DOMAIN pool : e = Len(pool) /\ pool[e].msgId = Trunc(id)}
Waiters(id) == {e \in DOMAIN pool : pool[e].msgId = Trunc(id)}

(* Running the callback of entry e with response id.                       *)
CallBack(e, id) ==
  LET c == pool[e].callback
  IN /\ handling' = e
     /\ nullCall' = (nullCall \/ c = NoCall)
     /\ heard' = IF c = NoCall THEN heard
                 ELSE [heard EXCEPT ![c] = Append(@, id)]

NotifyAfterReback(id) ==                \* deviation: entry given back first
  /\ handling = 0
  /\ \E e \in DOMAIN pool :
       /\ IsNewest(e, Waiters(id))
       /\ CallBack(e, id)
       /\ pool' = Reback(pool, e)
  /\ UNCHANGED <<lastId, sendBuf, wire, returned, reqId, discarded>>

NotifyCaller(id) ==
  /\ handling = 0
  /\ \E e \in DOMAIN pool : IsNewest(e, Waiters(id)) /\ CallBack(e, id)
  /\ UNCHANGED <<pool, lastId, sendBuf, wire, returned, reqId, discarded>>

(* MSG_WAIT_NOT_FOUND.                                                     *)
DiscardResponse(id) ==
  /\ handling = 0
  /\ Waiters(id) = {}
  /\ discarded' = discarded \cup {id}
  /\ UNCHANGED <<codeVars, wire, returned, reqId, heard>>

FinishCallback ==
  /\ handling # 0
  /\ handling' = 0
  /\ pool' = Reback(pool, handling)
  /\ UNCHANGED <<lastId, sendBuf, nullCall, wire,
                 returned, reqId, heard, discarded>>

-----------------------------------------------------------------------------
Init ==
  /\ pool = <<>>
  /\ lastId = 0
  /\ sendBuf = <<>>
  /\ handling = 0
  /\ nullCall = FALSE
  /\ wire = <<>>
  /\ returned = [c \in Calls |-> "none"]
  /\ reqId = [c \in Calls |-> 0]
  /\ heard = [c \in Calls |-> <<>>]
  /\ discarded = {}

Respond(id) == NotifyCaller(id) \/ DiscardResponse(id)

Next ==
  \/ \E c \in Calls : InvokeRefused(c)
  \/ \E c \in Calls : InvokeNoEntry(c)
  \/ \E c \in Calls, withCallback, whole \in BOOLEAN :
       InvokeSent(c, withCallback, whole)
  \/ \E c \in Calls, withCallback \in BOOLEAN :
       InvokeNotSent(c, withCallback)
  \/ SendOther
  \/ \E id \in Answerable : NotifyCaller(id)
  \/ \E id \in Answerable : DiscardResponse(id)
  \/ FinishCallback

Spec == Init /\ [][Next]_vars

(* The network of FairSpec brings the response to every request that it    *)
(* was given whole, and the callbacks return.                              *)
Fairness ==
  /\ \A id \in 1..MaxMsgs : SF_vars(id \in Answerable /\ Respond(id))
  /\ WF_vars(FinishCallback)

FairSpec == Spec /\ Fairness
-----------------------------------------------------------------------------
(* Properties                                                              *)

(* Every variable has its type.                                            *)
TypeOK ==
  /\ pool \in Seq(Entry)
  /\ lastId \in 0..MaxMsgs
  /\ sendBuf \in Seq(Request)
  /\ handling \in 0..Len(pool)
  /\ nullCall \in BOOLEAN
  /\ wire \in Seq(Request)
  /\ returned \in [Calls -> {"none", "accepted", "forgotten", "refused"}]
  /\ reqId \in [Calls -> 0..MaxMsgs]
  /\ heard \in [Calls -> Seq(1..MaxMsgs)]
  /\ discarded \subseteq 1..MaxMsgs

(* A callback runs at most once, with the response to its own request, and *)
(* never for a call that client_invokeRpc reported as failed, although     *)
(* responses come late, twice and out of order and entries are reused.     *)
(* _c_rpcMsgHandle calls wait->callback without testing it, and the lookup *)
(* does not test in_used: neither idle entries nor those of calls without  *)
(* a callback ever match a response.                                       *)
NeverCallsNull == ~nullCall
CallbackContract ==
  /\ NeverCallsNull
  /\ \A c \in Calls :
       heard[c] # <<>> => heard[c] = <<reqId[c]>> /\ returned[c] = "accepted"

(* A call that was accepted and not yet called back has one entry, which   *)
(* is the only one a response to it can find: no later call, nested call   *)
(* or failed call takes it away.                                           *)
Outstanding == {c \in Calls : returned[c] = "accepted" /\ heard[c] = <<>>}
NoCallerLost ==
  \A c \in Outstanding :
    \E e \in DOMAIN pool :
      /\ pool[e] = BusyEntry(reqId[c], c)
      /\ Waiters(reqId[c]) = {e}


(* No request is transmitted twice or behind a later one, although a       *)
(* failed sender may leave requests in sendBuf for the next message, and   *)
(* what client_invokeRpc reports as sent has been transmitted.             *)
TransmittedOnce ==
  /\ \A i, j \in DOMAIN wire : i < j => wire[i].id < wire[j].id
  /\ \A c \in Calls :
       returned[c] \in {"accepted", "forgotten"} =>
         \E i \in DOMAIN wire : wire[i].id = reqId[c] /\ wire[i].rpc

(* While a callback runs, nothing it does through client_invokeRpc         *)
(* touches the entry it was found by.                                      *)
RunningEntryKept ==
  [][handling # 0 /\ handling' = handling
       => pool'[handling] = pool[handling]]_vars

(* On a network that brings every response, an accepted call whose request *)
(* was not cut short is called back, and its entry is free again.          *)
EventuallyCalledBack ==
  \A c \in Calls :
    (returned[c] = "accepted" /\ reqId[c] \in Answerable)
      ~> /\ heard[c] # <<>>
         /\ \A e \in DOMAIN pool : pool[e].callback # c

(* The wait table keeps the promise of RpcService: what is owed is read    *)
(* off the entries.                                                        *)
Owes(e) == pool[e].callback # NoCall
Pair(e) == <<pool[e].callback, pool[e].msgId>>
Pending == {Pair(e) : e \in {f \in DOMAIN pool : Owes(f) /\ f # handling}}
Running == {Pair(e) : e \in {f \in DOMAIN pool : f = handling}}
Answered == UNION {{<<c, heard[c][i]>> : i \in DOMAIN heard[c]} : c \in Calls}
Service == INSTANCE RpcService WITH
  Ids <- 0..MaxMsgs, pending <- Pending, running <- Running, answered <- Answered
KeepsPromise == Service!Spec
=============================================================================
