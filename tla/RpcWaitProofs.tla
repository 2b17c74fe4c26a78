--------------------------- MODULE RpcWaitProofs ---------------------------
(* Invariants of RpcWait, for every set of calls, every number of messages *)
(* that does not exhaust the 32-bit ids and every size of sendBuf.         *)
EXTENDS RpcWait, TLAPS

Entries == 1..Len(pool)

(* Requests whose ids have been handed out: all that is on the wire or in  *)
(* sendBuf.                                                                *)
Issued(s, n) ==
  /\ s \in Seq(Request)
  /\ \A i \in 1..Len(s) : s[i].id \in 1..n
SentIds == Issued(wire, lastId) /\ Issued(sendBuf, lastId)

(* A call that has not been made has left no trace; two calls never share  *)
(* an id; an accepted call has one.                                        *)
CallIds ==
  /\ \A c \in Calls : reqId[c] \in 0..lastId
  /\ \A c \in Calls : returned[c] = "none" => reqId[c] = 0
  /\ \A c \in Calls : returned[c] = "accepted" => reqId[c] # 0
  /\ \A c, d \in Calls : reqId[c] = reqId[d] /\ reqId[c] # 0 => c = d

(* A callback that was run was run once, for an accepted call.             *)
HeardOnce ==
  \A c \in Calls :
    heard[c] # <<>> => heard[c] = <<reqId[c]>> /\ returned[c] = "accepted"

(* An entry without a callback has no id, so no response matches it; an    *)
(* entry with one is that call's, and unless it is being handled the call  *)
(* has heard nothing.                                                      *)
EntryOf(e, c) ==
  /\ pool[e] = [inUsed |-> TRUE, msgId |-> reqId[c], callback |-> c]
  /\ returned[c] = "accepted"
  /\ e # handling => heard[c] = <<>>
EntriesKept ==
  /\ \A e \in Entries : pool[e].callback = NoCall => pool[e].msgId = 0
  /\ \A e \in Entries : \A c \in Calls :
       pool[e].callback = c => EntryOf(e, c)
  /\ \A e, f \in Entries :
       pool[e].callback = pool[f].callback /\ pool[e].callback # NoCall
         => e = f

(* The entry whose callback is running is still that call's.               *)
HandlingKept ==
  handling # 0 => /\ pool[handling].callback \in Calls
                  /\ heard[pool[handling].callback] # <<>>

(* Every accepted call that has heard nothing has an entry.                *)
EachOwed ==
  \A c \in Outstanding : \E e \in Entries : pool[e].callback = c

(* The inductive invariant.                                                *)
IInv ==
  /\ TypeOK
  /\ SentIds
  /\ CallIds
  /\ HeardOnce
  /\ EntriesKept
  /\ HandlingKept
  /\ EachOwed
  /\ NeverCallsNull

-----------------------------------------------------------------------------
(* Sequences of issued requests                                            *)

(* An empty sendBuf holds issued requests only.                            *)
LEMMA IssuedEmpty == ASSUME NEW n \in Nat PROVE Issued(<<>>, n)
  BY DEF Issued

(* What has been issued stays issued when more ids are handed out.         *)
LEMMA IssuedLater ==
  ASSUME NEW s, NEW n \in Nat, NEW m \in Nat, n <= m, Issued(s, n)
  PROVE  Issued(s, m)
  BY DEF Issued

(* msg_encode adds a request with the next id.                             *)
LEMMA IssuedAppend ==
  ASSUME NEW s, NEW n \in Nat, Issued(s, n),
         NEW r \in Request, r.id = n + 1
  PROVE  Issued(Append(s, r), n + 1)
<1>1. Append(s, r) \in Seq(Request) /\ Len(Append(s, r)) = Len(s) + 1
  BY DEF Issued
<1>2. ASSUME NEW i \in 1..(Len(s) + 1) PROVE Append(s, r)[i].id \in 1..(n + 1)
  <2>1. CASE i \in 1..Len(s)
    BY <2>1 DEF Issued
  <2>2. CASE i = Len(s) + 1
    BY <2>2 DEF Issued
  <2> QED
    BY <2>1, <2>2 DEF Issued
<1> QED
  BY <1>1, <1>2 DEF Issued

(* The sender puts what is in sendBuf behind what is on the wire.          *)
LEMMA IssuedConcat ==
  ASSUME NEW s, NEW t, NEW n \in Nat, Issued(s, n), Issued(t, n)
  PROVE  Issued(s \o t, n)
<1>1. s \o t \in Seq(Request) /\ Len(s \o t) = Len(s) + Len(t)
  BY DEF Issued
<1>2. ASSUME NEW i \in 1..(Len(s) + Len(t)) PROVE (s \o t)[i].id \in 1..n
  <2>1. CASE i <= Len(s)
    BY <2>1 DEF Issued
  <2>2. CASE i > Len(s)
    <3>1. (s \o t)[i] = t[i - Len(s)] /\ i - Len(s) \in 1..Len(t)
      BY <2>2 DEF Issued
    <3> QED
      BY <3>1 DEF Issued
  <2> QED
    BY <2>1, <2>2 DEF Issued
<1> QED
  BY <1>1, <1>2 DEF Issued

(* A sender that fails part way has sent a prefix of sendBuf.              *)
LEMMA IssuedPrefix ==
  ASSUME NEW s, NEW n \in Nat, Issued(s, n), NEW k \in 0..Len(s)
  PROVE  Issued(SubSeq(s, 1, k), n)
<1>1. /\ SubSeq(s, 1, k) \in Seq(Request)
      /\ Len(SubSeq(s, 1, k)) = k
      /\ \A i \in 1..k : SubSeq(s, 1, k)[i] = s[i]
  BY DEF Issued
<1> QED
  BY <1>1 DEF Issued

(* Whatever becomes of a message that takes the next id, sent or not, only *)
(* issued requests are on the wire and in sendBuf.                         *)
LEMMA SentIdsKept ==
  ASSUME TypeOK, SentIds, lastId' = NextId, NEW rpc \in BOOLEAN,
         \/ \E whole \in BOOLEAN : Transmit(rpc, whole)
         \/ SendFails(rpc)
  PROVE  SentIds'
<1>1. lastId \in Nat /\ lastId' = lastId + 1 /\ lastId' \in Nat
  BY MaxMsgsIsNat DEF TypeOK, NextId
<1>2. Issued(wire, lastId') /\ Issued(sendBuf, lastId') /\ Issued(<<>>, lastId')
  BY <1>1, IssuedLater, IssuedEmpty DEF SentIds
<1>3. ASSUME NEW whole \in BOOLEAN PROVE Issued(Encoded(rpc, whole), lastId')
  <2>1. [id |-> NextId, rpc |-> rpc, whole |-> whole] \in Request
    BY <1>1 DEF Request, NextId
  <2> QED
    BY <1>1, <2>1, IssuedAppend DEF Encoded, SentIds, NextId
<1>4. ASSUME NEW whole \in BOOLEAN, Transmit(rpc, whole) PROVE SentIds'
  BY <1>1, <1>2, <1>3, <1>4, IssuedConcat DEF Transmit, SentIds
<1>5. CASE NoSender
  BY <1>2, <1>5 DEF NoSender, SentIds
<1>6. CASE EncodeFails
  BY <1>2, <1>6 DEF EncodeFails, SentIds
<1>7. CASE SenderKeeps(rpc)
  BY <1>2, <1>3, <1>7 DEF SenderKeeps, SentIds
<1>8. CASE SenderDrops(rpc)
  <2>1. PICK whole \in BOOLEAN, k \in 0..SendCap :
          /\ k <= Len(Encoded(rpc, whole))
          /\ sendBuf' = <<>>
          /\ wire' = wire \o SubSeq(Encoded(rpc, whole), 1, k)
    BY <1>8 DEF SenderDrops
  <2>2. Issued(Encoded(rpc, whole), lastId')
    BY <1>3
  <2>3. k \in 0..Len(Encoded(rpc, whole))
    BY <2>1, <2>2, SendCapPositive DEF Issued
  <2>4. Issued(SubSeq(Encoded(rpc, whole), 1, k), lastId')
    BY <1>1, <2>2, <2>3, IssuedPrefix
  <2> QED
    BY <1>1, <1>2, <2>1, <2>4, IssuedConcat DEF SentIds
<1> QED
  BY <1>4, <1>5, <1>6, <1>7, <1>8 DEF SendFails

-----------------------------------------------------------------------------
(* Entries                                                                 *)

(* Below 2^32 messages an id is kept whole by a wait entry.                *)
LEMMA TruncKeeps ==
  ASSUME NEW id \in 0..MaxMsgs
  PROVE  Trunc(id) = id
  BY MaxMsgsIsNat, IdsFit DEF Trunc

(* The values that an entry of wait_for_resps takes.                       *)
LEMMA EntryTypes ==
  /\ IdleEntry \in Entry /\ FreshEntry \in Entry
  /\ \A id \in 0..MaxMsgs, c \in Calls : BusyEntry(id, c) \in Entry
<1>1. IdleEntry \in Entry /\ FreshEntry \in Entry
  BY DEF IdleEntry, FreshEntry, Entry
<1>2. ASSUME NEW id \in 0..MaxMsgs, NEW c \in Calls
      PROVE  BusyEntry(id, c) \in Entry
  BY TruncKeeps, MaxMsgsIsNat DEF BusyEntry, Entry
<1> QED
  BY <1>1, <1>2

(* _c_createRpcWaitForResponse changes no entry that was there: it finds   *)
(* one that is not in use or puts a new one at the head of the list.       *)
LEMMA CreatedKeeps ==
  ASSUME pool \in Seq(Entry), NEW e \in Slots, IsSlot(e)
  PROVE  /\ Created \in Seq(Entry)
         /\ Len(pool) <= Len(Created)
         /\ 1..Len(Created) = Entries \cup {e}
         /\ \A f \in Entries : Created[f] = pool[f]
         /\ e \in Entries => ~pool[e].inUsed
         /\ e \notin Entries => Created[e] = FreshEntry
<1>1. CASE Idle # {}
  <2>1. e \in Idle
    BY <1>1 DEF IsSlot, IsNewest
  <2>2. e \in Entries /\ ~pool[e].inUsed /\ Created = pool
    BY <1>1, <2>1 DEF Idle, Created, Entries
  <2> QED
    BY <2>2 DEF Entries
<1>2. CASE Idle = {}
  <2>1. e = Len(pool) + 1 /\ Created = Append(pool, FreshEntry)
    BY <1>2 DEF IsSlot, Created
  <2> QED
    BY <2>1, EntryTypes DEF Entries
<1> QED
  BY <1>1, <1>2

(* Once there is an invariant to read it off, an entry that is not in use  *)
(* has no callback, and so is not the one being handled.                   *)
LEMMA IdleHasNoCaller ==
  ASSUME IInv, NEW e \in Entries, ~pool[e].inUsed
  PROVE  pool[e].callback = NoCall /\ pool[e].msgId = 0 /\ e # handling
<1>1. pool[e] \in Entry
  BY DEF IInv, TypeOK, Entries
<1>2. ASSUME NEW c \in Calls, pool[e].callback = c PROVE FALSE
  <2>1. EntryOf(e, c)
    BY <1>2 DEF IInv, EntriesKept
  <2> QED
    BY <2>1 DEF EntryOf
<1>3. pool[e].callback = NoCall
  BY <1>1, <1>2 DEF Entry
<1>4. e # handling
  BY <1>2 DEF IInv, HandlingKept, Entries
<1> QED
  BY <1>3, <1>4 DEF IInv, EntriesKept

(* What any outcome of client_invokeRpc that reaches the wait table leaves *)
(* behind: entry e is the caller's when the call was accepted and matches  *)
(* no response when it was not, and every other entry is what it was.      *)
LEMMA InvokeKeepsIInv ==
  ASSUME IInv, SentIds',
         NEW c \in Calls, returned[c] = "none", lastId < MaxMsgs,
         NEW r \in {"accepted", "forgotten", "refused"}, NEW e \in Slots,
         lastId' = NextId,
         reqId' = [reqId EXCEPT ![c] = NextId],
         returned' = [returned EXCEPT ![c] = r],
         UNCHANGED <<handling, nullCall, heard, discarded>>,
         pool' \in Seq(Entry), Len(pool) <= Len(pool'),
         Entries' = Entries \cup {e},
         \A f \in Entries \ {e} : pool'[f] = pool[f],
         e \in Entries => ~pool[e].inUsed,
         IF r = "accepted" THEN pool'[e] = BusyEntry(NextId, c)
         ELSE pool'[e].callback = NoCall /\ pool'[e].msgId = 0
  PROVE  IInv'
<1>0. TypeOK /\ CallIds /\ HeardOnce /\ EntriesKept /\ HandlingKept
      /\ EachOwed /\ NeverCallsNull
  BY DEF IInv
<1>1. /\ lastId \in 0..MaxMsgs /\ lastId + 1 \in 1..MaxMsgs
      /\ lastId' = lastId + 1
      /\ reqId \in [Calls -> 0..MaxMsgs]
      /\ returned \in [Calls -> {"none", "accepted", "forgotten", "refused"}]
      /\ heard \in [Calls -> Seq(1..MaxMsgs)]
      /\ handling \in 0..Len(pool)
  BY <1>0, MaxMsgsIsNat DEF TypeOK, NextId
<1>2. /\ \A d \in Calls : reqId'[d] = IF d = c THEN lastId + 1 ELSE reqId[d]
      /\ \A d \in Calls : returned'[d] = IF d = c THEN r ELSE returned[d]
      /\ heard' = heard /\ handling' = handling
  BY <1>1 DEF NextId
<1>3. reqId[c] = 0 /\ heard[c] = <<>>
  BY <1>0 DEF CallIds, HeardOnce
<1>4. e \in Entries => pool[e].callback = NoCall /\ e # handling
  BY IdleHasNoCaller
<1>5. pool \in Seq(Entry) /\ Len(pool) \in Nat
  BY <1>0 DEF TypeOK
<1>6. e # handling
  <2>1. CASE e \in Entries
    BY <1>4, <2>1
  <2>2. CASE e \notin Entries
    BY <1>1, <1>5, <2>2 DEF Slots, Entries
  <2> QED
    BY <2>1, <2>2
<1>7. BusyEntry(NextId, c)
        = [inUsed |-> TRUE, msgId |-> reqId'[c], callback |-> c]
  <2>1. Trunc(lastId + 1) = lastId + 1
    BY <1>1, MaxMsgsIsNat, TruncKeeps
  <2> QED
    BY <1>2, <2>1 DEF BusyEntry, NextId
<1>8. \A f \in Entries : pool[f].callback # c
  BY <1>0 DEF EntriesKept, EntryOf
<1>9. TypeOK'
  <2>1. reqId' \in [Calls -> 0..MaxMsgs]
    BY <1>1 DEF NextId
  <2>2. returned' \in [Calls -> {"none", "accepted", "forgotten", "refused"}]
    BY <1>1
  <2>3. handling' \in 0..Len(pool')
    BY <1>1, <1>5
  <2>4. wire' \in Seq(Request) /\ sendBuf' \in Seq(Request)
    BY DEF SentIds, Issued
  <2> QED
    BY <1>0, <1>1, <2>1, <2>2, <2>3, <2>4 DEF TypeOK
<1>10. CallIds'
  <2>1. \A d \in Calls : reqId'[d] \in 0..lastId'
    BY <1>0, <1>1, <1>2 DEF CallIds
  <2>2. \A d \in Calls : returned'[d] = "none" => reqId'[d] = 0
    BY <1>0, <1>2 DEF CallIds
  <2>3. \A d \in Calls : returned'[d] = "accepted" => reqId'[d] # 0
    BY <1>0, <1>1, <1>2 DEF CallIds
  <2>4. \A d, b \in Calls : reqId'[d] = reqId'[b] /\ reqId'[d] # 0 => d = b
    BY <1>0, <1>1, <1>2 DEF CallIds
  <2> QED
    BY <2>1, <2>2, <2>3, <2>4 DEF CallIds
<1>11. HeardOnce'
  BY <1>0, <1>2, <1>3 DEF HeardOnce
<1>12. EntriesKept'
  <2>1. ASSUME NEW f \in Entries', pool'[f].callback = NoCall
        PROVE  pool'[f].msgId = 0
    <3>1. CASE f = e
      BY <1>7, <2>1, <3>1, NoCallIsNoCall
    <3>2. CASE f # e
      BY <1>0, <2>1, <3>2 DEF EntriesKept
    <3> QED
      BY <3>1, <3>2
  <2>2. ASSUME NEW f \in Entries', NEW d \in Calls, pool'[f].callback = d
        PROVE  EntryOf(f, d)'
    <3>1. CASE f = e
      <4>1. r = "accepted" /\ d = c
        BY <1>7, <2>2, <3>1, NoCallIsNoCall
      <4> QED
        BY <1>2, <1>3, <1>7, <3>1, <4>1 DEF EntryOf
    <3>2. CASE f # e
      <4>1. f \in Entries /\ pool'[f] = pool[f] /\ d # c
        BY <1>8, <2>2, <3>2
      <4>2. EntryOf(f, d)
        BY <1>0, <2>2, <4>1 DEF EntriesKept
      <4> QED
        BY <1>2, <4>1, <4>2 DEF EntryOf
    <3> QED
      BY <3>1, <3>2
  <2>3. ASSUME NEW f \in Entries', NEW g \in Entries',
               pool'[f].callback = pool'[g].callback,
               pool'[f].callback # NoCall
        PROVE  f = g
    <3>1. CASE f # e /\ g # e
      BY <1>0, <2>3, <3>1 DEF EntriesKept
    <3>2. CASE f = e /\ g # e
      BY <1>7, <1>8, <2>3, <3>2
    <3>3. CASE f # e /\ g = e
      BY <1>7, <1>8, <2>3, <3>3
    <3> QED
      BY <3>1, <3>2, <3>3
  <2> QED
    BY <2>1, <2>2, <2>3 DEF EntriesKept
<1>13. HandlingKept'
  <2> SUFFICES ASSUME handling # 0
               PROVE  /\ pool'[handling].callback \in Calls
                      /\ heard[pool'[handling].callback] # <<>>
    BY <1>2 DEF HandlingKept
  <2>1. handling \in Entries \ {e}
    BY <1>1, <1>5, <1>6 DEF Entries
  <2> QED
    BY <1>0, <2>1 DEF HandlingKept
<1>14. EachOwed'
  <2> SUFFICES ASSUME NEW d \in Calls, returned'[d] = "accepted",
                      heard[d] = <<>>
               PROVE  \E f \in Entries' : pool'[f].callback = d
    BY <1>2 DEF EachOwed, Outstanding
  <2>1. CASE d = c
    <3>1. r = "accepted"
      BY <1>2, <2>1
    <3>2. pool'[e].callback = c
      BY <1>7, <3>1
    <3> QED
      BY <2>1, <3>2
  <2>2. CASE d # c
    <3>1. PICK f \in Entries : pool[f].callback = d
      BY <1>0, <1>2, <2>2 DEF EachOwed, Outstanding
    <3>2. f # e
      BY <1>4, <3>1, NoCallIsNoCall
    <3> QED
      BY <3>1, <3>2
  <2> QED
    BY <2>1, <2>2
<1> QED
  BY <1>0, <1>9, <1>10, <1>11, <1>12, <1>13, <1>14 DEF IInv, NeverCallsNull

-----------------------------------------------------------------------------
(* The steps of client_invokeRpc                                           *)

(* client_invokeRpc, the request sent, keeps the invariant.                *)
LEMMA InvokeSentKeeps ==
  ASSUME IInv, NEW c \in Calls, NEW withCallback \in BOOLEAN,
         NEW whole \in BOOLEAN, InvokeSent(c, withCallback, whole)
  PROVE  IInv'
<1> DEFINE r == IF withCallback THEN "accepted" ELSE "forgotten"
<1>1. PICK e \in Slots : IsSlot(e) /\ pool' = Registered(e, c, withCallback)
  BY DEF InvokeSent
<1>2. /\ returned[c] = "none" /\ lastId < MaxMsgs /\ lastId' = NextId
      /\ reqId' = [reqId EXCEPT ![c] = NextId]
      /\ returned' = [returned EXCEPT ![c] = r]
      /\ UNCHANGED <<handling, nullCall, heard, discarded>>
      /\ Transmit(TRUE, whole)
  BY DEF InvokeSent
<1>3. SentIds'
  BY <1>2, SentIdsKept DEF IInv
<1>4. pool \in Seq(Entry) /\ lastId \in 0..MaxMsgs
  BY DEF IInv, TypeOK
<1>5. /\ Created \in Seq(Entry)
      /\ Len(pool) <= Len(Created)
      /\ 1..Len(Created) = Entries \cup {e}
      /\ \A f \in Entries : Created[f] = pool[f]
      /\ e \in Entries => ~pool[e].inUsed
      /\ e \notin Entries => Created[e] = FreshEntry
  BY <1>1, <1>4, CreatedKeeps
<1>6. BusyEntry(NextId, c) \in Entry
  BY <1>2, <1>4, MaxMsgsIsNat, EntryTypes DEF NextId
<1>7. /\ pool' \in Seq(Entry)
      /\ Len(pool') = Len(Created)
      /\ \A f \in Entries \ {e} : pool'[f] = pool[f]
  BY <1>1, <1>5, <1>6 DEF Registered
<1>8. Entries' = Entries \cup {e}
  BY <1>5, <1>7 DEF Entries
<1>9. IF r = "accepted" THEN pool'[e] = BusyEntry(NextId, c)
      ELSE pool'[e].callback = NoCall /\ pool'[e].msgId = 0
  <2>1. CASE withCallback
    BY <1>1, <1>5, <2>1 DEF Registered
  <2>2. CASE ~withCallback
    <3>1. pool'[e] = Created[e] /\ r = "forgotten"
      BY <1>1, <2>2 DEF Registered
    <3>2. CASE e \in Entries
      BY <1>5, <3>1, <3>2, IdleHasNoCaller
    <3>3. CASE e \notin Entries
      BY <1>5, <3>1, <3>3 DEF FreshEntry
    <3> QED
      BY <3>2, <3>3
  <2> QED
    BY <2>1, <2>2
<1>10. r \in {"accepted", "forgotten", "refused"}
  OBVIOUS
<1> HIDE DEF r
<1> QED
  BY <1>2, <1>3, <1>5, <1>7, <1>8, <1>9, <1>10, InvokeKeepsIInv

(* client_invokeRpc, the entry given back, keeps the invariant.            *)
LEMMA InvokeNotSentKeeps ==
  ASSUME IInv, NEW c \in Calls, NEW withCallback \in BOOLEAN,
         InvokeNotSent(c, withCallback)
  PROVE  IInv'
<1>1. PICK e \in Slots :
        IsSlot(e) /\ pool' = Reback(Registered(e, c, withCallback), e)
  BY DEF InvokeNotSent
<1>2. /\ returned[c] = "none" /\ lastId < MaxMsgs /\ lastId' = NextId
      /\ reqId' = [reqId EXCEPT ![c] = NextId]
      /\ returned' = [returned EXCEPT ![c] = "refused"]
      /\ UNCHANGED <<handling, nullCall, heard, discarded>>
      /\ SendFails(TRUE)
  BY DEF InvokeNotSent
<1>3. SentIds'
  BY <1>2, SentIdsKept DEF IInv
<1>4. pool \in Seq(Entry) /\ lastId \in 0..MaxMsgs
  BY DEF IInv, TypeOK
<1>5. /\ Created \in Seq(Entry)
      /\ Len(pool) <= Len(Created)
      /\ 1..Len(Created) = Entries \cup {e}
      /\ \A f \in Entries : Created[f] = pool[f]
      /\ e \in Entries => ~pool[e].inUsed
  BY <1>1, <1>4, CreatedKeeps
<1>6. BusyEntry(NextId, c) \in Entry
  BY <1>2, <1>4, MaxMsgsIsNat, EntryTypes DEF NextId
<1>7. /\ Registered(e, c, withCallback) \in Seq(Entry)
      /\ Len(Registered(e, c, withCallback)) = Len(Created)
      /\ \A f \in Entries \ {e} :
           Registered(e, c, withCallback)[f] = pool[f]
  BY <1>5, <1>6 DEF Registered
<1>8. /\ pool' \in Seq(Entry)
      /\ Len(pool') = Len(Created)
      /\ \A f \in Entries \ {e} : pool'[f] = pool[f]
      /\ pool'[e] = IdleEntry
  BY <1>1, <1>5, <1>7, EntryTypes DEF Reback
<1>9. Entries' = Entries \cup {e}
  BY <1>5, <1>8 DEF Entries
<1>10. pool'[e].callback = NoCall /\ pool'[e].msgId = 0
  BY <1>8 DEF IdleEntry
<1> QED
  BY <1>2, <1>3, <1>5, <1>8, <1>9, <1>10, InvokeKeepsIInv

(* A call refused before or because there is no entry, and a message that  *)
(* is no request, leave the wait table alone.                              *)
LEMMA TableUntouched ==
  ASSUME IInv, SentIds',
         UNCHANGED <<pool, handling, nullCall, heard>>,
         lastId' \in {lastId, lastId + 1}, lastId' \in 0..MaxMsgs,
         discarded' \subseteq 1..MaxMsgs,
         \/ UNCHANGED <<reqId, returned>>
         \/ \E c \in Calls :
              /\ returned[c] = "none"
              /\ returned' = [returned EXCEPT ![c] = "refused"]
              /\ \/ reqId' = reqId
                 \/ lastId' = lastId + 1 /\ reqId' = [reqId EXCEPT ![c] = lastId']
  PROVE  IInv'
<1>0. TypeOK /\ CallIds /\ HeardOnce /\ EntriesKept /\ HandlingKept
      /\ EachOwed /\ NeverCallsNull
  BY DEF IInv
<1>1. /\ lastId \in 0..MaxMsgs /\ lastId \in Nat /\ lastId' \in Nat
      /\ reqId \in [Calls -> 0..MaxMsgs]
      /\ returned \in [Calls -> {"none", "accepted", "forgotten", "refused"}]
  BY <1>0, MaxMsgsIsNat DEF TypeOK
<1>2. /\ reqId' \in [Calls -> 0..MaxMsgs]
      /\ returned' \in [Calls -> {"none", "accepted", "forgotten", "refused"}]
  BY <1>1
<1>3. \A c \in Calls :
        \/ returned'[c] = returned[c] /\ reqId'[c] = reqId[c]
        \/ /\ returned[c] = "none" /\ returned'[c] = "refused"
           /\ reqId'[c] = reqId[c] \/ reqId'[c] = lastId + 1
  BY <1>1
<1>4. \A c, d \in Calls :
        c # d => reqId'[c] = reqId[c] \/ reqId'[d] = reqId[d]
  <2>1. CASE UNCHANGED reqId
    BY <2>1
  <2>2. CASE \E b \in Calls : reqId' = [reqId EXCEPT ![b] = lastId']
    BY <1>1, <2>2
  <2> QED
    BY <2>1, <2>2
<1>5. TypeOK'
  BY <1>0, <1>2 DEF TypeOK, SentIds, Issued
<1>6. CallIds'
  <2>1. \A c \in Calls : reqId'[c] \in 0..lastId'
    BY <1>0, <1>1, <1>3 DEF CallIds
  <2>2. \A c \in Calls : /\ returned'[c] = "none" => reqId'[c] = 0
                         /\ returned'[c] = "accepted" => reqId'[c] # 0
    BY <1>0, <1>3 DEF CallIds
  <2>3. \A c, d \in Calls :
          reqId'[c] = reqId'[d] /\ reqId'[c] # 0 => c = d
    BY <1>0, <1>1, <1>3, <1>4 DEF CallIds
  <2> QED
    BY <2>1, <2>2, <2>3 DEF CallIds
<1>7. \A c \in Calls : returned[c] = "accepted" =>
        returned'[c] = "accepted" /\ reqId'[c] = reqId[c]
  BY <1>3
<1>8. HeardOnce'
  BY <1>0, <1>7 DEF HeardOnce
<1>9. EntriesKept'
  <2>1. ASSUME NEW e \in Entries, NEW c \in Calls, pool[e].callback = c
        PROVE  EntryOf(e, c)'
    <3>1. EntryOf(e, c)
      BY <1>0, <2>1 DEF EntriesKept
    <3> QED
      BY <1>7, <3>1 DEF EntryOf
  <2> QED
    BY <1>0, <2>1 DEF EntriesKept, Entries
<1>10. HandlingKept' /\ EachOwed'
  BY <1>0, <1>3 DEF HandlingKept, EachOwed, Outstanding, Entries
<1> QED
  BY <1>0, <1>5, <1>6, <1>8, <1>9, <1>10 DEF IInv, NeverCallsNull

-----------------------------------------------------------------------------
(* The steps of _c_rpcMsgHandle                                            *)

(* Only ids that were handed out are answered.                             *)
LEMMA AnswersAreIssued ==
  ASSUME IInv, NEW id \in Answerable
  PROVE  id \in 1..MaxMsgs /\ Trunc(id) = id
<1>1. PICK i \in 1..Len(wire) : id = wire[i].id
  BY DEF Answerable, IInv, TypeOK
<1>2. id \in 1..lastId /\ lastId \in 0..MaxMsgs
  BY <1>1 DEF IInv, SentIds, Issued, TypeOK
<1>3. id \in 1..MaxMsgs
  BY <1>2, MaxMsgsIsNat
<1> QED
  BY <1>3, MaxMsgsIsNat, TruncKeeps

(* The entry that a response finds is an accepted call's, with its id.     *)
LEMMA WaiterIsCaller ==
  ASSUME IInv, NEW id \in Answerable, NEW e \in Waiters(id)
  PROVE  /\ e \in Entries
         /\ pool[e].callback \in Calls
         /\ EntryOf(e, pool[e].callback)
         /\ reqId[pool[e].callback] = id
<1>1. e \in Entries /\ pool[e].msgId = id /\ id # 0
  BY AnswersAreIssued, MaxMsgsIsNat DEF Waiters, Entries, IInv, TypeOK
<1>2. pool[e] \in Entry
  BY <1>1 DEF IInv, TypeOK, Entries
<1>3. pool[e].callback \in Calls
  BY <1>1, <1>2 DEF Entry, IInv, EntriesKept
<1>4. EntryOf(e, pool[e].callback)
  BY <1>1, <1>3 DEF IInv, EntriesKept
<1> QED
  BY <1>1, <1>3, <1>4 DEF EntryOf

(* _c_rpcMsgHandle up to the callback keeps the invariant.                 *)
LEMMA NotifyCallerKeeps ==
  ASSUME IInv, NEW id \in Answerable, NotifyCaller(id)
  PROVE  IInv'
<1>0. TypeOK /\ SentIds /\ CallIds /\ HeardOnce /\ EntriesKept
      /\ EachOwed /\ NeverCallsNull
  BY DEF IInv
<1>1. PICK e \in DOMAIN pool : IsNewest(e, Waiters(id)) /\ CallBack(e, id)
  BY DEF NotifyCaller
<1>2. e \in Waiters(id)
  BY <1>1 DEF IsNewest
<1> DEFINE c == pool[e].callback
<1>3. /\ e \in Entries /\ c \in Calls /\ EntryOf(e, c) /\ reqId[c] = id
      /\ id \in 1..MaxMsgs
  BY <1>2, WaiterIsCaller, AnswersAreIssued
<1>4. c # NoCall
  BY <1>3, NoCallIsNoCall
<1>5. /\ handling = 0 /\ handling' = e
      /\ nullCall' = nullCall
      /\ heard' = [heard EXCEPT ![c] = Append(@, id)]
      /\ UNCHANGED <<pool, lastId, sendBuf, wire, returned, reqId, discarded>>
  <2>1. nullCall' = (nullCall \/ c = NoCall) /\ nullCall = FALSE
    BY <1>0, <1>1 DEF CallBack, NeverCallsNull, TypeOK
  <2> QED
    BY <1>1, <1>4, <2>1 DEF NotifyCaller, CallBack
<1>6. e # 0 /\ heard[c] = <<>> /\ returned[c] = "accepted"
  <2>1. e # 0
    BY <1>0, <1>3 DEF Entries, TypeOK
  <2> QED
    BY <1>3, <1>5, <2>1 DEF EntryOf
<1> HIDE DEF c
<1>7. /\ heard \in [Calls -> Seq(1..MaxMsgs)]
      /\ heard'[c] = <<id>> /\ heard'[c] # <<>>
      /\ \A d \in Calls \ {c} : heard'[d] = heard[d]
  BY <1>0, <1>3, <1>5, <1>6 DEF TypeOK
<1>8. heard' \in [Calls -> Seq(1..MaxMsgs)]
  BY <1>3, <1>5, <1>7
<1>9. TypeOK'
  BY <1>0, <1>3, <1>5, <1>8 DEF TypeOK, Entries
<1>10. SentIds' /\ CallIds' /\ NeverCallsNull'
  BY <1>0, <1>5 DEF SentIds, Issued, CallIds, NeverCallsNull
<1>11. HeardOnce'
  BY <1>0, <1>3, <1>5, <1>6, <1>7 DEF HeardOnce
<1>12. \A f \in Entries : pool[f].callback = c => f = e
  BY <1>0, <1>3, <1>4 DEF EntriesKept, c
<1>13. EntriesKept'
  <2>1. ASSUME NEW f \in Entries, NEW d \in Calls, pool[f].callback = d
        PROVE  EntryOf(f, d)'
    <3>1. EntryOf(f, d)
      BY <1>0, <2>1 DEF EntriesKept
    <3>2. f # e => heard'[d] = <<>>
      <4>1. CASE f = e
        BY <4>1
      <4>2. CASE f # e
        <5>1. d # c /\ f # 0
          BY <1>0, <1>12, <2>1, <4>2 DEF Entries, TypeOK
        <5> QED
          BY <1>5, <1>7, <3>1, <5>1 DEF EntryOf
      <4> QED
        BY <4>1, <4>2
    <3> QED
      BY <1>5, <3>1, <3>2 DEF EntryOf
  <2> QED
    BY <1>0, <1>5, <2>1 DEF EntriesKept, Entries
<1>14. HandlingKept'
  BY <1>3, <1>5, <1>7 DEF HandlingKept, c
<1>15. EachOwed'
  <2> SUFFICES ASSUME NEW d \in Calls, returned[d] = "accepted",
                      heard'[d] = <<>>
               PROVE  \E f \in Entries : pool[f].callback = d
    BY <1>5 DEF EachOwed, Outstanding, Entries
  <2>1. d # c
    BY <1>7
  <2> QED
    BY <1>0, <1>7, <2>1 DEF EachOwed, Outstanding
<1> QED
  BY <1>9, <1>10, <1>11, <1>13, <1>14, <1>15 DEF IInv

(* _c_rpcMsgHandle after the callback keeps the invariant.                 *)
LEMMA FinishCallbackKeeps ==
  ASSUME IInv, FinishCallback
  PROVE  IInv'
<1>0. TypeOK /\ SentIds /\ CallIds /\ HeardOnce /\ EntriesKept
      /\ HandlingKept /\ EachOwed /\ NeverCallsNull
  BY DEF IInv
<1>1. /\ handling \in Entries /\ handling' = 0
      /\ pool' = [pool EXCEPT ![handling] = IdleEntry]
      /\ UNCHANGED <<lastId, sendBuf, nullCall, wire, returned, reqId, heard,
                     discarded>>
  BY <1>0 DEF FinishCallback, Reback, TypeOK, Entries
<1>2. /\ pool \in Seq(Entry) /\ pool' \in Seq(Entry)
      /\ Len(pool') = Len(pool)
      /\ pool'[handling] = IdleEntry
      /\ \A f \in Entries \ {handling} : pool'[f] = pool[f]
  BY <1>0, <1>1, EntryTypes DEF TypeOK, Entries
<1>3. Entries' = Entries
  BY <1>2 DEF Entries
<1>4. TypeOK'
  BY <1>0, <1>1, <1>2 DEF TypeOK
<1>5. SentIds' /\ CallIds' /\ HeardOnce' /\ NeverCallsNull'
  BY <1>0, <1>1 DEF SentIds, Issued, CallIds, HeardOnce, NeverCallsNull
<1>6. EntriesKept'
  <2>1. ASSUME NEW f \in Entries, pool'[f].callback = NoCall
        PROVE  pool'[f].msgId = 0
    BY <1>0, <1>2, <2>1 DEF EntriesKept, IdleEntry
  <2>2. ASSUME NEW f \in Entries, NEW d \in Calls, pool'[f].callback = d
        PROVE  EntryOf(f, d)'
    <3>1. f # handling
      BY <1>2, <2>2, NoCallIsNoCall DEF IdleEntry
    <3>2. EntryOf(f, d) /\ pool'[f] = pool[f]
      BY <1>0, <1>2, <2>2, <3>1 DEF EntriesKept
    <3> QED
      BY <1>1, <3>1, <3>2 DEF EntryOf
  <2>3. ASSUME NEW f \in Entries, NEW g \in Entries,
               pool'[f].callback = pool'[g].callback,
               pool'[f].callback # NoCall
        PROVE  f = g
    BY <1>0, <1>2, <2>3 DEF EntriesKept, IdleEntry
  <2> QED
    BY <1>3, <2>1, <2>2, <2>3 DEF EntriesKept
<1>7. HandlingKept'
  BY <1>1 DEF HandlingKept
<1>8. EachOwed'
  <2> SUFFICES ASSUME NEW d \in Calls, returned[d] = "accepted",
                      heard[d] = <<>>
               PROVE  \E f \in Entries : pool'[f].callback = d
    BY <1>1, <1>3 DEF EachOwed, Outstanding
  <2>1. PICK f \in Entries : pool[f].callback = d
    BY <1>0 DEF EachOwed, Outstanding
  <2>2. f # handling
    BY <1>0, <2>1 DEF HandlingKept, FinishCallback
  <2> QED
    BY <1>2, <2>1, <2>2
<1> QED
  BY <1>4, <1>5, <1>6, <1>7, <1>8 DEF IInv

-----------------------------------------------------------------------------
(* The theorems                                                            *)

(* The invariant holds before the first call.                              *)
LEMMA InitIInv == Init => IInv
<1> SUFFICES ASSUME Init PROVE IInv
  OBVIOUS
<1>1. TypeOK
  <2>1. /\ lastId \in 0..MaxMsgs /\ handling \in 0..Len(pool)
        /\ reqId \in [Calls -> 0..MaxMsgs]
    BY MaxMsgsIsNat DEF Init
  <2>2. /\ pool \in Seq(Entry) /\ sendBuf \in Seq(Request)
        /\ wire \in Seq(Request)
        /\ heard \in [Calls -> Seq(1..MaxMsgs)]
    BY DEF Init
  <2>3. /\ nullCall \in BOOLEAN /\ discarded \subseteq 1..MaxMsgs
        /\ returned \in [Calls -> {"none", "accepted", "forgotten", "refused"}]
    BY DEF Init
  <2> QED
    BY <2>1, <2>2, <2>3 DEF TypeOK
<1>2. SentIds
  BY IssuedEmpty DEF Init, SentIds
<1>3. CallIds /\ HeardOnce
  BY DEF Init, CallIds, HeardOnce
<1>4. EntriesKept /\ HandlingKept
  BY DEF Init, EntriesKept, HandlingKept, Entries
<1>5. EachOwed /\ NeverCallsNull
  BY DEF Init, EachOwed, Outstanding, NeverCallsNull
<1> QED
  BY <1>1, <1>2, <1>3, <1>4, <1>5 DEF IInv

(* Every handler keeps the invariant.                                      *)
LEMMA NextIInv == IInv /\ [Next]_vars => IInv'
<1> SUFFICES ASSUME IInv, [Next]_vars PROVE IInv'
  OBVIOUS
<1>0. TypeOK /\ SentIds /\ lastId \in 0..MaxMsgs
  BY DEF IInv, TypeOK
<1>1. ASSUME NEW c \in Calls, InvokeRefused(c) PROVE IInv'
  <2>1. SentIds'
    BY <1>0, <1>1 DEF InvokeRefused, codeVars, SentIds, Issued
  <2> QED
    BY <1>0, <1>1, <2>1, TableUntouched DEF InvokeRefused, codeVars, TypeOK
<1>2. ASSUME NEW c \in Calls, InvokeNoEntry(c) PROVE IInv'
  <2>1. lastId' = lastId + 1 /\ lastId' \in 0..MaxMsgs
    BY <1>0, <1>2, MaxMsgsIsNat DEF InvokeNoEntry, NextId
  <2>2. SentIds'
    BY <1>0, <1>2, <2>1, MaxMsgsIsNat, IssuedLater DEF InvokeNoEntry, SentIds
  <2> QED
    BY <1>0, <1>2, <2>1, <2>2, TableUntouched
       DEF InvokeNoEntry, NextId, TypeOK
<1>3. ASSUME NEW c \in Calls, NEW withCallback \in BOOLEAN,
             NEW whole \in BOOLEAN, InvokeSent(c, withCallback, whole)
      PROVE  IInv'
  BY <1>3, InvokeSentKeeps
<1>4. ASSUME NEW c \in Calls, NEW withCallback \in BOOLEAN,
             InvokeNotSent(c, withCallback)
      PROVE  IInv'
  BY <1>4, InvokeNotSentKeeps
<1>5. CASE SendOther
  <2>1. lastId' = lastId + 1 /\ lastId' \in 0..MaxMsgs
    BY <1>0, <1>5, MaxMsgsIsNat DEF SendOther, NextId
  <2>2. SentIds'
    BY <1>0, <1>5, SentIdsKept DEF SendOther
  <2> QED
    BY <1>0, <1>5, <2>1, <2>2, TableUntouched DEF SendOther, TypeOK
<1>6. ASSUME NEW id \in Answerable, NotifyCaller(id) PROVE IInv'
  BY <1>6, NotifyCallerKeeps
<1>7. ASSUME NEW id \in Answerable, DiscardResponse(id) PROVE IInv'
  <2>1. SentIds'
    BY <1>0, <1>7 DEF DiscardResponse, codeVars, SentIds, Issued
  <2>2. discarded' \subseteq 1..MaxMsgs
    BY <1>0, <1>7, AnswersAreIssued DEF DiscardResponse, TypeOK
  <2> QED
    BY <1>0, <1>7, <2>1, <2>2, TableUntouched DEF DiscardResponse, codeVars
<1>8. CASE FinishCallback
  BY <1>8, FinishCallbackKeeps
<1>9. CASE UNCHANGED vars
  <2>1. SentIds'
    BY <1>0, <1>9 DEF vars, SentIds, Issued
  <2> QED
    BY <1>0, <1>9, <2>1, TableUntouched DEF vars, TypeOK
<1> QED
  BY <1>1, <1>2, <1>3, <1>4, <1>5, <1>6, <1>7, <1>8, <1>9 DEF Next

(* The inductive invariant holds of every behaviour.                       *)
THEOREM SpecIInv == Spec => []IInv
  BY InitIInv, NextIInv, PTL DEF Spec

(* client_invokeRpc and _c_rpcMsgHandle keep every variable in its type.   *)
THEOREM WaitTypeOK == Spec => []TypeOK
<1>1. IInv => TypeOK
  BY DEF IInv
<1> QED
  BY <1>1, SpecIInv, PTL

(* Every callback runs at most once, with its own response, for any number *)
(* of calls and however responses are delayed, repeated and reordered.     *)
THEOREM WaitCallbackContract == Spec => []CallbackContract
<1>1. IInv => CallbackContract
  BY DEF IInv, HeardOnce, CallbackContract
<1> QED
  BY <1>1, SpecIInv, PTL

(* The entry of an accepted call stays the one entry its response finds,   *)
(* whatever is called, answered or given back meanwhile.                   *)
THEOREM WaitNoCallerLost == Spec => []NoCallerLost
<1>1. ASSUME IInv, NEW c \in Outstanding
      PROVE  \E e \in DOMAIN pool :
               /\ pool[e] = BusyEntry(reqId[c], c)
               /\ Waiters(reqId[c]) = {e}
  <2>1. /\ DOMAIN pool = Entries /\ c \in Calls /\ returned[c] = "accepted"
        /\ reqId[c] \in 0..MaxMsgs /\ reqId[c] # 0
    BY <1>1 DEF IInv, TypeOK, Entries, Outstanding, CallIds
  <2>2. Trunc(reqId[c]) = reqId[c]
    BY <2>1, TruncKeeps
  <2>3. PICK e \in Entries : pool[e].callback = c
    BY <1>1 DEF IInv, EachOwed
  <2>4. EntryOf(e, c)
    BY <1>1, <2>1, <2>3 DEF IInv, EntriesKept
  <2>5. pool[e] = BusyEntry(reqId[c], c)
    BY <2>2, <2>4 DEF EntryOf, BusyEntry
  <2>6. ASSUME NEW f \in Entries, pool[f].msgId = reqId[c] PROVE f = e
    <3>1. pool[f] \in Entry
      BY <1>1 DEF IInv, TypeOK, Entries
    <3>2. pool[f].callback \in Calls
      BY <1>1, <2>1, <2>6, <3>1 DEF Entry, IInv, EntriesKept
    <3>3. EntryOf(f, pool[f].callback)
      BY <1>1, <3>2 DEF IInv, EntriesKept
    <3>4. reqId[pool[f].callback] = reqId[c]
      BY <2>6, <3>3 DEF EntryOf
    <3>5. pool[f].callback = c
      BY <1>1, <2>1, <3>2, <3>4 DEF IInv, CallIds
    <3> QED
      BY <1>1, <2>1, <2>3, <3>5, NoCallIsNoCall DEF IInv, EntriesKept
  <2>7. Waiters(reqId[c]) = {e}
    BY <2>1, <2>2, <2>4, <2>6 DEF Waiters, EntryOf
  <2> QED
    BY <2>1, <2>5, <2>7
<1>2. IInv => NoCallerLost
  BY <1>1 DEF NoCallerLost
<1> QED
  BY <1>2, SpecIInv, PTL

(* A step during which the same callback goes on leaves its entry alone.   *)
LEMMA RunningKept ==
  ASSUME IInv, [Next]_vars, handling # 0, handling' = handling
  PROVE  pool'[handling] = pool[handling]
<1>1. handling \in Entries /\ pool \in Seq(Entry)
  BY DEF IInv, TypeOK, Entries
<1>2. ASSUME NEW e \in Slots, IsSlot(e)
      PROVE  e # handling /\ Created \in Seq(Entry)
             /\ handling \in 1..Len(Created)
             /\ Created[handling] = pool[handling]
  BY <1>1, <1>2, CreatedKeeps, IdleHasNoCaller
<1>3. ASSUME NEW c \in Calls, NEW withCallback \in BOOLEAN, NEW e \in Slots,
             IsSlot(e)
      PROVE  /\ Registered(e, c, withCallback)[handling] = pool[handling]
             /\ Reback(Registered(e, c, withCallback), e)[handling]
                  = pool[handling]
  BY <1>2, <1>3 DEF Registered, Reback
<1>4. CASE \E c \in Calls, withCallback, whole \in BOOLEAN :
             InvokeSent(c, withCallback, whole)
  BY <1>3, <1>4 DEF InvokeSent
<1>5. CASE \E c \in Calls, withCallback \in BOOLEAN :
             InvokeNotSent(c, withCallback)
  BY <1>3, <1>5 DEF InvokeNotSent
<1>6. CASE FinishCallback
  BY <1>6 DEF FinishCallback
<1>7. CASE UNCHANGED pool
  BY <1>7
<1> QED
  BY <1>4, <1>5, <1>6, <1>7
     DEF Next, vars, codeVars, InvokeRefused, InvokeNoEntry, SendOther,
         NotifyCaller, DiscardResponse

(* The entry whose callback is running is left alone by every call that    *)
(* the callback makes.                                                     *)
THEOREM WaitRunningEntryKept == Spec => RunningEntryKept
<1>1. IInv /\ [Next]_vars =>
        [handling # 0 /\ handling' = handling
           => pool'[handling] = pool[handling]]_vars
  BY RunningKept
<1> QED
  BY <1>1, SpecIInv, PTL DEF Spec, RunningEntryKept

-----------------------------------------------------------------------------
(* The wait table implements RpcService                                    *)

(* What the entries owe, run and have answered, read off the calls.        *)
PairOf(c) == <<c, reqId[c]>>
Told == {c \in Calls : heard[c] # <<>>}
Promised == {PairOf(c) : c \in Outstanding}
ToldPairs == {PairOf(c) : c \in Told}
Runs == IF handling = 0 THEN {} ELSE {PairOf(pool[handling].callback)}

(* An entry with a callback is of an accepted call that has heard nothing, *)
(* and each such call has one.                                             *)
LEMMA PendingIsPromised == ASSUME IInv PROVE Pending = Promised
<1>0. TypeOK /\ EntriesKept /\ HandlingKept /\ EachOwed /\ DOMAIN pool = Entries
  BY DEF IInv, TypeOK, Entries
<1>1. ASSUME NEW e \in Entries, Owes(e), e # handling
      PROVE  Pair(e) \in Promised
  <2>1. pool[e] \in Entry
    BY <1>0 DEF TypeOK, Entries
  <2>2. pool[e].callback \in Calls
    BY <1>1, <2>1 DEF Entry, Owes
  <2>3. EntryOf(e, pool[e].callback)
    BY <1>0, <2>2 DEF EntriesKept
  <2>4. pool[e].callback \in Outstanding /\ Pair(e) = PairOf(pool[e].callback)
    BY <1>1, <2>2, <2>3 DEF EntryOf, Outstanding, Pair, PairOf
  <2> QED
    BY <2>4 DEF Promised
<1>2. ASSUME NEW c \in Outstanding PROVE PairOf(c) \in Pending
  <2>1. PICK e \in Entries : pool[e].callback = c
    BY <1>0 DEF EachOwed
  <2>2. c \in Calls /\ heard[c] = <<>>
    BY DEF Outstanding
  <2>3. EntryOf(e, c)
    BY <1>0, <2>1, <2>2 DEF EntriesKept
  <2>4. e # handling
    <3>1. e # 0
      BY DEF Entries
    <3> QED
      BY <1>0, <2>1, <2>2, <3>1 DEF HandlingKept
  <2>5. Owes(e) /\ Pair(e) = PairOf(c)
    BY <2>1, <2>2, <2>3, NoCallIsNoCall DEF EntryOf, Owes, Pair, PairOf
  <2> QED
    BY <1>0, <2>4, <2>5 DEF Pending
<1> QED
  BY <1>0, <1>1, <1>2 DEF Pending, Promised

(* The entry that is handled is that of the call whose callback runs.      *)
LEMMA RunningIsRuns == ASSUME IInv PROVE Running = Runs
<1>0. TypeOK /\ EntriesKept /\ HandlingKept /\ DOMAIN pool = Entries
      /\ handling \in 0..Len(pool) /\ Len(pool) \in Nat
  BY DEF IInv, TypeOK, Entries
<1>1. CASE handling = 0
  BY <1>0, <1>1 DEF Running, Runs, Entries
<1>2. CASE handling # 0
  <2>1. handling \in Entries /\ pool[handling].callback \in Calls
    BY <1>0, <1>2 DEF Entries, HandlingKept
  <2>2. EntryOf(handling, pool[handling].callback)
    BY <1>0, <2>1 DEF EntriesKept
  <2>3. Pair(handling) = PairOf(pool[handling].callback)
    BY <2>2 DEF EntryOf, Pair, PairOf
  <2>4. Running = {Pair(handling)}
    BY <1>0, <2>1 DEF Running
  <2> QED
    BY <1>2, <2>3, <2>4 DEF Runs
<1> QED
  BY <1>1, <1>2

(* A callback that was run was run once, with the response to its request. *)
LEMMA AnsweredIsTold == ASSUME IInv PROVE Answered = ToldPairs
<1>0. heard \in [Calls -> Seq(1..MaxMsgs)] /\ HeardOnce
  BY DEF IInv, TypeOK
<1> DEFINE Of(c) == {<<c, heard[c][i]>> : i \in DOMAIN heard[c]}
<1>1. ASSUME NEW c \in Told PROVE Of(c) = {PairOf(c)}
  <2>1. heard[c] = <<reqId[c]>>
    BY <1>0 DEF HeardOnce, Told
  <2>2. DOMAIN heard[c] = {1} /\ heard[c][1] = reqId[c]
    BY <2>1
  <2> QED
    BY <2>2 DEF PairOf
<1>2. ASSUME NEW c \in Calls, c \notin Told PROVE Of(c) = {}
  BY <1>0, <1>2 DEF Told
<1>3. Answered = UNION {Of(c) : c \in Calls}
  BY DEF Answered
<1>4. Told \subseteq Calls
  BY DEF Told
<1> HIDE DEF Of
<1> QED
  BY <1>1, <1>2, <1>3, <1>4 DEF ToldPairs

(* The three together.                                                     *)
Mapped == Pending = Promised /\ Running = Runs /\ Answered = ToldPairs
LEMMA IsMapped == IInv => Mapped
  BY PendingIsPromised, RunningIsRuns, AnsweredIsTold DEF Mapped

(* An invocation changes the pair of its own call only: the running one    *)
(* and the ones told are of other calls.                                   *)
LEMMA OthersKept ==
  ASSUME IInv, NEW c \in Calls, returned[c] = "none",
         \A d \in Calls \ {c} : reqId'[d] = reqId[d],
         UNCHANGED <<heard, handling>>,
         handling # 0 => pool'[handling] = pool[handling]
  PROVE  /\ c \notin Outstanding /\ c \notin Told
         /\ \A d \in Calls \ {c} : PairOf(d)' = PairOf(d)
         /\ Runs' = Runs /\ ToldPairs' = ToldPairs
<1>0. HeardOnce /\ HandlingKept
  BY DEF IInv
<1>1. c \notin Outstanding /\ c \notin Told
  BY <1>0 DEF Outstanding, Told, HeardOnce
<1>2. \A d \in Calls \ {c} : PairOf(d)' = PairOf(d)
  BY DEF PairOf
<1>3. Told' = Told /\ Told \subseteq Calls \ {c}
  BY <1>1 DEF Told
<1>4. ToldPairs' = ToldPairs
  BY <1>2, <1>3 DEF ToldPairs
<1>5. Runs' = Runs
  <2>1. CASE handling = 0
    BY <2>1 DEF Runs
  <2>2. CASE handling # 0
    <3>1. pool[handling].callback \in Calls \ {c}
      BY <1>0, <1>1, <2>2 DEF HandlingKept, Told
    <3>2. PairOf(pool[handling].callback)' = PairOf(pool[handling].callback)
      BY <2>2, <3>1 DEF PairOf
    <3> QED
      BY <2>2, <3>2 DEF Runs
  <2> QED
    BY <2>1, <2>2
<1> QED
  BY <1>1, <1>2, <1>4, <1>5

(* A call that is not accepted promises nothing.                           *)
LEMMA RefusedPromisesNothing ==
  ASSUME IInv, NEW c \in Calls, returned[c] = "none",
         NEW r \in {"forgotten", "refused"},
         returned' = [returned EXCEPT ![c] = r],
         \A d \in Calls \ {c} : reqId'[d] = reqId[d],
         UNCHANGED <<heard, handling>>,
         handling # 0 => pool'[handling] = pool[handling]
  PROVE  UNCHANGED <<Promised, Runs, ToldPairs>>
<1>1. /\ c \notin Outstanding
      /\ \A d \in Calls \ {c} : PairOf(d)' = PairOf(d)
      /\ Runs' = Runs /\ ToldPairs' = ToldPairs
  BY OthersKept
<1>2. Outstanding' = Outstanding
  BY DEF Outstanding, IInv, TypeOK
<1>3. Outstanding \subseteq Calls \ {c}
  BY <1>1 DEF Outstanding
<1>4. Promised' = Promised
  BY <1>1, <1>2, <1>3 DEF Promised
<1> QED
  BY <1>1, <1>4

(* client_invokeRpc that is accepted is an Accept of RpcService.           *)
LEMMA AcceptedIsAccept ==
  ASSUME IInv, IInv', Mapped, Mapped', [Next]_vars,
         NEW c \in Calls, NEW whole \in BOOLEAN, InvokeSent(c, TRUE, whole)
  PROVE  Service!Next
<1>0. TypeOK /\ CallIds
  BY DEF IInv
<1>1. /\ returned[c] = "none" /\ lastId < MaxMsgs
      /\ reqId' = [reqId EXCEPT ![c] = NextId]
      /\ returned' = [returned EXCEPT ![c] = "accepted"]
      /\ UNCHANGED <<handling, heard>>
  BY DEF InvokeSent
<1>2. /\ reqId'[c] = NextId /\ NextId \in 0..MaxMsgs
      /\ \A d \in Calls \ {c} : reqId'[d] = reqId[d]
      /\ \A d \in Calls : reqId[d] # NextId
  BY <1>0, <1>1, MaxMsgsIsNat DEF TypeOK, CallIds, NextId
<1>3. handling # 0 => pool'[handling] = pool[handling]
  BY <1>1, RunningKept
<1>4. /\ c \notin Outstanding /\ c \notin Told
      /\ \A d \in Calls \ {c} : PairOf(d)' = PairOf(d)
      /\ Runs' = Runs /\ ToldPairs' = ToldPairs
  BY <1>1, <1>2, <1>3, OthersKept
<1>5. Outstanding' = Outstanding \cup {c}
  <2>1. heard[c] = <<>>
    BY <1>4 DEF Told
  <2>2. \A d \in Calls \ {c} : returned'[d] = returned[d]
    BY <1>0, <1>1 DEF TypeOK
  <2>3. returned'[c] = "accepted"
    BY <1>0, <1>1 DEF TypeOK
  <2> QED
    BY <1>1, <2>1, <2>2, <2>3 DEF Outstanding
<1>6. Outstanding \subseteq Calls \ {c} /\ Told \subseteq Calls \ {c}
  BY <1>4 DEF Outstanding, Told
<1>7. PairOf(c)' = <<c, NextId>>
  BY <1>2 DEF PairOf
<1>8. Promised' = Promised \cup {<<c, NextId>>}
  BY <1>4, <1>5, <1>6, <1>7 DEF Promised
<1>9. ASSUME NEW p \in Promised \cup ToldPairs
      PROVE  p[1] # c /\ p[2] # NextId
  <2>1. PICK d \in Calls \ {c} : p = PairOf(d)
    BY <1>6, <1>9 DEF Promised, ToldPairs
  <2> QED
    BY <1>2, <2>1 DEF PairOf
<1>10. Service!Accept(c, NextId)
  <2>1. Service!Owed = Promised \cup ToldPairs
    BY DEF Service!Owed, Mapped
  <2>2. c \notin Service!CallsOf(Service!Owed)
    BY <1>9, <2>1 DEF Service!CallsOf
  <2>3. NextId \notin Service!IdsOf(Service!Owed)
    BY <1>9, <2>1 DEF Service!IdsOf
  <2>4. Pending' = Pending \cup {<<c, NextId>>}
    BY <1>8 DEF Mapped
  <2>5. Running' = Running /\ Answered' = Answered
    BY <1>4 DEF Mapped
  <2> QED
    BY <2>2, <2>3, <2>4, <2>5 DEF Service!Accept
<1> QED
  BY <1>2, <1>10 DEF Service!Next

(* _c_rpcMsgHandle up to the callback is an Enter of RpcService.           *)
LEMMA NotifyIsEnter ==
  ASSUME IInv, IInv', Mapped, Mapped', NEW id \in Answerable, NotifyCaller(id)
  PROVE  Service!Next
<1>0. TypeOK /\ HeardOnce
  BY DEF IInv
<1>1. PICK e \in DOMAIN pool : IsNewest(e, Waiters(id)) /\ CallBack(e, id)
  BY DEF NotifyCaller
<1> DEFINE c == pool[e].callback
<1>2. /\ e \in Entries /\ c \in Calls /\ EntryOf(e, c) /\ reqId[c] = id
  BY <1>1, WaiterIsCaller DEF IsNewest
<1>3. c # NoCall
  BY <1>2, NoCallIsNoCall
<1>4. /\ handling = 0 /\ handling' = e /\ e # 0
      /\ heard' = [heard EXCEPT ![c] = Append(@, id)]
      /\ UNCHANGED <<pool, returned, reqId>>
  BY <1>1, <1>2, <1>3 DEF NotifyCaller, CallBack, Entries
<1>5. c \in Outstanding
  BY <1>2, <1>4 DEF EntryOf, Outstanding
<1>6. c' = c
  BY <1>4
<1> HIDE DEF c
<1>7. /\ heard \in [Calls -> Seq(1..MaxMsgs)]
      /\ heard'[c] # <<>>
      /\ \A d \in Calls \ {c} : heard'[d] = heard[d]
  <2>1. heard \in [Calls -> Seq(1..MaxMsgs)] /\ heard[c] = <<>>
    BY <1>0, <1>5 DEF TypeOK, Outstanding
  <2>2. heard'[c] = Append(heard[c], id)
    BY <1>2, <1>4, <2>1
  <2>3. heard'[c] = <<id>>
    BY <2>1, <2>2
  <2>4. \A d \in Calls \ {c} : heard'[d] = heard[d]
    BY <1>4, <2>1
  <2>5. heard'[c] # <<>>
    BY <2>3
  <2> QED
    BY <2>1, <2>4, <2>5
<1>8. Outstanding' = Outstanding \ {c} /\ Told' = Told \cup {c}
  BY <1>2, <1>4, <1>7 DEF Outstanding, Told
<1>9. \A d \in Calls : PairOf(d)' = PairOf(d)
  BY <1>4 DEF PairOf
<1>10. \A d \in Calls : PairOf(d) = PairOf(c) => d = c
  BY DEF PairOf
<1>11. Promised' = Promised \ {PairOf(c)} /\ PairOf(c) \in Promised
  BY <1>5, <1>8, <1>9, <1>10 DEF Promised, Outstanding
<1>12. ToldPairs' = ToldPairs \cup {PairOf(c)}
  BY <1>2, <1>8, <1>9 DEF ToldPairs, Told
<1>13. Runs = {} /\ Runs' = {PairOf(c)}
  BY <1>2, <1>4, <1>9 DEF Runs, c
<1>14. Service!Enter(PairOf(c)) /\ PairOf(c) \in Pending
  BY <1>11, <1>12, <1>13 DEF Service!Enter, Mapped
<1> QED
  BY <1>14 DEF Service!Next

(* _c_rpcMsgHandle after the callback is a Leave of RpcService.            *)
LEMMA FinishIsLeave ==
  ASSUME IInv, IInv', Mapped, Mapped', FinishCallback
  PROVE  Service!Next
<1>1. handling # 0 /\ handling' = 0 /\ UNCHANGED <<returned, reqId, heard>>
  BY DEF FinishCallback
<1>2. Runs # {} /\ Runs' = {}
  BY <1>1 DEF Runs
<1>3. UNCHANGED <<Promised, ToldPairs>>
  BY <1>1 DEF Promised, ToldPairs, Outstanding, Told, PairOf
<1> QED
  BY <1>2, <1>3 DEF Service!Next, Service!Leave, Mapped

(* A step that leaves what is promised, run and told alone is a stutter.   *)
LEMMA QuietIsStutter ==
  ASSUME Mapped, Mapped', UNCHANGED <<Promised, Runs, ToldPairs>>
  PROVE  UNCHANGED Service!vars
  BY DEF Mapped, Service!vars

(* Every step of the wait table is a step of RpcService or a stutter.      *)
LEMMA NextIsServiceStep ==
  ASSUME IInv, IInv', Mapped, Mapped', [Next]_vars
  PROVE  [Service!Next]_(Service!vars)
<1>1. ASSUME NEW c \in Calls, InvokeRefused(c)
      PROVE  UNCHANGED Service!vars
  BY <1>1, RefusedPromisesNothing, QuietIsStutter DEF InvokeRefused, codeVars
<1>2. ASSUME NEW c \in Calls, InvokeNoEntry(c)
      PROVE  UNCHANGED Service!vars
  <2>1. \A d \in Calls \ {c} : reqId'[d] = reqId[d]
    BY <1>2 DEF InvokeNoEntry, IInv, TypeOK
  <2> QED
    BY <1>2, <2>1, RefusedPromisesNothing, QuietIsStutter DEF InvokeNoEntry
<1>3. ASSUME NEW c \in Calls, NEW withCallback \in BOOLEAN,
             NEW whole \in BOOLEAN, InvokeSent(c, withCallback, whole)
      PROVE  [Service!Next]_(Service!vars)
  <2>1. CASE withCallback
    <3>1. InvokeSent(c, TRUE, whole)
      BY <1>3, <2>1
    <3> QED
      BY <3>1, AcceptedIsAccept
  <2>2. CASE ~withCallback
    <3>1. /\ returned[c] = "none" /\ UNCHANGED <<heard, handling>>
          /\ returned' = [returned EXCEPT ![c] = "forgotten"]
          /\ \A d \in Calls \ {c} : reqId'[d] = reqId[d]
      BY <1>3, <2>2 DEF InvokeSent, IInv, TypeOK
    <3>2. handling # 0 => pool'[handling] = pool[handling]
      BY <3>1, RunningKept
    <3> QED
      BY <3>1, <3>2, RefusedPromisesNothing, QuietIsStutter
  <2> QED
    BY <2>1, <2>2
<1>4. ASSUME NEW c \in Calls, NEW withCallback \in BOOLEAN,
             InvokeNotSent(c, withCallback)
      PROVE  UNCHANGED Service!vars
  <2>1. /\ returned[c] = "none" /\ UNCHANGED <<heard, handling>>
        /\ returned' = [returned EXCEPT ![c] = "refused"]
        /\ \A d \in Calls \ {c} : reqId'[d] = reqId[d]
    BY <1>4 DEF InvokeNotSent, IInv, TypeOK
  <2>2. handling # 0 => pool'[handling] = pool[handling]
    BY <2>1, RunningKept
  <2> QED
    BY <2>1, <2>2, RefusedPromisesNothing, QuietIsStutter
<1>5. ASSUME UNCHANGED <<pool, handling, returned, reqId, heard>>
      PROVE  UNCHANGED Service!vars
  <2>1. UNCHANGED <<Promised, Runs, ToldPairs>>
    BY <1>5 DEF Promised, Runs, ToldPairs, Outstanding, Told, PairOf
  <2> QED
    BY <2>1, QuietIsStutter
<1>6. ASSUME NEW id \in Answerable, NotifyCaller(id) PROVE Service!Next
  BY <1>6, NotifyIsEnter
<1>7. CASE FinishCallback
  BY <1>7, FinishIsLeave
<1>8. CASE SendOther \/ UNCHANGED vars
  BY <1>5, <1>8 DEF SendOther, vars
<1>9. ASSUME NEW id \in Answerable, DiscardResponse(id)
      PROVE  UNCHANGED Service!vars
  BY <1>5, <1>9 DEF DiscardResponse, codeVars
<1> QED
  BY <1>1, <1>2, <1>3, <1>4, <1>6, <1>7, <1>8, <1>9 DEF Next

(* At first nothing is promised, run or told.                              *)
LEMMA InitIsServiceInit == Init => Service!Init
  BY DEF Init, Service!Init, Pending, Running, Answered

(* The wait table implements RpcService: each call is accepted at most     *)
(* once under an id of its own, and its callback is entered at most once,  *)
(* one at a time, with the response to that id.                            *)
THEOREM WaitKeepsPromise == Spec => KeepsPromise
<1>1. IInv /\ IInv' /\ Mapped /\ Mapped' /\ [Next]_vars
        => [Service!Next]_(Service!vars)
  BY NextIsServiceStep
<1> QED
  BY <1>1, InitIsServiceInit, IsMapped, SpecIInv, PTL
     DEF Spec, KeepsPromise, Service!Spec

-----------------------------------------------------------------------------
(* The order of requests                                                   *)

(* What was sent, and behind it what still lies in sendBuf.                *)
Stream == wire \o sendBuf

Rising(s) == \A i, j \in 1..Len(s) : i < j => s[i].id < s[j].id
StartsWith(s, t) == Len(t) <= Len(s) /\ \A i \in 1..Len(t) : s[i] = t[i]

SentCalls ==
  \A c \in Calls :
    returned[c] \in {"accepted", "forgotten"} =>
      \E i \in 1..Len(wire) : wire[i].id = reqId[c] /\ wire[i].rpc

Ordered == Rising(Stream) /\ SentCalls

(* Encoding behind sendBuf is encoding behind all that was ever sent.      *)
LEMMA EncodedBehind ==
  ASSUME IInv, NEW rpc \in BOOLEAN, NEW whole \in BOOLEAN
  PROVE  \E r \in Request :
           /\ r.id = NextId /\ r.rpc = rpc
           /\ Encoded(rpc, whole) = Append(sendBuf, r)
           /\ wire \o Encoded(rpc, whole) = Append(Stream, r)
<1> DEFINE r == [id |-> NextId, rpc |-> rpc, whole |-> whole]
<1>1. r \in Request /\ r.id = NextId /\ r.rpc = rpc
  BY MaxMsgsIsNat DEF IInv, TypeOK, Request, NextId
<1>2. Encoded(rpc, whole) = Append(sendBuf, r)
  BY DEF Encoded
<1> HIDE DEF r
<1>3. wire \in Seq(Request) /\ sendBuf \in Seq(Request)
  BY DEF IInv, TypeOK
<1>4. wire \o Append(sendBuf, r) = Append(wire \o sendBuf, r)
  BY <1>1, <1>3
<1> QED
  BY <1>1, <1>2, <1>4 DEF Stream

(* A message that takes an id adds one request with that id, and perhaps   *)
(* drops some from the end; what was sent stays sent.                      *)
Extends ==
  \E r \in Request :
    /\ r.id = NextId
    /\ StartsWith(Append(Stream, r), Stream')
    /\ StartsWith(wire', wire)

(* Sending what is in sendBuf and the new message.                         *)
LEMMA TransmitExtends ==
  ASSUME IInv, NEW rpc \in BOOLEAN, NEW whole \in BOOLEAN,
         Transmit(rpc, whole)
  PROVE  Extends /\ wire'[Len(wire')].id = NextId /\ wire'[Len(wire')].rpc = rpc
         /\ Len(wire') \in 1..Len(wire')
<1>1. PICK r \in Request :
        /\ r.id = NextId /\ r.rpc = rpc
        /\ Encoded(rpc, whole) = Append(sendBuf, r)
        /\ wire \o Encoded(rpc, whole) = Append(Stream, r)
  BY EncodedBehind
<1>2. wire \in Seq(Request) /\ sendBuf \in Seq(Request)
      /\ Stream \in Seq(Request)
  BY DEF IInv, TypeOK, Stream
<1>3. wire' = Append(Stream, r) /\ sendBuf' = <<>>
  BY <1>1 DEF Transmit
<1>4. Stream' = Append(Stream, r)
  BY <1>2, <1>3 DEF Stream
<1>5. StartsWith(Append(Stream, r), Stream')
  BY <1>2, <1>4 DEF StartsWith
<1>6. StartsWith(wire', wire)
  BY <1>2, <1>3 DEF StartsWith, Stream
<1>7. wire'[Len(wire')] = r /\ Len(wire') \in 1..Len(wire')
  BY <1>2, <1>3
<1> QED
  BY <1>1, <1>5, <1>6, <1>7 DEF Extends

(* What is put in front of a sequence and of its beginning.                *)
LEMMA ConcatStartsWith ==
  ASSUME NEW w \in Seq(Request), NEW s \in Seq(Request), NEW t \in Seq(Request),
         StartsWith(s, t)
  PROVE  StartsWith(w \o s, w \o t) /\ StartsWith(w \o t, w)
<1>1. /\ Len(w \o s) = Len(w) + Len(s) /\ Len(w \o t) = Len(w) + Len(t)
      /\ Len(w) \in Nat /\ Len(s) \in Nat /\ Len(t) \in Nat
  OBVIOUS
<1>2. ASSUME NEW i \in 1..(Len(w) + Len(t))
      PROVE  (w \o s)[i] = (w \o t)[i]
  <2>1. CASE i <= Len(w)
    <3>1. (w \o s)[i] = w[i]
      BY <1>1, <2>1
    <3>2. (w \o t)[i] = w[i]
      BY <1>1, <2>1
    <3> QED
      BY <3>1, <3>2
  <2>2. CASE i > Len(w)
    <3>1. i - Len(w) \in 1..Len(t) /\ i - Len(w) \in 1..Len(s)
      BY <1>1, <2>2 DEF StartsWith
    <3>2. (w \o s)[i] = s[i - Len(w)]
      BY <1>1, <2>2, <3>1
    <3>3. (w \o t)[i] = t[i - Len(w)]
      BY <1>1, <2>2, <3>1
    <3>4. s[i - Len(w)] = t[i - Len(w)]
      BY <3>1 DEF StartsWith
    <3> QED
      BY <3>2, <3>3, <3>4
  <2>3. i <= Len(w) \/ i > Len(w)
    BY <1>1
  <2> QED
    BY <2>1, <2>2, <2>3
<1>3. \A i \in 1..Len(w) : (w \o t)[i] = w[i]
  OBVIOUS
<1>4. StartsWith(w \o s, w \o t)
  BY <1>1, <1>2 DEF StartsWith
<1> QED
  BY <1>1, <1>3, <1>4 DEF StartsWith

(* However sending fails.                                                  *)
LEMMA FailExtends ==
  ASSUME IInv, NEW rpc \in BOOLEAN, SendFails(rpc)
  PROVE  Extends
<1>1. wire \in Seq(Request) /\ sendBuf \in Seq(Request)
      /\ Stream \in Seq(Request) /\ Len(Stream) = Len(wire) + Len(sendBuf)
      /\ StartsWith(Stream, wire)
  BY DEF IInv, TypeOK, Stream, StartsWith
<1>2. ASSUME NEW r \in Request
      PROVE  /\ Append(Stream, r) \in Seq(Request)
             /\ Len(Append(Stream, r)) = Len(Stream) + 1
             /\ \A i \in 1..Len(Stream) : Append(Stream, r)[i] = Stream[i]
  BY <1>1
<1>3. PICK r0 \in Request :
        r0.id = NextId /\ Encoded(rpc, TRUE) = Append(sendBuf, r0)
  BY EncodedBehind
<1>4. CASE NoSender
  <2>1. Stream' = Stream /\ wire' = wire
    BY <1>4 DEF NoSender, Stream
  <2> QED
    BY <1>1, <1>2, <1>3, <2>1 DEF Extends, StartsWith
<1>5. CASE EncodeFails
  <2>1. Stream' = wire /\ wire' = wire
    BY <1>1, <1>5 DEF EncodeFails, Stream
  <2> QED
    BY <1>1, <1>2, <1>3, <2>1 DEF Extends, StartsWith
<1>6. CASE SenderKeeps(rpc)
  <2>1. PICK whole \in BOOLEAN :
          sendBuf' = Encoded(rpc, whole) /\ wire' = wire
    BY <1>6 DEF SenderKeeps
  <2>2. PICK r \in Request :
          /\ r.id = NextId
          /\ wire \o Encoded(rpc, whole) = Append(Stream, r)
    BY EncodedBehind
  <2>3. Stream' = Append(Stream, r)
    BY <2>1, <2>2 DEF Stream
  <2> QED
    BY <1>1, <1>2, <2>1, <2>2, <2>3 DEF Extends, StartsWith
<1>7. CASE SenderDrops(rpc)
  <2>1. PICK whole \in BOOLEAN, k \in 0..SendCap :
          /\ k <= Len(Encoded(rpc, whole))
          /\ sendBuf' = <<>>
          /\ wire' = wire \o SubSeq(Encoded(rpc, whole), 1, k)
    BY <1>7 DEF SenderDrops
  <2>2. PICK r \in Request :
          /\ r.id = NextId
          /\ Encoded(rpc, whole) = Append(sendBuf, r)
          /\ wire \o Encoded(rpc, whole) = Append(Stream, r)
    BY EncodedBehind
  <2> DEFINE s == Encoded(rpc, whole)
             t == SubSeq(s, 1, k)
  <2>3. s \in Seq(Request) /\ k \in 0..Len(s)
    BY <1>1, <2>1, <2>2, SendCapPositive
  <2>4. t \in Seq(Request) /\ Len(t) = k /\ k \in Nat
    BY <2>3
  <2>5. \A i \in 1..k : t[i] = s[i]
    BY <2>3
  <2> HIDE DEF s, t
  <2>6. wire' = wire \o t /\ Stream' = wire \o t /\ wire \o s = Append(Stream, r)
    <3>1. wire' = wire \o t /\ wire \o s = Append(Stream, r) /\ sendBuf' = <<>>
      BY <2>1, <2>2 DEF s, t
    <3>2. (wire \o t) \o <<>> = wire \o t
      BY <1>1, <2>4
    <3> QED
      BY <3>1, <3>2 DEF Stream
  <2>7. StartsWith(s, t)
    BY <2>3, <2>4, <2>5 DEF StartsWith
  <2>8. StartsWith(wire \o s, wire \o t) /\ StartsWith(wire \o t, wire)
    BY <1>1, <2>3, <2>4, <2>7, ConcatStartsWith
  <2> QED
    BY <2>2, <2>6, <2>8 DEF Extends
<1> QED
  BY <1>4, <1>5, <1>6, <1>7 DEF SendFails

(* A request behind all that came before keeps the order.                  *)
LEMMA ExtendsKeepsRising ==
  ASSUME IInv, IInv', Rising(Stream), Extends
  PROVE  Rising(Stream')
<1>1. wire \in Seq(Request) /\ sendBuf \in Seq(Request)
      /\ wire' \in Seq(Request) /\ sendBuf' \in Seq(Request)
      /\ lastId \in Nat
  BY MaxMsgsIsNat DEF IInv, TypeOK
<1>2. Stream \in Seq(Request) /\ Stream' \in Seq(Request)
  BY <1>1 DEF Stream
<1>3. \A i \in 1..Len(Stream) : Stream[i].id \in 1..lastId
  <2>1. Issued(Stream, lastId)
    BY <1>1, IssuedConcat DEF IInv, SentIds, Stream
  <2> QED
    BY <2>1 DEF Issued
<1>4. PICK r \in Request :
        r.id = lastId + 1 /\ StartsWith(Append(Stream, r), Stream')
  BY DEF Extends, NextId
<1>5. \A i \in 1..Len(Stream') :
        /\ i <= Len(Stream) => Stream'[i] = Stream[i]
        /\ i > Len(Stream) => i = Len(Stream) + 1 /\ Stream'[i] = r
  BY <1>2, <1>4 DEF StartsWith
<1>6. ASSUME NEW i \in 1..Len(Stream'), NEW j \in 1..Len(Stream'), i < j
      PROVE  Stream'[i].id < Stream'[j].id
  <2>1. i <= Len(Stream) /\ Stream'[i] = Stream[i]
    BY <1>2, <1>5, <1>6
  <2>2. CASE j <= Len(Stream)
    BY <1>2, <1>5, <1>6, <2>1, <2>2 DEF Rising
  <2>3. CASE j > Len(Stream)
    BY <1>1, <1>2, <1>3, <1>4, <1>5, <2>1, <2>3
  <2> QED
    BY <1>2, <2>2, <2>3
<1> QED
  BY <1>6 DEF Rising

(* What has been sent stays sent for the calls that do not change.         *)
LEMMA SentStaysSent ==
  ASSUME IInv, IInv', SentCalls, StartsWith(wire', wire), NEW c \in Calls,
         returned[c] \in {"accepted", "forgotten"}, reqId'[c] = reqId[c]
  PROVE  \E i \in 1..Len(wire') : wire'[i].id = reqId'[c] /\ wire'[i].rpc
<1>1. PICK i \in 1..Len(wire) : wire[i].id = reqId[c] /\ wire[i].rpc
  BY DEF SentCalls
<1>2. wire \in Seq(Request) /\ wire' \in Seq(Request)
  BY DEF IInv, TypeOK
<1>3. i \in 1..Len(wire') /\ wire'[i] = wire[i]
  BY <1>2 DEF StartsWith
<1> QED
  BY <1>1, <1>3

(* Every step keeps the order, and what it reports as sent is sent.        *)
LEMMA NextOrdered ==
  ASSUME IInv, IInv', Ordered, [Next]_vars
  PROVE  Ordered'
<1>0. TypeOK /\ wire \in Seq(Request)
  BY DEF IInv, TypeOK
<1>1. ASSUME NEW c \in Calls, NEW withCallback \in BOOLEAN,
             NEW whole \in BOOLEAN, InvokeSent(c, withCallback, whole)
      PROVE  Ordered'
  <2>1. /\ Extends
        /\ wire'[Len(wire')].id = NextId /\ wire'[Len(wire')].rpc = TRUE
        /\ Len(wire') \in 1..Len(wire')
    BY <1>1, TransmitExtends DEF InvokeSent
  <2>2. Rising(Stream')
    BY <2>1, ExtendsKeepsRising DEF Ordered
  <2>3. /\ reqId'[c] = NextId
        /\ \A d \in Calls \ {c} : reqId'[d] = reqId[d]
                                  /\ returned'[d] = returned[d]
    BY <1>0, <1>1 DEF InvokeSent, TypeOK
  <2>4. StartsWith(wire', wire)
    BY <2>1 DEF Extends
  <2>5. ASSUME NEW d \in Calls, returned'[d] \in {"accepted", "forgotten"}
        PROVE  \E i \in 1..Len(wire') : wire'[i].id = reqId'[d] /\ wire'[i].rpc
    <3>1. CASE d = c
      BY <2>1, <2>3, <3>1
    <3>2. CASE d # c
      <4>1. returned[d] \in {"accepted", "forgotten"} /\ reqId'[d] = reqId[d]
        BY <2>3, <2>5, <3>2
      <4> QED
        BY <2>4, <4>1, SentStaysSent DEF Ordered
    <3> QED
      BY <3>1, <3>2
  <2> QED
    BY <2>2, <2>5 DEF Ordered, SentCalls
<1>2. ASSUME Extends,
             \A d \in Calls : returned'[d] \in {"accepted", "forgotten"} =>
               returned[d] \in {"accepted", "forgotten"} /\ reqId'[d] = reqId[d]
      PROVE  Ordered'
  <2>1. Rising(Stream') /\ StartsWith(wire', wire)
    BY <1>2, ExtendsKeepsRising DEF Ordered, Extends
  <2>2. SentCalls'
    <3> SUFFICES ASSUME NEW d \in Calls,
                        returned'[d] \in {"accepted", "forgotten"}
                 PROVE  \E i \in 1..Len(wire') :
                          wire'[i].id = reqId'[d] /\ wire'[i].rpc
      BY DEF SentCalls
    <3> QED
      BY <1>2, <2>1, SentStaysSent DEF Ordered
  <2> QED
    BY <2>1, <2>2 DEF Ordered
<1>3. ASSUME UNCHANGED <<wire, sendBuf>>,
             \A d \in Calls : returned'[d] \in {"accepted", "forgotten"} =>
               returned[d] \in {"accepted", "forgotten"} /\ reqId'[d] = reqId[d]
      PROVE  Ordered'
  <2>1. Stream' = Stream /\ wire' = wire
    BY <1>3 DEF Stream
  <2>2. Rising(Stream')
    BY <2>1 DEF Ordered
  <2>3. SentCalls'
    BY <1>3, <2>1 DEF Ordered, SentCalls
  <2> QED
    BY <2>2, <2>3 DEF Ordered
<1>4. ASSUME NEW c \in Calls, InvokeRefused(c) PROVE Ordered'
  BY <1>0, <1>3, <1>4 DEF InvokeRefused, codeVars, TypeOK
<1>5. ASSUME NEW c \in Calls, InvokeNoEntry(c) PROVE Ordered'
  BY <1>0, <1>3, <1>5 DEF InvokeNoEntry, TypeOK
<1>6. ASSUME NEW c \in Calls, NEW withCallback \in BOOLEAN,
             InvokeNotSent(c, withCallback)
      PROVE  Ordered'
  <2>1. Extends
    BY <1>6, FailExtends DEF InvokeNotSent
  <2> QED
    BY <1>0, <1>2, <1>6, <2>1 DEF InvokeNotSent, TypeOK
<1>7. CASE SendOther
  <2>1. Extends
    BY <1>7, FailExtends, TransmitExtends DEF SendOther
  <2> QED
    BY <1>2, <1>7, <2>1 DEF SendOther
<1>8. ASSUME NEW id \in Answerable, NotifyCaller(id) PROVE Ordered'
  BY <1>3, <1>8 DEF NotifyCaller
<1>9. ASSUME NEW id \in Answerable, DiscardResponse(id) PROVE Ordered'
  BY <1>3, <1>9 DEF DiscardResponse, codeVars
<1>10. CASE FinishCallback \/ UNCHANGED vars
  BY <1>3, <1>10 DEF FinishCallback, vars
<1> QED
  BY <1>1, <1>4, <1>5, <1>6, <1>7, <1>8, <1>9, <1>10 DEF Next

(* Requests go out once and in the order of their ids, whatever failed     *)
(* senders left in sendBuf, and what client_invokeRpc reports as sent has  *)
(* been.                                                                   *)
THEOREM WaitTransmittedOnce == Spec => []TransmittedOnce
<1>1. Init => Ordered
  <2> SUFFICES ASSUME Init PROVE Ordered
    OBVIOUS
  <2>1. Stream = <<>>
    BY DEF Init, Stream
  <2> QED
    BY <2>1 DEF Init, Ordered, Rising, SentCalls
<1>2. IInv /\ IInv' /\ Ordered /\ [Next]_vars => Ordered'
  BY NextOrdered
<1>3. IInv /\ Ordered => TransmittedOnce
  <2> SUFFICES ASSUME IInv, Ordered PROVE TransmittedOnce
    OBVIOUS
  <2>1. /\ wire \in Seq(Request) /\ sendBuf \in Seq(Request)
        /\ DOMAIN wire = 1..Len(wire)
    BY DEF IInv, TypeOK
  <2>2. \A i \in 1..Len(wire) : i \in 1..Len(Stream) /\ Stream[i] = wire[i]
    BY <2>1 DEF Stream
  <2>3. \A i, j \in 1..Len(wire) : i < j => wire[i].id < wire[j].id
    BY <2>2 DEF Ordered, Rising
  <2> QED
    BY <2>1, <2>3 DEF Ordered, SentCalls, TransmittedOnce
<1> QED
  BY <1>1, <1>2, <1>3, SpecIInv, PTL DEF Spec
=============================================================================
