----------------------------- MODULE ObjectPools -----------------------------
(***************************************************************************)
(* The object pools of jm_mem.c (cache_init, cache_get, cache_back) and    *)
(* the objects that go through them: messages, publish/subscribe items and *)
(* extras.  A pool is a list of nodes, newest first; a node keeps the      *)
(* memory it allocated for its object and a mark that says whether the     *)
(* object is in use.  Memory is a set of blocks of the C heap: a block that *)
(* is freed may be allocated again, for anything.                          *)
(*                                                                         *)
(* Who holds an object is followed along the code's own paths: the receive *)
(* loop frees the message it handled with os_free, behind the back of the  *)
(* pool; an item gives the data it came with to bb_release, whatever they  *)
(* are; requests are made and released while a message is handled.  When   *)
(* os_free is given what is no block of the heap, the program may end.     *)
(***************************************************************************)
EXTENDS Naturals, Sequences, FiniteSets

CONSTANTS
  Block,          \* blocks of memory
  NoBlock,        \* the NULL pointer
  Caller,         \* activities that build and send a message of their own
  DataKinds,      \* encodings of the data field of the items that arrive
  MaxNodes        \* bound of the model: nodes of one pool

Pool == {"message", "item", "extra"}
Holder == {"received", "event", "cxt", "data", "reply"}

ASSUME PoolsAssumption ==
  /\ NoBlock \notin Block
  /\ Caller \cap Holder = {}
  /\ DataKinds \subseteq {"none", "bin", "string", "extra"}
  /\ MaxNodes \in Nat

VARIABLES
  heap,     \* what each block is allocated for; "free" when it is not
  pool,     \* the list ch->cache of each pool, newest node first
  held,     \* the block each path of the program has in its hands
  lost,     \* objects that are in use for ever: no path will give them back
  phase,    \* where the receive loop is; "broken" when the program has ended
  payload,  \* the payload of the received message: none, owned or freed
  kind,     \* the encoding of held["data"]
  late      \* a response has come that nobody waited for

poolsVars == <<heap, pool, held, lost, phase, payload, kind, late>>

Use == {"free", "other", "buffer", "text"} \cup Pool
Node == [item : Block, used : BOOLEAN]
Role == Holder \cup Caller

-----------------------------------------------------------------------------
(* The pools, as operators on a memory m = [heap |-> ..., pool |-> ...].    *)

memory == [heap |-> heap, pool |-> pool]

Idle(m, p) == {i \in DOMAIN m.pool[p] : ~m.pool[p][i].used}

\* Where a walk along the list that looks for the positions S stops.
IsFirst(i, S) == i \in S /\ \A j \in S : i <= j
Marked(m, p, S, u) ==
  [m EXCEPT !.pool[p] =
     [i \in DOMAIN @ |-> IF IsFirst(i, S) THEN [@[i] EXCEPT !.used = u] ELSE @[i]]]

\* What cache_get(p, true) may return: the first object not in use, or else
\* any block os_zalloc may find; nothing when there is no memory.
CacheGet(m, p) ==
  IF Idle(m, p) # {}
  THEN {m.pool[p][i].item : i \in {j \in DOMAIN m.pool[p] : IsFirst(j, Idle(m, p))}}
  ELSE IF Len(m.pool[p]) < MaxNodes THEN {b \in Block : m.heap[b] = "free"}
  ELSE {}

\* The memory after cache_get has returned b.
CacheGotUnmarked(m, p, b) ==            \* deviation: handed out again unmarked
  IF Idle(m, p) # {} THEN m
  ELSE [m EXCEPT !.heap[b] = p, !.pool[p] = <<[item |-> b, used |-> TRUE]>> \o @]
CacheGotUnlinked(m, p, b) ==            \* deviation: a new node is not linked
  IF Idle(m, p) # {} THEN Marked(m, p, Idle(m, p), TRUE)
  ELSE [m EXCEPT !.heap[b] = p]
CacheGot(m, p, b) ==
  IF Idle(m, p) # {} THEN Marked(m, p, Idle(m, p), TRUE)
  ELSE [m EXCEPT !.heap[b] = p, !.pool[p] = <<[item |-> b, used |-> TRUE]>> \o @]

\* The memory after cache_back(p, b): the first node with this object is no
\* longer in use, whether or not it was.
NodesOf(m, p, b) == {i \in DOMAIN m.pool[p] : m.pool[p][i].item = b}
CacheBack(m, p, b) == Marked(m, p, NodesOf(m, p, b), FALSE)

\* os_zalloc and os_free, which know nothing of the pools.
Allocated(m, b, use) == [m EXCEPT !.heap[b] = use]
Freed(m, b) == [m EXCEPT !.heap[b] = "free"]

Becomes(m) == heap' = m.heap /\ pool' = m.pool

-----------------------------------------------------------------------------
PoolsInit ==
  /\ heap = [b \in Block |-> "free"]
  /\ pool = [p \in Pool |-> << >>]
  /\ held = [r \in Role |-> NoBlock]
  /\ lost = {}
  /\ phase = "waiting"
  /\ payload = "none"
  /\ kind = "none"
  /\ late = FALSE

\* msg_readMessage returns a message, with or without a payload.
Receive ==
  /\ phase = "waiting"
  /\ \E b \in CacheGet(memory, "message"), p \in {"none", "owned"} :
       /\ Becomes(CacheGot(memory, "message", b))
       /\ held' = [held EXCEPT !["received"] = b]
       /\ payload' = p
  /\ phase' = "handling"
  /\ UNCHANGED <<lost, kind, late>>

\* msg_decode gives up: it frees the message it got from the pool.
DecodeFails ==
  /\ phase = "waiting"
  /\ \E b \in CacheGet(memory, "message") :
       Becomes(Freed(CacheGot(memory, "message", b), b))
  /\ UNCHANGED <<held, lost, phase, payload, kind, late>>

\* A handler that keeps nothing: an awaited response, the answer to a
\* subscribe request, a type without a handler.
HandlePlain ==
  /\ phase = "handling"
  /\ phase' = "handled"
  /\ UNCHANGED <<heap, pool, held, lost, payload, kind, late>>

\* _c_rpcMsgHandle finds no entry and releases the message; the payload is
\* freed and the pointer to it stays in the message.
ReleaseUnawaited ==
  /\ phase = "handling"
  /\ Becomes(CacheBack(memory, "message", held["received"]))
  /\ payload' = IF payload = "owned" THEN "freed" ELSE payload
  /\ phase' = "handled"
  /\ late' = TRUE
  /\ UNCHANGED <<held, lost, kind>>

\* What reading data of encoding k may leave: the memory and the block.
DataRead(m, k) ==
  CASE k = "none"   -> {<<m, NoBlock>>}
    [] k = "bin"    -> {<<Allocated(m, b, "buffer"), b>> : b \in {c \in Block : m.heap[c] = "free"}}
    [] k = "string" -> {<<Allocated(m, b, "text"), b>> : b \in {c \in Block : m.heap[c] = "free"}}
    [] k = "extra"  -> {<<CacheGot(m, "extra", b), b>> : b \in CacheGet(m, "extra")}

\* What reading the context may leave: with or without extras.
CxtRead(m) ==
  {<<m, NoBlock>>} \cup {<<CacheGot(m, "extra", b), b>> : b \in CacheGet(m, "extra")}

\* _psitem_pubsubItemParseBin, up to _c_dispachPubsubItem.
ParseItem ==
  /\ phase = "handling" /\ payload = "owned"
  /\ \E k \in DataKinds, b \in CacheGet(memory, "item") :
       \E c \in CxtRead(CacheGot(memory, "item", b)) :
         \E d \in DataRead(c[1], k) :
           /\ Becomes(d[1])
           /\ held' = [held EXCEPT !["event"] = b, !["cxt"] = c[2], !["data"] = d[2]]
           /\ kind' = k
  /\ phase' = "dispatching"
  /\ UNCHANGED <<lost, payload, late>>

\* A field of the item cannot be read: the item is never given back.
ParseFails ==
  /\ phase = "handling" /\ payload = "owned"
  /\ \E b \in CacheGet(memory, "item") :
       /\ Becomes(CacheGot(memory, "item", b))
       /\ lost' = lost \cup {b}
  /\ phase' = "handled"
  /\ UNCHANGED <<held, payload, kind, late>>

\* The listener answers: _ctrl_respExtra takes an item of its own ...
ReplyBegins ==
  /\ phase = "dispatching" /\ held["reply"] = NoBlock
  /\ \E b \in CacheGet(memory, "item") :
       /\ Becomes(CacheGot(memory, "item", b))
       /\ held' = [held EXCEPT !["reply"] = b]
  /\ UNCHANGED <<lost, phase, payload, kind, late>>

\* ... and gives it back after client_publishPubsubItem.
ReplyEnds ==
  /\ held["reply"] # NoBlock
  /\ Becomes(CacheBack(memory, "item", held["reply"]))
  /\ held' = [held EXCEPT !["reply"] = NoBlock]
  /\ UNCHANGED <<lost, phase, payload, kind, late>>

\* extra_release and _c_pubsubItemRelease.  bb_release takes the data for a
\* byte buffer, whatever their encoding: it frees what their first word points
\* to and then the block itself, and the pool of extras does not learn of it.
ReleaseItem ==
  /\ phase = "dispatching" /\ held["reply"] = NoBlock
  /\ LET m1 == IF held["data"] = NoBlock THEN memory ELSE Freed(memory, held["data"])
         m2 == IF held["cxt"] = NoBlock THEN m1 ELSE CacheBack(m1, "extra", held["cxt"])
     IN Becomes(CacheBack(m2, "item", held["event"]))
  /\ held' = [held EXCEPT !["event"] = NoBlock, !["cxt"] = NoBlock, !["data"] = NoBlock]
  /\ kind' = "none"
  /\ phase' = "handled"
  /\ UNCHANGED <<lost, payload, late>>

\* The receive loop: the payload if there is one, then the message.
FreeReceivedTwice ==                    \* deviation: given back to the pool and freed
  /\ phase = "handled"
  /\ Becomes(Freed(CacheBack(memory, "message", held["received"]), held["received"]))
  /\ held' = [held EXCEPT !["received"] = NoBlock]
  /\ payload' = "none"
  /\ phase' = "waiting"
  /\ UNCHANGED <<lost, kind, late>>
FreeReceived ==
  /\ phase = "handled"
  /\ Becomes(Freed(memory, held["received"]))
  /\ held' = [held EXCEPT !["received"] = NoBlock]
  /\ payload' = "none"
  /\ phase' = "waiting"
  /\ UNCHANGED <<lost, kind, late>>

\* os_free is given the first word of a text or of extras, or a payload that
\* msg_release has freed already: that may end the program.  It may as well
\* go unnoticed, and ReleaseItem and FreeReceived go on.
FreeBreaks ==
  /\ \/ phase = "dispatching" /\ held["reply"] = NoBlock /\ kind \in {"string", "extra"}
     \/ phase = "handled" /\ payload = "freed"
  /\ phase' = "broken"
  /\ UNCHANGED <<heap, pool, held, lost, payload, kind, late>>

Running == phase # "broken"

\* msg_create_msg for a request, at any time: from a callback, a listener,
\* the timer or the program.
RequestBegins(c) ==
  /\ Running
  /\ held[c] = NoBlock
  /\ \E b \in CacheGet(memory, "message") :
       /\ Becomes(CacheGot(memory, "message", b))
       /\ held' = [held EXCEPT ![c] = b]
  /\ UNCHANGED <<lost, phase, payload, kind, late>>

\* msg_release after client_sendMessage.
RequestEnds(c) ==
  /\ Running
  /\ held[c] # NoBlock
  /\ Becomes(CacheBack(memory, "message", held[c]))
  /\ held' = [held EXCEPT ![c] = NoBlock]
  /\ UNCHANGED <<lost, phase, payload, kind, late>>

\* The caller returns without msg_release: an RPC without a callback, a
\* subscribe request that could not be sent.
RequestForgotten(c) ==
  /\ Running
  /\ held[c] # NoBlock
  /\ lost' = lost \cup {held[c]}
  /\ held' = [held EXCEPT ![c] = NoBlock]
  /\ UNCHANGED <<heap, pool, phase, payload, kind, late>>

\* The rest of the program allocates and frees memory of its own.
OtherAllocates(b) ==
  /\ Running
  /\ heap[b] = "free"
  /\ Becomes(Allocated(memory, b, "other"))
  /\ UNCHANGED <<held, lost, phase, payload, kind, late>>

OtherFrees(b) ==
  /\ Running
  /\ heap[b] = "other"
  /\ Becomes(Freed(memory, b))
  /\ UNCHANGED <<held, lost, phase, payload, kind, late>>

\* cache_get finds nothing and os_zalloc returns NULL: the callers give up
\* with an error and leave everything as it is.
OutOfMemory ==
  /\ Running
  /\ \E p \in Pool : CacheGet(memory, p) = {}
  /\ UNCHANGED poolsVars

PoolsNext ==
  \/ Receive \/ DecodeFails \/ HandlePlain \/ ReleaseUnawaited
  \/ ParseItem \/ ParseFails \/ ReplyBegins \/ ReplyEnds \/ ReleaseItem
  \/ FreeReceived \/ FreeBreaks \/ OutOfMemory
  \/ \E c \in Caller : RequestBegins(c) \/ RequestEnds(c) \/ RequestForgotten(c)
  \/ \E b \in Block : OtherAllocates(b) \/ OtherFrees(b)

PoolsSpec == PoolsInit /\ [][PoolsNext]_poolsVars

-----------------------------------------------------------------------------
\* Every variable has its type; the pools stay within the bound.
PoolsTyped ==
  /\ heap \in [Block -> Use]
  /\ pool \in [Pool -> Seq(Node)]
  /\ held \in [Role -> Block \cup {NoBlock}]
  /\ lost \subseteq Block
  /\ phase \in {"waiting", "handling", "dispatching", "handled", "broken"}
  /\ payload \in {"none", "owned", "freed"}
  /\ kind \in {"none", "bin", "string", "extra"}
  /\ late \in BOOLEAN

Owned == {held[r] : r \in Role} \ {NoBlock}

\* No response has come yet that nobody waits for.
Awaited == ~late

\* Two paths never hold the same block, and what a path holds is neither
\* forgotten by another nor memory that was freed or is used for something
\* else: the messages, items and extras of calls that are in progress at
\* the same time never share memory (cache_get, jm_mem.c:263), until the
\* first response that nobody waits for.
SoleOwner ==
  Awaited =>
  /\ \A r, s \in Role : held[r] = held[s] /\ held[r] # NoBlock => r = s
  /\ Owned \cap lost = {}
  /\ \A b \in Owned \cup lost : heap[b] \notin {"free", "other"}

\* What cache_get would hand out next is memory the pool still owns and that
\* nobody uses, although the receive loop frees messages without telling the
\* pool (jm_mem.c:280, jm_client_winsocket.c:112); a response that nobody
\* waits for breaks it.
IdleIsOwn ==
  Awaited =>
  \A p \in Pool : \A i \in Idle(memory, p) :
    LET b == pool[p][i].item
    IN heap[b] = p /\ b \notin Owned \cup lost

\* The pool an object comes from.
PoolOf(r) == IF r \in {"event", "reply"} THEN "item"
             ELSE IF r \in {"cxt", "data"} THEN "extra"
             ELSE "message"

\* Whatever arrives, and even after memory was released twice: what a path
\* will give back is in the list of its pool, so that cache_back finds it
\* (jm_mem.c:325-335).
BackFindsIt ==
  \A r \in Role :
    held[r] # NoBlock /\ (r = "data" => kind = "extra")
      => \E i \in DOMAIN pool[PoolOf(r)] : pool[PoolOf(r)][i].item = held[r]

=============================================================================
