# A verification of the JMicro C client

JMicro's C client (`src/src/`) runs on an ESP8266 or, for tests, on a PC. It
logs in to a JMicro server, calls services by RPC, publishes and subscribes to
topics, and lets the server control the device. It speaks a binary protocol
over TCP or UDP. Documentation is in the comments only, mostly Chinese.

This directory holds TLA+ modules of its stateful parts, configurations that
model-check them with TLC on small instances, and proofs that TLAPS checks.
`PROJECT.json` maps every definition to the source lines it stands for and
lists runs, hazards, theorems, and for each property a plausible bug (a
*deviation*: an operator marked so in its module) that breaks it.

## 1. The system

### Components

**RPC wait table and request sending** (`jm_client.c:27-94, 197-252, 474-628,
728-763`). State: `wait_for_resps`, a singly linked list of entries (id,
in-use flag, callback) that are reused and never freed; `sendBuf`, one
1024-byte ring shared by all messages; the message counter `msgId`.
`client_invokeRpc` claims an entry, sends and either keeps the entry (a
callback is owed) or gives it back; `_c_rpcMsgHandle` finds the entry of a
response, runs the callback and gives the entry back. Hard: late, repeated,
reordered and lost responses; callbacks that call `client_invokeRpc` again;
senders that fail before or after they took the bytes, which then lie in
`sendBuf` in front of the next message; ids cut to 32 bits; no timeout.
Correct when each accepted call hears its own response, once, and a failed
call hears nothing; when no entry is taken from under its call; when no request
goes out twice.

**Byte buffer** (`jm_buffer.c`). State: data, `rpos`, `wpos`, an EMPTY and a
FULL bit, a mark. Hard: `rpos = wpos` means empty or full; one length check
covers a byte loop that checks nothing or whose checks nobody looks at;
`bb_set_rpos` and `bb_set_wpos` move a position past the bits. Correct when it
is a bounded queue with a mark.

**Message framing and receive loops** (`msg_readMessage`, `msg_decode` in
`jm_msg.c`; `client_recv_one_loop`, `udp_client_recv_one_loop` in `testcase/`).
State: `readBuf`. Hard: chunks cut anywhere; the length is read ahead and the
reader put back; `readBuf` is cleared when a chunk does not fit; datagrams get
lost. Correct when messages come out whole, in order, once.

**Login session, listeners, timer** (`jm_client.c:103-195, 254-430, 1597-1672`,
`testcase/jm_main.c`). State: `loginCode`, `loginKey`, `actId`, `lastLoginTime`,
`lastActiveTime`, `lastSendHearbeatTime`, the table `loginLises` and its count.
Hard: timer, socket and program all log in; answers come late, for another
account, or without data; listeners change the table while it is walked.
Correct when the key belongs to the account, requests keep their distance, each
registered listener hears each login, the client logs in again by itself, and a
silent connection is pinged.

**Publish/subscribe** (`jm_client.c:36-60, 765-1258, 1609-1629`). State: the
list of topic maps, each with its listeners, the id of its last request and the
subscription id the server gave. Hard: answers to earlier requests;
subscriptions made before a login; failing requests; listeners that subscribe
twice; topics for local use. Correct when the subscription id is that of the
latest request, every remote topic is asked for after each login, local ones
never, and only listeners that want an item get it.

**Message codec and flags** (`jm_msg.c`, `jm_client.c:1082-1247, 1323-1550,
1912-2367`). Two encodings of typed values (extras in headers and items, RPC
parameters), the header, flag bits, items; the lists they are kept in. Hard:
length prefixes that change at 127; buffers of 128, 256 and 512 bytes that fill
up, and puts whose result nobody looks at; `extra_put`, which returns the head
of a shorter list when the key is there already. Correct when what the receiver
parses is what the sender passed, and when the receiver knows whom to answer.

**Object pools and hash map** (`jm_mem.c`, and every place that takes or gives
back). State: per type of object a list of nodes with a pointer and a `used`
mark, never shortened; a map of chained buckets with an iterator. Hard: the
receive loop frees with `os_free` what came from a pool; messages, items and
extras change owners on many paths; a chain grows in front of an iterator.
Correct when an object has one owner, an idle object is memory of its pool that
nobody uses, what is given back is found, and the map is a partial function.

**Remote control functions** (`user/jm_ctrl.c`). State: the map of registered
functions and their objects, with versions; what the server knows of them;
`sysCfg`, the account and device id, in memory and in flash. Items on
`TOPIC_P2P` call functions by name and are answered; after a login the device
asks for the server's versions and submits what is newer. Hard: messages that
are lost or overtake each other, functions that come and go meanwhile, versions
that are signed bytes in one place; restarts between change and save. Correct
when the registry holds live objects under their own names, when a call reaches
the function it names and its answer the one who asked, when the server ends up
with the registered functions, and when what is saved was asked for as a whole
and what was acknowledged is saved.

**Key/value client** (`jm_client.c`, `kv_*`). No state of its own but the
callback's context; values become text, in small arrays, and values again by
the type the server keeps. Correct when the text of a value stands for that
value and no memory but the array is written.

**PC harness threads** (`testcase/jm_main.c`, the two socket files). A thread
for the timer and one that receives share the client without a lock.
Correct as far as the code can be without a lock: no callback runs twice, and
the list stays one that every walk comes to the end of. That each call keeps
its entry and its bytes stay together does not hold (flaw 12).

**C library replacements** (`jm_stdcimpl.c`). Numbers to text and back by hand:
padding, signs, the smallest integer, buffers that end, texts without a NUL.
Correct when what was written is read back, whatever stood there before.

### How they interact

```
 program, jm_ctrl ──client_invokeRpc──► wait table ─► sendBuf ─► sender ─► network
        ▲   ▲                              ▲                              │
        │   └─────── callback ─────────────┤                              ▼
        │                            client_onMessage ◄─ msg_readMessage ◄─ readBuf
 login listeners ◄── _c_loginResult ◄──────┤ (dispatch by message type)
 topic listeners ◄── _c_pubsubMsgHandle ◄──┘
   │  └── jm_ctrl: functions by name ── answer ──► client_publish…
 timer ──► client_main_timer ──► client_login, heartbeat
```

`client_login` is a `client_invokeRpc` whose callback is `_c_loginResult`; that
runs the login listeners, of which `_c_subTopicAfterjmLogin` subscribes the
topics again and `jm_ctrl`'s makes further RPCs: callbacks nest. Messages,
items and extras come from the pools on every one of these paths.

## 2. Modules

| module | models | role |
|---|---|---|
| `RpcService` | what `client_invokeRpc` promises: unique ids, at most one callback, for the right response | abstract |
| `RpcWait` | `client_invokeRpc`, `client_sendMessage`, `_c_rpcMsgHandle`, `wait_for_resps`, `sendBuf`, the network | implements `RpcService` (proved) |
| `RpcThreads` | the same code in two threads, one shared access a step, error paths included | state machine |
| `RingOps` | positions, status bits, length checks of `byte_buffer_t`, as operators on a record | used by `ByteBuffer` and `MsgFraming` |
| `ByteFifo` | a bounded queue of bytes with a mark | abstract |
| `ByteBuffer` | every operation of the buffer, a step per byte | implements `ByteFifo` (proved) |
| `MsgFraming` | a ring of `RingOps`, both receive loops, `msg_readMessage` | composition |
| `Session` | login, listeners, timer, heartbeat, logout | state machine |
| `PubSub` | topic maps, requests and answers, re-subscription, dispatch | state machine |
| `Codec` | both encodings of typed values, strings, integers, as operators on writers and readers | used by the next |
| `Message` | one message from `client_invokeRpc` or `client_publishPubsubItem` through `msg_encode`, `msg_decode` and the UDP loop to the parser | state machine |
| `ObjectPools` | `cache_init`, `cache_get`, `cache_back`, and who holds messages, items and extras on the code's own paths | state machine |
| `HashMapOps` | the chains of `jm_hash_map_t`, as operators on a record | used by the next and `Ctrl` |
| `KeyedStore` | a partial function, removals that may be refused, a walk | abstract |
| `HashMap` | a map that is put to, removed from and walked | implements `KeyedStore` (proved) |
| `Ctrl` | the registry, its report to the server, the items that call | composition with the hash map |
| `DeviceConfig` | `bindDeviceId`: the change in memory, `cfg_save`, the answer; restarts | state machine |
| `NumText` | numbers as text, `jm_stdcimpl.c` | used by the next |
| `ValueText` | an array of characters that `jm_print`, `jm_sprintf` and `_kv_getStrVal` write and `jm_scan` and `_kv_getResult` read | state machine |
| `MC*` | symmetry sets and constants that are not model values | for TLC |
| `BufferProofs` | theorems about `RingOps`, `ByteBuffer`, `MsgFraming` | for TLAPS |
| `CtrlProofs` | theorems about `HashMap`, `Ctrl`, `DeviceConfig` | for TLAPS |
| `ClientProofs` | theorems about `Session`, `PubSub`, `ObjectPools` | for TLAPS |
| `CodecProofs`, `MessageProofs` | theorems about `Codec` and `Message` | for TLAPS |
| `*Proofs`, the three others | theorems about the module they are named after | for TLAPS |

### RpcWait

`pool` is `wait_for_resps`, oldest entry first; the code's list has the newest
first, hence *newest wins* (`IsNewest`). Each handler is one step, as in the
SDK's event loop. `_c_rpcMsgHandle` is two, `NotifyCaller` and
`FinishCallback`, because the callback may call `client_invokeRpc` in between;
`handling` is the entry it was found by. `InvokeSent`, `InvokeNotSent`,
`InvokeNoEntry` and `InvokeRefused` are the four ways through
`client_invokeRpc`; `NoSender`, `EncodeFails`, `SenderKeeps` and `SenderDrops`
say what a failed send leaves behind. `wire` is never shortened: a response may
come never, once or many times, in any order. `msg_encode` does not look at the
result of its last write, the payload: behind requests left in `sendBuf` a
request may go out cut short (`whole = FALSE`), and no answer comes to it.
In the code the last encoding error path clears `sendBuf` (`EncodeFails`).
`Pending`, `Running` and `Answered` are the refinement mapping: a call is
pending from its acceptance to the callback, running while it is `handling`.

### RpcThreads

A thread is at a place in `client_invokeRpc` or `_c_rpcMsgHandle`, and each
step makes one access to what is shared: the counter, the list's head, one
field of an entry, a message in `sendBuf`, the sender's reading of a length and
its taking of bytes. A read and the write that depends on it are two steps, so
the other thread may come between them; so are the steps of a walk along the
list, from the head to the entry. The error paths are there: no memory for an
entry, no sender, an encoder that gives up and resets `sendBuf`, a sender that
leaves its bytes there or sends a part of them; and calls without a callback,
which keep their entry. `entry` is every entry there ever was, also one that was
lost when two threads put theirs in front of the list at once. A thread that
comes upon a NULL callback stops there: the program ends. `msg_encode` puts a
message into `sendBuf` in one step, as one element. What the server makes of
bytes that were mixed is left open: any request of which something was sent
may be answered, and more than once.

### RingOps, ByteBuffer, MsgFraming

`Advance`, `GetRaw`, `PutRaw` are the positions and bits of `_bb_get_u8` and
`bb_put_u8`. `ByteBuffer` makes every byte of a multi-byte operation a step, so
the one check at its start can be wrong about the later bytes. `SetRposTo` and
`SetWposTo` are the two operations that move a position and leave the bits:
`moved` records whether they were used since the last reset, and whether from or
to the point where the positions meet, after which nothing can be said of the
bits; `markOpen` that a mark may still be returned to. In `MsgFraming`
a byte is its place in the peer's stream: the model knows which message every
byte of the ring belongs to, wherever a frame is taken from. When a frame does
not start at a message, the length is anything and the outcome is NULL or
something that passes for a message.

### Session

Clocks are ages counted up to `Interval` (both waits are 30000 ms). The code's
reading of a last login time of 0 as *never* is modelled (`atZero`). Requests
in flight are counted per account: `RpcWait` shows that each request is
answered at most once to the callback, and that is how `Session` uses it. Every
step of the loop over `loginLises` is an action, so that listeners can change
the table in between.

### PubSub

A map is known from the first subscription on and never deleted. The loop of
`_c_subTopicAfterjmLogin` takes a step per topic in any order. `wanted` is what
the listeners last asked for; `mark` the counter at the last login; `missed` the
topics whose request failed since. Its variables and the parts of its
specification have names of their own (`loginState`, `SubsInit`, `SubsSpec`), as
have those of `ObjectPools`, so that one module can prove theorems about them
and `Session`.

### Codec, Message

A writer is the bytes put so far and two flags: a put failed and was noticed
(`ok`), or failed and was not (`lost`); a reader is what is left, and `past`
for the places where the code reads or frees what is not there. A failed read
or put leaves its failure in the reader or writer, and what comes after it does
nothing: that is the code's early return. `Unasked` is a read that is not
tested, `PutUnchecked` a put that is not. Where the code calls itself for what
is inside a container, there is a function of the depth: an encoder goes as deep
as the value, `Depth` at most, and a decoder, which nothing tells how deep to
go, not deeper than it has bytes, since each call takes one at least. The eight
optional fields of an item are eight steps over a writer or a reader, each under
its bit of `dataFlag`. `Message`
follows one message: `asked` is what the program passed, `payload`, `wire` and
`got` are what became of it, so that the properties can compare the two ends.
`client_invokeRpc` passes on the first element of its list only; lists come out
of `extra_decode` reversed; binary data of an item arrives with its two length
bytes in front: the properties say so. The sender and the wait table are
`RpcWait`'s, the ring and the cutting of the stream `ByteBuffer`'s and
`MsgFraming`'s: here bytes come out as they went in.

### ObjectPools

Memory is a set of blocks of the C heap; a block that is freed may be allocated
again, for anything. A pool is a sequence of nodes, each with the block it
allocated and its mark. `held` says which path of the code (the receive loop,
the handler's event, context and data, a reply, the requests of an activity)
holds which block, `lost` what nobody holds any more. `late` records that a
response nobody waits for was released, the case that two of the properties
except. The data of an item are given to `bb_release` whatever they are: it
frees what their first word points to and then the block itself, without the
pool of extras. When `os_free` is given a first word that is no pointer, or a
payload that is gone, the program may end (`FreeBreaks`) or go on. A list of
extras stands as its head; extras in the `extraMap` of a received message are
leaked by `os_free` and not followed.

### HashMapOps, KeyedStore, HashMap

`arr` holds the chain of each bucket, newest first; a key is its hash. The
iterator's `next` and `behind` are the bucket it goes on with and what is left
of the chain it stands in. Nothing is removed during a walk: the one walk in
the code, `_ctrl_submitFuns`, removes nothing. In a chain of several items a
removal takes the address of the array's slot for an item (`jm_mem.c:106`) and
finds nothing: `KeyedStore` allows a removal to be refused, which is what
callers see. That the address lies outside the item, and what may be there, is
not modelled. `hashmap_release` has no callers.
`Stored` and `Rest` are the refinement mapping.

### Ctrl, DeviceConfig

`Ctrl` holds `functionItems` as a map of `HashMapOps`, and the objects it points
to: `allocated` are those the heap has given, `object` what each holds, or held
when it was freed. `Register`, `Unregister`, `Ask`, `OnVersions` (with the whole
of `_ctrl_submitFuns`) and `HandleItem` are the handlers; the server is external
and keeps the last version it was told. Messages between the two are sets, so
they overtake each other; `Lose` drops one. `Unregister` frees the object first
and then asks for the entry to be removed, which is refused where two names
share a bucket: the entry stays and what it points to may become another
function's, be used as it was, or end the program (`Breaks`, after which the
device starts again). `refused` are the names whose caller was told so, `again`
says that one of them was unregistered once more.

`DeviceConfig` has the three operations of `bindDeviceId`, each with its checks
in the code's order: a refused account comes after the device id was taken over
in memory, but before `cfg_save`. To receive a request and change what is in
memory is one step, since a restart undoes all of it; to save (`Save`) and to
answer (`Respond`) are two more, and `Restart`, which loads what was saved, comes
between any two. `acked` and `unanswered` are
what the peer knows: the last request answered without an error, and those
accepted since whose answer a restart took.

### NumText, ValueText

A text is a sequence of character codes. `jm_itoa`, `jm_xtoa`, `jm_print` and
`jm_sprintf` write, `jm_atoi` and `jm_scan` read; what passes the end of an
integer wraps. Nothing in the repository calls `jm_print`, `jm_sprintf` or
`jm_scan`; they are checked for themselves. Their `va_list` goes by value, so a
second conversion in one format reads the first argument again
(`jm_stdcimpl.c:825`): the module has formats of one conversion.
`ValueText` has the memory: `array` is what stands from the array's address on,
its old contents and what is behind it included. A text is put over the front
of it, with a NUL or, by `jm_sprintf`, without; a reader goes on until the text
ends, in what was there before if need be. The text that `_kv_getStrVal` makes
is read where it was made: it never gets to the server (flaw 10), so nothing is
said of `kv_add`, `kv_update` and `kv_get` as requests.

## 3. Runs

| run | instance | states | shows |
|---|---|---|---|
| `RpcWait` | 3 calls, 3 ids, 2 requests in `sendBuf`, fair | 27,224 | `CallbackContract` (a callback runs once at most, with its own response, never NULL), `NoCallerLost`, `TransmittedOnce`, `RunningEntryKept`; `EventuallyCalledBack`; `KeepsPromise`: `RpcService` is implemented |
| `RpcThreads` | timer 2 calls, receiver 1, every access and every failure | 1,391,571 | `CalledOnce`; `ListEnds`: no circle in `wait_for_resps` |
| `ByteBuffer` | ring of 4, operations of up to 3 bytes, 2 byte values | 147,904 | `StatusIsExact`, until a position is set from or to where the two meet; `IsFifo`: `ByteFifo` is implemented |
| `MsgFraming` | 3 messages of 2, 3 or 5 bytes, ring of 5 | 6,113 | `StreamPreserved`, `DatagramsStayAligned`, `CompleteMessageIsRead`, `StuckRingRecovers` |
| `Session` | 2 accounts, 3 listeners, 2 calls by program or socket, 2 requests in flight, fair | 163,899 | `KeyOfAccount`, `ListenersHeard`, `LoginSpacing`, `LoginRegained`, `IdleIsPinged` |
| `PubSub` | a topic and `TOPIC_P2P`, 2 listeners, 2 types, 3 messages | 275,443 | `SubIdIsLatest`, `AskedSinceLogin` (remote topics since each login, local ones never), `OnlyWantedServed` |
| `Message` | about 1100 parameters, 96 items, 8 lists of extras, 4 login keys | 56,658 | `MessageArrives` as it was sent, `ParamsArrive`, `ItemArrives` (and who sent by UDP can be answered); `NeverReadsPast` the end |
| `ObjectPools` | 5 blocks, 2 nodes a pool, 1 activity, 4 kinds of data | 237,782 | `SoleOwner`, `IdleIsOwn`, `BackFindsIt` |
| `HashMap` | 4 keys, 3 of them in one of 3 buckets | 10,102 | `WalkComplete`; `KeepsStore`: `KeyedStore` is implemented |
| `Ctrl` | 3 names, 2 of them in one bucket, 2 objects, 4 changes, 1 loss, fair | 258,662 | `EntriesLive`, `CallsByName`, `CatchesUp`, but for names that could not be removed |
| `DeviceConfig` | 4 device ids, 2 of a bad length, 3 accounts, restarts between any two steps | 25,664 | `SavedTogether`, `AckedIsSaved` |
| `ValueText` | all 5-bit numbers in 6 formats, values of 7 types, 2 texts one over the other, 3 old contents | 95,916 | `ReadsBack`, `ValuesComeBack`, `StaysInArray` |

Type invariants are proved (section 4), not run, where a module has proofs.

### Bounds

- `MaxMsgs` bounds ids. An entry is reused when a second call follows an
  answered first, and a late response to the first then meets the second's
  entry: 3 ids reach this with another message, or a waiting third call, beside
  it. (4 ids hold too, in ten times the time.) `SendCap = 2`
  lets one request lie in front of another and be cut short. The wrap of 32-bit
  ids is out of reach of a run: the assumption `IdsFit` names it.
- A ring of 4 with operations of 3 bytes wraps in every alignment, fills, and
  drains. In `MsgFraming` the largest message fills the ring exactly and the
  smallest is a header only; a chunk may hold parts of three messages.
- `Interval = 2` ticks distinguishes just sent, not yet and due. Two accounts
  and two requests in flight let an answer to the first account's request come
  after a request of the second. Three listeners fill the three slots.
- Three subscribe messages give a request, its repetition by a login and a
  late answer to the first; two listeners give the head and one behind it, the
  two cases of `client_unsubscribe`. Listeners are symmetric: the code compares
  them only for equality.
- `Message`: all pairs of values of each type in each container; strings of
  0, 1, 126, 127, 128, 255, 256 and 300 bytes, where a prefix or a sign changes;
  lists of extras that fill their 512 bytes but one, exactly, and not at all;
  nested lists that end one by one past the 128 bytes for parameters. `Depth`
  is 2, lists in a list in a container. The sizes of the buffers are the code's.
- `ObjectPools`: five blocks are an event with its context and data, a message
  and one more that something else may get when the message was freed. Two
  nodes make a walk that passes one.
- `HashMap`: chains of up to three, a bucket that stays empty, a walk that stands
  in a chain that grows. Removal in a chain of several and in one of one.
- `Ctrl`: a function with a bucket of its own and two that share one; two
  objects, so that a freed one becomes another function's; four registrations or
  removals: two into one bucket, one refused removal, one that takes the freed
  object. One message lost (`MaxLosses`), one under way at a login. Versions stay
  below 128 (see *Flaws*).
- `RpcThreads`: two calls of the timer's thread and one of the receiver's give
  a new entry and a reused one, each with the other thread anywhere inside.
- `ValueText`: two texts, so that what is left of the first stands behind the
  second. `Word = 32`, `StrSize = 3` and `Size = 6` are the 32 bits, the nine
  characters and a printer's buffer scaled down, such that fitting, cut and
  overrunning texts exist. The old contents are zeros, digits, and letters that
  hexadecimal numbers are made of, with an x behind a text of two.
`CHECK_DEADLOCK FALSE` is set where ids, messages, bytes or calls run out: then
the instance has simply done all it may do. In `ObjectPools` and `RpcThreads`
the program may also have ended.

### Fairness

- `RpcWait`: strong fairness of *the response to this request arrives* for each
  request transmitted whole, weak fairness of leaving a callback. This is the
  assumption that the network brings every response and callbacks return; the
  client does nothing to bring it about (there is no timeout, no retry), and
  the run says what the table does when it holds. Strong, because a callback
  that is running keeps a response from being handled.
- `MsgFraming`: weak fairness of receiving while there is something to receive
  and of the loop that reads: both are loops of the harness without a wait.
- `Session`: stated with its `FairSpec`: the timer keeps firing, time passes,
  and loops over listeners end, which the SDK's timer and the single event loop
  give; a login request sent again and again is at some time answered well.
- `Ctrl`: weak fairness of the server's report, of its saving and of the
  client's handling of a report: what is under way and was not lost arrives.
  Nothing makes the device log in: `CatchesUp` speaks of the behaviours in
  which it does again and again, since no submission is repeated otherwise.

### Flaws the models show

The models do what the code does, and the properties say by a premise or an
exception where it does not do what it should. Those exceptions are:

1. `bb_set_rpos` and `bb_set_wpos` leave the status bits as they are
   (`jm_buffer.c:147-157`), which is wrong where the positions meet or met
   (`moved = "across"`). A message that fills `readBuf` exactly is not read
   for that reason (`jm_msg.c:1526`, against
   `test_jm_client.c:80`): the length peek clears FULL, `bb_set_rpos` does not
   set it again, and the ring is neither full nor empty. The next chunk brings
   the reader out of it (`StuckRingRecovers`), at the price of that chunk.
2. `loginCode` becomes 0 before the answer to a login is looked at: an answer
   without `data` leaves it at success with no key and no listener called
   (`jm_client.c:260, 292`). A late answer brings the key of an account that is
   no longer the client's (`KeyOfAccount`, by `tainted`).
3. `client_registLoginListener`'s test for a listener that is there compares
   with empty slots only (`jm_client.c:336`): it may be registered twice.
4. `rm` of a topic map keeps a topic from being *subscribed* at the server, but
   forwarded items are served all the same (`jm_client.c:1058`, comment on 43).
5. A string of 128 bytes or more in the extras of a message is cut or lost
   (`jm_msg.c:545`, `jm_client.c:2317`): its length goes through a signed byte
   although there are prefixes for longer ones. Extras that fill their buffer
   exactly are reported as none; an item of more than 256 bytes is sent without
   payload; a length that is refused at the end of a full buffer is missing.
6. The UDP loop notes whom to answer in the message, and loses it again when the
   message already had an `UDP_ACK` (`test_udp.c:99` with `extra_put`).
7. A response nobody waits for is released by `_c_rpcMsgHandle` and freed again
   by the receive loop (`jm_client.c:733`, `jm_client_winsocket.c:112`). The
   string or the extras of an item are released as a byte buffer
   (`jm_client.c:780-781`, `jm_buffer.c:278-291`): `os_free` gets their first
   word, and a pooled block.
8. `hashmap_remove` finds nothing in a chain of several (`jm_mem.c:106`).
   `ctrl_unregist` has then freed a function whose entry stays
   (`jm_ctrl.c:97`), and with 20 buckets any two names may share one. To
   unregister such a name once more frees its object again, which may be
   another function by then (`again`).
9. Versions from 128 on are negative where they are compared (`jm_ctrl.c:370`);
   the loop that should delete functions that are gone never runs
   (`jm_ctrl.c:379`); `extra_release` does not follow the list (`jm_ctrl.c:332`).
   A comment gives operation 1 for binding, the code binds on 3
   (`jm_ctrl.c:514`, `532`), and keeps the length of the id in eight bits (`542`).
10. `kv_add` and `kv_update` link name, value and type to a list, but
    `client_invokeRpc` encodes its first element only (`jm_client.c:576`): value
    and type are never sent, which the comment on 1732 has stored as text.
    `_kv_getResult` follows a variable that it never sets
    (`jm_client.c:1770`). Texts of numbers overrun nine characters
    (`jm_client.c:1733`); a long is cut to 32 bits, since `jm_itoa` takes an
    unsigned int (`jm_client.c:1691`). `test_devicedata.c:34` passes
    `kv_update` its value and description exchanged.
11. `jm_print` writes the sign behind padding zeros, and wrong digits for the
    smallest integer (`jm_stdcimpl.c:612`). `jm_sprintf` never writes a NUL
    (`jm_stdcimpl.c:56-220`): a text that stands in front of digits is read as
    a longer number.
12. The two threads of the PC program share the client without a lock
    (`jm_main.c:96`): both may take one idle entry or one message id, one may
    lose the other's new entry, take bytes of the other's out of `sendBuf`, or
    reset it under the other's message. A response may then find an entry whose
    callback is NULL, and line 747 calls it. What is left of the contract is
    `CalledOnce` and `ListEnds`.

## 4. Proofs

TLAPS proves, for all values of the constants:

| module | theorems | assumptions |
|---|---|---|
| `RpcWaitProofs` | `WaitTypeOK`, `WaitCallbackContract`, `WaitNoCallerLost`, `WaitRunningEntryKept`, `WaitTransmittedOnce`, `WaitKeepsPromise` | `NoCallIsNoCall` (NULL is not a callback), `MaxMsgsIsNat`, `SendCapPositive`, `IdsFit` (fewer than 2^32 messages: beyond them a response finds another call's entry) |
| `RpcThreadsProofs` | `ThreadsCalledOnce`, `ThreadsListEnds` | `ThreadsAssumption` |
| `BufferProofs` | lemmas on a ring of any size; `BufferTypeOK`, `BufferStatusIsExact`, `BufferNoByteDropped`, `BufferIsFifo` | `CapPositive`, `ZeroIsByte`, `MaxOpIsNat` |
| `BufferProofs` | `FramingStreamPreserved`, `FramingDatagramsStayAligned`, `FramingCompleteMessageIsRead` | the first two, `HeaderHoldsLength`, `MessagesFitRing`, and `BytesArePlaces`, which only says what a byte is in the model |
| `ClientProofs` | `PoolsTypeOK`, `PoolsSoleOwner`, `PoolsIdleIsOwn`, `PoolsBackFindsIt` | `PoolsAssumption` (NULL is no block) |
| `CtrlProofs` | `MapWalkComplete`, `MapKeepsStore` | `HashMapAssumption` (a hash is a number, NULL no value) |
| `CtrlProofs` | `CtrlEntriesLive`, `CtrlCallsByName` | these and `CtrlAssumption` (versions are bytes): any names, any buckets |
| `CtrlProofs` | `ConfigTypeOK`, `ConfigSavedTogether`, `ConfigAckedIsSaved` | `ConfigAssumption` (lengths of 1 to 255) |
| `ClientProofs` | `SubsTypeOK`, `SubsSubIdIsLatest`, `SubsAskedSinceLogin`, `SubsOnlyWantedServed` | `P2PIsTopic`, `ZeroIsEveryType`, `BoundsAreNat` |
| `ClientProofs` | `SessionTypeOK`, `SessionKeyOfAccount`, `SessionListenersHeard`, `SessionLoginSpacing` | `AccountsAreNot0`, `ListenersAreFunctions`, `SizesAreNat` |
| `CodecProofs` | `ParamRoundTrip`, `ExtrasRoundTrip` | `NullIsNothing`, `DepthIsNat` |
| `MessageProofs` | `MessageInvariant`, `MessageAlwaysArrives`, `ParamsAlwaysArrive`, `ItemsAlwaysArrive`, `NeverAnyReadPast` | these; `CapsFit` (the buffers have the order of sizes that the code's have: extras at most 513 bytes, a message room for its parts), `InputsTyped` (values are of their types, no two extras of a header have one key) |
| `ValueTextProofs` | `NumbersReadBack`, `ValuesAlwaysComeBack`, `TextStaysInArray` | `WordAssumption` (an int of an even number of values, formats of the letters d, u, x and X); `ValueTextAssumption` (the memory holds numbers, a number type has an even number of values) |

**The wait table.** `CallbackContract` is not inductive: it says nothing of the
entries, and a response finds its entry by id alone. The invariant adds: every
id in `wire` or `sendBuf` was given out (`SentIds`), so a response never
carries the id 0 of idle entries; calls have ids of their own (`CallIds`); an
entry without a callback has id 0, an entry with one carries the id of that
call, which is accepted and, unless the entry is being handled, has heard
nothing, and no two entries have the same callback (`EntriesKept`); and every
accepted call that has heard nothing has an entry (`EachOwed`). With `Trunc`
the identity below 2^32, the entry a response finds is that of its call, and it
is found once because leaving the callback clears the id. `TransmittedOnce`
needs another: along `wire` followed by `sendBuf` the ids rise, whatever a
failed send dropped or kept in between, and what was reported as sent is in
`wire` (`Ordered`). For `WaitKeepsPromise` each action maps to a step of
`RpcService` or to a stutter under the same invariant.

**The buffer.** `StatusExact` says that at `rpos = wpos` exactly one bit is
set and elsewhere neither; readable and writeable lengths then add up to the
capacity. A position that is set by hand keeps it as long as the two meet
neither before nor after (`StatusIsExact`). `OpCovered` carries the length
check into the loop: what is left of a write still fits, what is left of a read
is still there. `MarkExact` says that going back to a mark gives exact bits as
long as nothing was written in between; it is what makes `bb_rmark_reset`
preserve the rest. For `BufferIsFifo` the content of a ring is the sequence of
bytes from `rpos` on, as many as can be read: a put appends to it, a get takes
its head, and a mark keeps its content because what was read is not overwritten
before the mark is gone.

**The framing.** The bytes of a ring are places in the peer's stream, so
`Held` can say what is in it: the bytes behind `taken` up to `got`, by the same
description of a ring's content. The exception is a ring jammed between full
and empty after a length was read from a full one (flaw 1); a chunk never fits
it, so the only way out is the clearing. As long as nothing was lost, what came
out is message 1, 2, and so on, and `taken` is the end of the last (`InOrder`);
that a length is read whole from two bytes of the header, and that a message
fits the ring, makes each read a whole one. With datagrams, what is lost is
lost as a whole: `got` and `taken` are ends of messages always (`AtEnds`).

**The threads.** `CalledOnce` holds because a call is written to one entry,
once, and is heard of by one read of it (`OneEntry`, `HeardOnce`): only its own
thread writes it, and the receiver clears it before it looks at another
response. `ListEnds` is by a rank: there is always a ranking of the entries in
which each is above its next (`Ranked`), although no thread knows of it, and so
every set of entries has one of lowest rank, whose next is not in it. A thread
that links the entry it allocated may rank it above everything (`LinkNext`),
because nobody else has that entry and nothing leads to it yet (`FreshAlone`,
and `Held` in `Ranked`); giving it the head, or losing another's, changes no
`next`.

**The pools.** What is in use, by a path or for ever, is memory of its pool and
apart from what is idle, idle nodes have memory of their own (`Fits`); the
receive loop holds what its phase says (`PhaseFits`). `InLists`: what a path holds is in a node of its pool,
and nodes stay, so `cache_back` finds it. All this is under
`Awaited`: no response has come that nobody waited for, which once untrue stays
so. Extras that `bb_release` frees behind their pool's back stay marked in it,
as messages do that the receive loop frees: that is why they do no harm to the
pools. The types hold beyond it, and have an invariant of their own.

**The map.** Every key stands in its own bucket (`Filed`), once (`Once`); the
iterator stands on an item or before the first (`Fits`); every key that was
there when the walk began was visited, is behind in the iterator's chain, or in
a later chain (`AllMet`). A key put during the walk goes in front of the
iterator's chain, so nothing due moves. `Once` is why a value replaced is the
only one, and why each step of the walk is a `Visit`.

**The registry.** `EntriesServe`: what the first entry of a name stands for is
allocated and has that name, but for the names in `refused`, and those are
still there. Two names that are served never share an object, because it has one
name: so `ctrl_unregist` of one frees nothing of the other. A removal is refused
without a change of the map, and the name joins `refused`; a name that is removed
leaves the others as they were, whatever the buckets (`Good` of the map is kept
by the map's own lemmas). To unregister a refused name once more frees an
object that may be another's: from then on (`again`) nothing is claimed, until
the device starts again.

**The configuration.** `InHand`: what is about to be saved is what the request
in hand asks for and one of the pairs given, and what is about to be answered
without an error is in the flash. A request that is refused after the device id
was taken over never gets to `Save`; a restart before it leaves the flash alone,
and one after it moves the request to `unanswered`.

**The subscriptions.** A request is no younger than the one its map remembers;
a subId a map was given is the id of that request (`RequestsFit`, `MapsFit`);
the loop after a login has only remote topics left (`TodoFits`); since the
login, every topic that is not still to come and did not fail has a request
(`SinceLogin`). A list of listeners has each of them once, with the type it last
asked for (`ListsFit`), whatever `SelectSeq` and `Remove` take from it; who is
served is in such a list.

**Values as text.** What `jm_itoa` writes `jm_atoi` reads back: the last
digit of a number and the digits of its tenth (`DigitsIs`), by induction, in
base 10 as in 16 and behind any zeros; and `Signed` undoes `Unsigned`, so a
negative number survives being written as an unsigned one. A text that is
spaces, a sign and digits, with none behind them (`Shape`), is read to its end
(`ShapeRead`), and whatever the padding, `jm_print` and `jm_sprintf` write one
(`PaddedForm`); behind it stands a NUL, or what was there before, which does
not go on with a digit: hence `ReadsBack`. `StaysInArray` follows from the
lengths of the texts: what `Cut` leaves of one and its NUL fit in `Size`.

**The session.** The clock of the last login is never older than the last
request (`Spacing`), which is why `client_login`'s test keeps requests apart;
`llCnt` counts the slots in use (`Counted`, with the library's theorems on
finite sets), so that a free slot is found when the test says so; a listener
that is owed a call is in a slot that the loop has still to come to
(`OwedAhead`).

**The codec.** An encoder makes of a writer one that has grown (`Grown`): the
same bytes and more behind them, still in bounds, a loss never forgotten. What
was written early is thus still there at the end, and a string of bytes `s` that
starts with what a writer has written (`Held`) is what the reader may be given
before anybody knows what comes behind. For each kind of value one lemma says
that the decoder, standing in `s` where the encoder began, ends where the
encoder ended, with what the value arrives as; by induction over the length of a
list it holds for lists, and by induction over the depth for lists in lists
(`ParamComesBack`, `ExtrasComeBack`). A put that was refused unseen (`lost`) is
the reason for two cases. It is refused only when less than two bytes are free,
so `s` ends within a byte or so of that place, and the decoder fails there
instead of taking something else for a value. A string that is too long for its
signed length byte is left out or cut by the encoder, and the decoder still ends
where the encoder did: hence the extras beside it are what they were.

**The message.** `MessageInv` is the history of the message: at each stage, what
there is was made from what the program asked for by the steps that lead there,
and each part has its type and fits its buffer. With it the properties become
facts about the codec. `MessageArrives`: a header is 13 bytes, and what
`extra_encode` reports is what it wrote unless the buffer is full; then flags
and extras come back, and the payload is as long as the header says less what
the extras took. `ItemArrives`: each of the eight fields is read where it was
written, if its bit is set, and left alone if not (`FieldStep`, `FieldsAreRead`);
and the keys for the reply are put in the context without disturbing the others.

`NeverReadsPast` needs more, since it speaks also of what was not sent whole:
extras that fill their buffer exactly are reported as none (flaw 5), the length
in the header is then too small, and the payload would be read from amid the
extras. The proof is that no payload is left. With nothing behind them the
extras are read to the last byte (`ExtrasAreUsed`). A decoder that is given more
bytes behind the same ones does what it does without them, unless it comes to
the end of the first ones (`CallsBeside`, by induction over calls in calls); so
with the payload behind them `extra_decode` takes all of the extras, at least
(`DecodeBeyond`), which is no less than the length in the header
(`NoPayloadLeft`), and a message without payload is not parsed.

Recursive functions (`Reached`, `End`, `PutFrom`, `GetMany`, `Digits`,
`ValueOf`, `PutInner`, the calls of the decoders) are reasoned about by induction over a set of numbers: the set of
those for which a fact holds has a least missing number, by the library's
`WFMin`, or all. The library's induction theorems themselves have an operator
as a parameter, which no prover here can instantiate.

All invariants and all action properties of the runs are proved. Only
model-checked is liveness (`EventuallyCalledBack`, `StuckRingRecovers`,
`LoginRegained`, `IdleIsPinged`, `CatchesUp`), which TLAPS does not reach.

`CodecProofs` and `MessageProofs` are as long as the other six together; `tlapm`
takes some twenty minutes for them with four cores, from nothing.

## 5. Not modelled

- Wrap buffers, which nothing makes; flags that nothing sets; lengths of 32767
  bytes and more, which fit no buffer; `extra_sputByType`.
- A listener that unsubscribes itself while it is called (`jm_client.c:1069`):
  none in the repository does.
- Functions of `jm_ctrl.c` that nobody registers (`jmInfo`, `ctrlGpio`,
  `sysInfo`, `about`, `restartSystem`), and the LED.
- The requests of `kv_add`, `kv_update`, `kv_get` and `kv_delete`, of which only
  the first parameter is sent (flaw 10); `RpcWait` has what becomes of a request.
- What lies at the address that `hashmap_remove` reads outside an item
  (`jm_mem.c:106`): the removal is refused.
- `jm_strtod`, strings and characters in formats, `jm_stdio.c`, memory
  wrappers: no state, and outside the integers TLC computes with.
- Two threads inside one `msg_encode` or `bb_get_bytes`, byte by byte; the wrap of 32-bit ids.
- Configuration headers and the test programs, which were read for what they
  expect of the client. On the ESP8266 the SDK, on the PC the sockets, are seen
  through what the client does with them.

There is no timeout (`jm_client.c:213`), and a call without a callback keeps its
entry for ever (`jm_client.c:615`): no property asks otherwise.

## 6. What is left

The order of the work was: what everything shares first (`RpcWait`,
`ByteBuffer`), then what is built on it (`MsgFraming`, `Session`, `PubSub`,
`Message`), then the memory and the parts at the edge (`ObjectPools`,
`HashMap`, `Ctrl`, `DeviceConfig`, `ValueText`, `RpcThreads`); proofs follow the
runs. Left are:

1. `PubSub` and `Message` composed, so that an item that cannot be parsed is
   seen beside the maps it is not dispatched to.
2. The ownership of extras beyond the heads of lists.
