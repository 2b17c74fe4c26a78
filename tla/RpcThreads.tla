----------------------------- MODULE RpcThreads -----------------------------
(***************************************************************************)
(* client_invokeRpc and _c_rpcMsgHandle as the program for PCs runs them   *)
(* (testcase/jm_main.c): the timer is a thread of its own beside the one   *)
(* that receives, and nothing locks the counter msgId, the list            *)
(* wait_for_resps or sendBuf.  Each step below makes one access to what    *)
(* the threads share; RpcWait is the same code run by one event loop.      *)
(*                                                                         *)
(* A call is a pair of its thread and a number.  What the server makes of  *)
(* requests whose bytes were mixed in sendBuf is left open: it may answer  *)
(* any request of which something was sent, and more than once.  cbArg is  *)
(* not told from the callback it belongs to.                               *)
(***************************************************************************)
EXTENDS Naturals, Sequences, SequencesExt

CONSTANTS
  Thread,    \* the threads that call client_invokeRpc
  Receiver,  \* the one that handles the responses
  MaxCalls   \* bound of the model: how many calls each thread makes

ASSUME ThreadsAssumption ==
  /\ Receiver \in Thread
  /\ MaxCalls \in [Thread -> Nat]

Call == UNION {{t} \X (1 .. MaxCalls[t]) : t \in Thread}
NoCall == <<>>

VARIABLES
  msgId,     \* the counter of jm_msg.c
  entry,     \* the entries of wait_for_resps that were ever allocated
  head,      \* wait_for_resps: the first entry, 0 for NULL
  sendBuf,   \* the requests with bytes in sendBuf: the call and the id of each
  wire,      \* the requests of which something was sent
  pc,        \* the next step of each thread in client_invokeRpc
  made,      \* the number of each thread's call
  id,        \* msg->msgId of each thread's call; before, the counter it read
  at,        \* the entry each thread looks at or has claimed
  len,       \* the length the sender read from sendBuf
  out,       \* what the sender took out of it
  stage,     \* how far the receiver has come with a response
  resp,      \* the id in that response
  found,     \* the entry it looks at for it, or has found
  heard      \* how often the callback of each call was called

shared == <<msgId, entry, head, sendBuf, wire>>
local == <<made, id, at, len, out>>
receiving == <<stage, resp, found, heard>>
vars == <<msgId, entry, head, sendBuf, wire, pc, made, id, at, len, out,
          stage, resp, found, heard>>

-----------------------------------------------------------------------------
Init ==
  /\ msgId = 0 /\ entry = << >> /\ head = 0 /\ sendBuf = << >> /\ wire = {}
  /\ pc = [t \in Thread |-> "idle"]
  /\ made = [t \in Thread |-> 0]
  /\ id = [t \in Thread |-> 0]
  /\ at = [t \in Thread |-> 0]
  /\ len = [t \in Thread |-> 0]
  /\ out = [t \in Thread |-> << >>]
  /\ stage = "waiting" /\ resp = 0 /\ found = 0
  /\ heard = [c \in Call |-> 0]

Now(t, here, next) == pc[t] = here /\ pc' = [pc EXCEPT ![t] = next]
Current(t) == <<t, made[t]>>
Returned(t) == id' = [id EXCEPT ![t] = 0] /\ at' = [at EXCEPT ![t] = 0]

\* msg_create_msg: ++msgId is a read and a write.  The receiver makes its calls
\* while it waits or in the callbacks it runs.
ReadId(t) ==
  /\ Now(t, "idle", "counting")
  /\ made[t] < MaxCalls[t]
  /\ t = Receiver => stage \in {"waiting", "called"}
  /\ made' = [made EXCEPT ![t] = @ + 1]
  /\ id' = [id EXCEPT ![t] = msgId]
  /\ UNCHANGED <<shared, at, len, out, receiving>>

NextId(t) == id[t] + 1
WriteId(t) ==
  /\ Now(t, "counting", "starting")
  /\ msgId' = NextId(t)
  /\ id' = [id EXCEPT ![t] = NextId(t)]
  /\ UNCHANGED <<entry, head, sendBuf, wire, made, at, len, out, receiving>>

\* _c_createRpcWaitForResponse: the walk along the list, entry by entry.
StartWalk(t) ==
  /\ Now(t, "starting", "walking")
  /\ at' = [at EXCEPT ![t] = head]
  /\ UNCHANGED <<shared, made, id, len, out, receiving>>

Walk(t) ==
  /\ pc[t] = "walking" /\ at[t] # 0
  /\ IF entry[at[t]].used
     THEN at' = [at EXCEPT ![t] = entry[@].next] /\ UNCHANGED pc
     ELSE Now(t, "walking", "claimed") /\ UNCHANGED at
  /\ UNCHANGED <<shared, made, id, len, out, receiving>>

\* No entry was idle: os_zalloc makes one, or fails and with it the call.
NewEntry == [used |-> TRUE, id |-> 0, call |-> NoCall, next |-> 0]
AllocateHeads(t) ==              \* deviation: the head of the list already here
  /\ at[t] = 0
  /\ Now(t, "walking", "testing")
  /\ entry' = Append(entry, NewEntry)
  /\ at' = [at EXCEPT ![t] = Len(entry')]
  /\ head' = Len(entry')
  /\ UNCHANGED <<msgId, sendBuf, wire, made, id, len, out, receiving>>
Allocate(t) ==
  /\ at[t] = 0
  /\ Now(t, "walking", "testing")
  /\ entry' = Append(entry, NewEntry)
  /\ at' = [at EXCEPT ![t] = Len(entry')]
  /\ UNCHANGED <<msgId, head, sendBuf, wire, made, id, len, out, receiving>>

AllocateFails(t) ==
  /\ at[t] = 0
  /\ Now(t, "walking", "idle")
  /\ Returned(t)
  /\ UNCHANGED <<shared, made, len, out, receiving>>

\* It is put in front: wait_for_resps is tested, read and written, each once.
TestHead(t) ==
  /\ Now(t, "testing", IF head = 0 THEN "heading" ELSE "linking")
  /\ UNCHANGED <<shared, local, receiving>>

LinkNext(t) ==
  /\ Now(t, "linking", "heading")
  /\ entry' = [entry EXCEPT ![at[t]].next = head]
  /\ UNCHANGED <<msgId, head, sendBuf, wire, local, receiving>>

LinkHead(t) ==
  /\ Now(t, "heading", "claimed")
  /\ head' = at[t]
  /\ UNCHANGED <<msgId, entry, sendBuf, wire, local, receiving>>

\* client_invokeRpc writes the entry, one field after the other, for a call
\* with a callback; for one without it writes none.
WriteNothing(t) ==
  /\ Now(t, "claimed", "encoding")
  /\ UNCHANGED <<shared, local, receiving>>

WriteEntryId(t) ==
  /\ Now(t, "claimed", "numbered")
  /\ entry' = [entry EXCEPT ![at[t]].id = id[t]]
  /\ UNCHANGED <<msgId, head, sendBuf, wire, local, receiving>>

WriteCallback(t) ==
  /\ Now(t, "numbered", "written")
  /\ entry' = [entry EXCEPT ![at[t]].call = Current(t)]
  /\ UNCHANGED <<msgId, head, sendBuf, wire, local, receiving>>

WriteUsed(t) ==
  /\ Now(t, "written", "encoding")
  /\ entry' = [entry EXCEPT ![at[t]].used = TRUE]
  /\ UNCHANGED <<msgId, head, sendBuf, wire, local, receiving>>

\* client_sendMessage: no sender is set, or msg_encode into sendBuf, which may
\* fail and resets sendBuf then, whoever's bytes are in it.
NoSender(t) ==
  /\ Now(t, "encoding", "failed")
  /\ UNCHANGED <<shared, local, receiving>>

Encode(t) ==
  /\ Now(t, "encoding", "sending")
  /\ sendBuf' = Append(sendBuf, <<Current(t), id[t]>>)
  /\ UNCHANGED <<msgId, entry, head, wire, local, receiving>>

EncodeFails(t) ==
  /\ Now(t, "encoding", "failed")
  /\ sendBuf' = << >>
  /\ UNCHANGED <<msgId, entry, head, wire, local, receiving>>

\* The sender reads how much there is in sendBuf, takes as much out of it, and
\* sends it.  It fails when there is nothing or no longer as much, when there
\* is no memory, and when the socket does, after any part of the bytes.
ReadLength(t) ==
  /\ \/ /\ Now(t, "sending", "taking")
        /\ sendBuf # << >>
        /\ len' = [len EXCEPT ![t] = Len(sendBuf)]
     \/ Now(t, "sending", "failed") /\ UNCHANGED len
  /\ UNCHANGED <<shared, made, id, at, out, receiving>>

Take(t) ==
  /\ Now(t, "taking", "transmitting")
  /\ len[t] <= Len(sendBuf)
  /\ out' = [out EXCEPT ![t] = SubSeq(sendBuf, 1, len[t])]
  /\ sendBuf' = SubSeq(sendBuf, len[t] + 1, Len(sendBuf))
  /\ len' = [len EXCEPT ![t] = 0]
  /\ UNCHANGED <<msgId, entry, head, wire, made, id, at, receiving>>

TakeFails(t) ==
  /\ Now(t, "taking", "failed")
  /\ len[t] > Len(sendBuf)
  /\ len' = [len EXCEPT ![t] = 0]
  /\ UNCHANGED <<shared, made, id, at, out, receiving>>

Transmit(t) ==
  /\ Now(t, "transmitting", "idle")
  /\ wire' = wire \cup ToSet(out[t])
  /\ out' = [out EXCEPT ![t] = << >>]
  /\ Returned(t)
  /\ UNCHANGED <<msgId, entry, head, sendBuf, made, len, receiving>>

TransmitFails(t) ==
  /\ Now(t, "transmitting", "failed")
  /\ \E k \in 0 .. (Len(out[t]) - 1) :
       wire' = wire \cup ToSet(SubSeq(out[t], 1, k))
  /\ out' = [out EXCEPT ![t] = << >>]
  /\ UNCHANGED <<msgId, entry, head, sendBuf, made, id, at, len, receiving>>

-----------------------------------------------------------------------------
(* _c_rebackRpcWaitRorResponse: three fields of the entry, one after the   *)
(* other, by the caller whose send failed or by the receiver.              *)
Unused(e) == [e EXCEPT !.used = FALSE]
UncalledKeeps(e) == e                    \* deviation: callback = NULL is missing
Uncalled(e) == [e EXCEPT !.call = NoCall]
Unnumbered(e) == [e EXCEPT !.id = 0]

GiveBack(t) ==
  /\ \/ /\ Now(t, "failed", "unused")
        /\ entry' = [entry EXCEPT ![at[t]] = Unused(@)]
        /\ UNCHANGED <<id, at>>
     \/ /\ Now(t, "unused", "uncalled")
        /\ entry' = [entry EXCEPT ![at[t]] = Uncalled(@)]
        /\ UNCHANGED <<id, at>>
     \/ /\ Now(t, "uncalled", "idle")
        /\ entry' = [entry EXCEPT ![at[t]] = Unnumbered(@)]
        /\ Returned(t)
  /\ UNCHANGED <<msgId, head, sendBuf, wire, made, len, out, receiving>>

-----------------------------------------------------------------------------
(* _c_rpcMsgHandle in the receiver, which has no other response meanwhile. *)

Proceed(here, next) ==
  stage = here /\ pc[Receiver] = "idle" /\ stage' = next

\* A response arrives, and _c_GetRpcWaitForResponse reads the head of the list.
Respond(request) ==
  /\ Proceed("waiting", "looking")
  /\ resp' = request[2]
  /\ found' = head
  /\ UNCHANGED <<shared, pc, local, heard>>

Look ==
  /\ \/ Proceed("looking", "waiting") /\ found = 0 /\ resp' = 0 /\ UNCHANGED found
     \/ /\ Proceed("looking", "found")
        /\ found # 0 /\ entry[found].id = resp
        /\ resp' = 0 /\ UNCHANGED found
     \/ /\ Proceed("looking", "looking")
        /\ found # 0 /\ entry[found].id # resp
        /\ found' = entry[found].next /\ UNCHANGED resp
  /\ UNCHANGED <<shared, pc, local, heard>>

\* A NULL callback ends the program.
CallBack ==
  /\ Proceed("found", "called")
  /\ entry[found].call # NoCall
  /\ heard' = [heard EXCEPT ![entry[found].call] = @ + 1]
  /\ UNCHANGED <<shared, pc, local, resp, found>>

GiveFoundBack ==
  /\ \/ /\ Proceed("called", "unused")
        /\ entry' = [entry EXCEPT ![found] = Unused(@)]
        /\ UNCHANGED found
     \/ /\ Proceed("unused", "uncalled")
        /\ entry' = [entry EXCEPT ![found] = Uncalled(@)]
        /\ UNCHANGED found
     \/ /\ Proceed("uncalled", "waiting")
        /\ entry' = [entry EXCEPT ![found] = Unnumbered(@)]
        /\ found' = 0
  /\ UNCHANGED <<msgId, head, sendBuf, wire, pc, local, resp, heard>>

-----------------------------------------------------------------------------
ThreadStep(t) ==
  \/ ReadId(t) \/ WriteId(t)
  \/ StartWalk(t) \/ Walk(t) \/ Allocate(t) \/ AllocateFails(t)
  \/ TestHead(t) \/ LinkNext(t) \/ LinkHead(t)
  \/ WriteNothing(t) \/ WriteEntryId(t) \/ WriteCallback(t) \/ WriteUsed(t)
  \/ NoSender(t) \/ Encode(t) \/ EncodeFails(t)
  \/ ReadLength(t) \/ Take(t) \/ TakeFails(t)
  \/ Transmit(t) \/ TransmitFails(t)
  \/ GiveBack(t)

Next ==
  \/ \E t \in Thread : ThreadStep(t)
  \/ \E request \in wire : Respond(request)
  \/ Look
  \/ CallBack
  \/ GiveFoundBack

Spec == Init /\ [][Next]_vars

-----------------------------------------------------------------------------

\* Whatever the threads do to each other's entries, no callback is called twice
\* (jm_client.c:747-760).
CalledOnce == \A c \in Call : heard[c] <= 1

\* However the threads put their entries in front of the list at once, and one
\* of them may be lost, every walk along the list ends: no entries follow each
\* other in a circle (jm_client.c:197-240).
ListEnds ==
  \A S \in SUBSET DOMAIN entry :
    S # {} => \E e \in S : entry[e].next \notin S

=============================================================================
