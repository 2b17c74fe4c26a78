--------------------------- MODULE RpcThreadsProofs ---------------------------
(***************************************************************************)
(* Theorems of RpcThreads, for any threads and any number of calls of each *)
(* of them.  They need nothing of sendBuf and of what was sent: whatever   *)
(* id the next response carries, it is found or not.                       *)
(***************************************************************************)
EXTENDS RpcThreads, WellFoundedInduction, TLAPS

\* A thread in Before has not written its callback into an entry yet; one in
\* Fresh holds an entry that it has allocated and not put into the list; one in
\* Holding has an entry.
Fresh == {"testing", "linking", "heading"}
Holding == Fresh \cup {"claimed", "numbered", "written", "encoding", "sending",
                      "taking", "transmitting", "failed", "unused", "uncalled"}
Before == Fresh \cup {"counting", "starting", "walking", "claimed", "numbered"}
PC == Before \cup Holding \cup {"idle"}

Stage == {"waiting", "looking", "found", "called", "unused", "uncalled"}
Entry == [used : BOOLEAN, id : Nat, call : Call \cup {NoCall}, next : Nat]

\* Whatever the threads do to it, the list stays inside the entries there are.
Listed ==
  /\ entry \in Seq(Entry)
  /\ head \in 0 .. Len(entry)
  /\ \A i \in DOMAIN entry : entry[i].next \in 0 .. Len(entry)
Placed ==
  /\ pc \in [Thread -> PC]
  /\ at \in [Thread -> Nat]
  /\ \A t \in Thread : at[t] \in 0 .. Len(entry) /\ (pc[t] \in Holding => at[t] # 0)
Counted ==
  /\ msgId \in Nat
  /\ id \in [Thread -> Nat]
  /\ made \in [Thread -> Nat]
  /\ \A t \in Thread : made[t] <= MaxCalls[t] /\ (pc[t] # "idle" => made[t] > 0)
Answering ==
  /\ stage \in Stage
  /\ found \in 0 .. Len(entry)
  /\ stage \notin {"waiting", "looking"} => found # 0
  /\ heard \in [Call -> Nat]
Typed == Listed /\ Placed /\ Counted /\ Answering

-----------------------------------------------------------------------------
(* Numbers, lists and calls.                                               *)

\* A set of numbers that is not empty has a least one.
LEMMA LeastNat ==
  ASSUME NEW S \in SUBSET Nat, S # {}
  PROVE  \E x \in S : \A y \in S : x <= y
<1> DEFINE R == OpToRel(<, Nat)
<1>1. IsWellFoundedOn(R, Nat)
  BY NatLessThanWellFounded
<1>2. R = {r \in Nat \X Nat : r[1] < r[2]}
  BY DEF OpToRel
<1> HIDE DEF R
<1>3. PICK x \in S : \A y \in S : ~(<<y, x>> \in R)
  BY <1>1, WFMin
<1>4. ASSUME NEW y \in S PROVE x <= y
  <2>1. <<y, x>> \in Nat \X Nat /\ <<y, x>>[1] = y /\ <<y, x>>[2] = x
    OBVIOUS
  <2> QED
    BY <1>2, <1>3, <2>1
<1> QED
  BY <1>4

\* A number in front of the next one is in the range without it.
LEMMA NotTheNext ==
  ASSUME NEW n \in Nat
  PROVE  /\ \A k \in 1 .. (n + 1) : k # n + 1 => k \in 1 .. n
         /\ \A k \in 0 .. n : k # n + 1
OBVIOUS

\* An element of a list is replaced.
LEMMA Replaced ==
  ASSUME NEW S, NEW s \in Seq(S), NEW i \in DOMAIN s, NEW e \in S
  PROVE  /\ [s EXCEPT ![i] = e] \in Seq(S)
         /\ Len([s EXCEPT ![i] = e]) = Len(s)
         /\ DOMAIN [s EXCEPT ![i] = e] = DOMAIN s
         /\ [s EXCEPT ![i] = e][i] = e
         /\ \A j \in DOMAIN s : j # i => [s EXCEPT ![i] = e][j] = s[j]
OBVIOUS

\* An element is put at the end of a list.
LEMMA Appended ==
  ASSUME NEW S, NEW s \in Seq(S), NEW e \in S
  PROVE  /\ Append(s, e) \in Seq(S)
         /\ Len(Append(s, e)) = Len(s) + 1
         /\ Len(s) \in Nat
         /\ DOMAIN s = 1 .. Len(s)
         /\ DOMAIN Append(s, e) = 1 .. (Len(s) + 1)
         /\ Append(s, e)[Len(s) + 1] = e
         /\ \A j \in DOMAIN s : Append(s, e)[j] = s[j]
OBVIOUS

\* A pair of a thread and a number is a call, and no call is the NULL callback.
LEMMA CallIsPair ==
  /\ \A t \in Thread : \A n \in 1 .. MaxCalls[t] : <<t, n>> \in Call
  /\ \A c \in Call : /\ c[1] \in Thread /\ c[2] \in 1 .. MaxCalls[c[1]] /\ c[2] \in Nat
                     /\ c = <<c[1], c[2]>> /\ c # NoCall
  /\ \A t \in Thread : MaxCalls[t] \in Nat
  /\ Receiver \in Thread
<1>1. /\ Receiver \in Thread
      /\ \A t \in Thread : MaxCalls[t] \in Nat
  BY ThreadsAssumption
<1>2. \A t \in Thread : \A n \in 1 .. MaxCalls[t] : <<t, n>> \in Call
  BY DEF Call
<1>3. ASSUME NEW c \in Call
      PROVE  /\ c[1] \in Thread /\ c[2] \in 1 .. MaxCalls[c[1]] /\ c[2] \in Nat
             /\ c = <<c[1], c[2]>> /\ c # NoCall
  <2>1. PICK t \in Thread : c \in {t} \X (1 .. MaxCalls[t])
    BY DEF Call
  <2>2. PICK n \in 1 .. MaxCalls[t] : c = <<t, n>>
    BY <2>1
  <2>3. c[1] = t /\ c[2] = n /\ <<t, n>> # << >>
    BY <2>2
  <2> QED
    BY <1>1, <2>2, <2>3 DEF NoCall
<1> QED
  BY <1>1, <1>2, <1>3

-----------------------------------------------------------------------------
(* What the steps do to the entries and the program counters.              *)

\* What is known of the entries and of who holds which.
LEMMA Known ==
  ASSUME Typed
  PROVE  /\ entry \in Seq(Entry) /\ Len(entry) \in Nat /\ DOMAIN entry = 1 .. Len(entry)
         /\ head \in 0 .. Len(entry)
         /\ \A i \in DOMAIN entry : entry[i] \in Entry /\ entry[i].next \in 0 .. Len(entry)
         /\ \A t \in Thread : at[t] \in Nat /\ at[t] \in 0 .. Len(entry)
         /\ \A t \in Thread : pc[t] \in Holding => at[t] \in DOMAIN entry
         /\ found \in 0 .. Len(entry)
         /\ stage \notin {"waiting", "looking"} => found \in DOMAIN entry
<1>1. entry \in Seq(Entry) /\ Len(entry) \in Nat /\ DOMAIN entry = 1 .. Len(entry)
  BY DEF Typed, Listed
<1>2. \A i \in DOMAIN entry : entry[i] \in Entry
  BY <1>1
<1> QED
  BY <1>1, <1>2 DEF Typed, Listed, Placed, Answering

\* A give-back rewrites an entry and leaves its link, and so does a thread that
\* writes one of the other fields.
Rewrites(i, e) ==
  /\ i \in DOMAIN entry /\ e \in Entry
  /\ entry' = [entry EXCEPT ![i] = e]
  /\ e.next = entry[i].next
  /\ e.call \in {entry[i].call, NoCall}

\* The fields of an entry are written one at a time.
LEMMA FieldsOf ==
  ASSUME NEW e \in Entry
  PROVE  /\ \A n \in Nat : LET f == [e EXCEPT !.id = n]
                           IN  f \in Entry /\ f.next = e.next /\ f.call = e.call
         /\ \A n \in Nat : LET f == [e EXCEPT !.next = n]
                           IN  f \in Entry /\ f.next = n /\ f.call = e.call
         /\ LET f == [e EXCEPT !.used = TRUE]
            IN  f \in Entry /\ f.next = e.next /\ f.call = e.call
         /\ Unused(e) \in Entry /\ Unused(e).next = e.next /\ Unused(e).call = e.call
         /\ Uncalled(e) \in Entry /\ Uncalled(e).next = e.next /\ Uncalled(e).call = NoCall
         /\ Unnumbered(e) \in Entry /\ Unnumbered(e).next = e.next
         /\ Unnumbered(e).call = e.call
         /\ \A c \in Call : LET f == [e EXCEPT !.call = c]
                            IN  f \in Entry /\ f.next = e.next /\ f.call = c
BY DEF Entry, Unused, Uncalled, Unnumbered

\* Three steps write something else than that into an entry or make one; every
\* other step rewrites one entry or none.
LEMMA EntrySteps ==
  ASSUME Typed, [Next]_vars
  PROVE  \/ entry' = entry
         \/ \E t \in Thread : Allocate(t) \/ LinkNext(t) \/ WriteCallback(t)
         \/ \E i \in DOMAIN entry : \E e \in Entry : Rewrites(i, e)
<1>a. ASSUME NEW i \in DOMAIN entry, entry[i] \in Entry,
             \/ entry' = [entry EXCEPT ![i] = Unused(entry[i])]
             \/ entry' = [entry EXCEPT ![i] = Uncalled(entry[i])]
             \/ entry' = [entry EXCEPT ![i] = Unnumbered(entry[i])]
      PROVE  \E j \in DOMAIN entry : \E e \in Entry : Rewrites(j, e)
  <2>1. /\ Unused(entry[i]) \in Entry /\ Unused(entry[i]).next = entry[i].next
        /\ Unused(entry[i]).call = entry[i].call
        /\ Uncalled(entry[i]) \in Entry /\ Uncalled(entry[i]).next = entry[i].next
        /\ Uncalled(entry[i]).call = NoCall
        /\ Unnumbered(entry[i]) \in Entry /\ Unnumbered(entry[i]).next = entry[i].next
        /\ Unnumbered(entry[i]).call = entry[i].call
    BY <1>a, FieldsOf
  <2>2. \/ Rewrites(i, Unused(entry[i]))
        \/ Rewrites(i, Uncalled(entry[i]))
        \/ Rewrites(i, Unnumbered(entry[i]))
    BY <1>a, <2>1 DEF Rewrites
  <2> QED
    BY <2>1, <2>2
<1>1. ASSUME NEW t \in Thread, WriteEntryId(t) \/ WriteUsed(t) \/ GiveBack(t)
      PROVE  \E i \in DOMAIN entry : \E e \in Entry : Rewrites(i, e)
  <2>1. pc[t] \in Holding
    BY <1>1 DEF WriteEntryId, WriteUsed, GiveBack, Now, Holding
  <2>2. at[t] \in DOMAIN entry /\ entry[at[t]] \in Entry
    BY <2>1, Known
  <2>3. id[t] \in Nat
    BY DEF Typed, Counted
  <2>4. CASE WriteEntryId(t)
    <3> DEFINE e == [entry[at[t]] EXCEPT !.id = id[t]]
    <3>1. entry' = [entry EXCEPT ![at[t]] = e]
      BY <2>4 DEF WriteEntryId
    <3>2. e \in Entry /\ e.next = entry[at[t]].next /\ e.call = entry[at[t]].call
      BY <2>2, <2>3, FieldsOf
    <3> HIDE DEF e
    <3>3. Rewrites(at[t], e)
      BY <2>2, <3>1, <3>2 DEF Rewrites
    <3> QED
      BY <2>2, <3>2, <3>3
  <2>5. CASE WriteUsed(t)
    <3> DEFINE e == [entry[at[t]] EXCEPT !.used = TRUE]
    <3>1. entry' = [entry EXCEPT ![at[t]] = e]
      BY <2>5 DEF WriteUsed
    <3>2. e \in Entry /\ e.next = entry[at[t]].next /\ e.call = entry[at[t]].call
      BY <2>2, FieldsOf
    <3> HIDE DEF e
    <3>3. Rewrites(at[t], e)
      BY <2>2, <3>1, <3>2 DEF Rewrites
    <3> QED
      BY <2>2, <3>2, <3>3
  <2>6. CASE GiveBack(t)
    <3>1. \/ entry' = [entry EXCEPT ![at[t]] = Unused(entry[at[t]])]
          \/ entry' = [entry EXCEPT ![at[t]] = Uncalled(entry[at[t]])]
          \/ entry' = [entry EXCEPT ![at[t]] = Unnumbered(entry[at[t]])]
      BY <2>6 DEF GiveBack
    <3> QED
      BY <1>a, <2>2, <3>1
  <2> QED
    BY <1>1, <2>4, <2>5, <2>6
<1>2. ASSUME GiveFoundBack
      PROVE  \E i \in DOMAIN entry : \E e \in Entry : Rewrites(i, e)
  <2>1. found \in DOMAIN entry /\ entry[found] \in Entry
    BY <1>2, Known DEF GiveFoundBack, Proceed
  <2>2. \/ entry' = [entry EXCEPT ![found] = Unused(entry[found])]
        \/ entry' = [entry EXCEPT ![found] = Uncalled(entry[found])]
        \/ entry' = [entry EXCEPT ![found] = Unnumbered(entry[found])]
    BY <1>2 DEF GiveFoundBack
  <2> QED
    BY <1>a, <2>1, <2>2
<1>3. ASSUME NEW t \in Thread,
             \/ ReadId(t) \/ WriteId(t) \/ StartWalk(t) \/ Walk(t) \/ AllocateFails(t)
             \/ TestHead(t) \/ LinkHead(t) \/ WriteNothing(t) \/ NoSender(t) \/ Encode(t)
             \/ EncodeFails(t) \/ ReadLength(t) \/ Take(t) \/ TakeFails(t)
             \/ Transmit(t) \/ TransmitFails(t)
      PROVE  entry' = entry
  BY <1>3 DEF ReadId, WriteId, StartWalk, Walk, AllocateFails, TestHead, LinkHead,
              WriteNothing, NoSender, Encode, EncodeFails, ReadLength, Take, TakeFails,
              Transmit, TransmitFails, shared
<1>4. CASE (\E request \in wire : Respond(request)) \/ Look \/ CallBack
  BY <1>4 DEF Respond, Look, CallBack, shared
<1>5. ASSUME NEW t \in Thread, ThreadStep(t)
      PROVE  \/ entry' = entry
             \/ \E u \in Thread : Allocate(u) \/ LinkNext(u) \/ WriteCallback(u)
             \/ \E i \in DOMAIN entry : \E e \in Entry : Rewrites(i, e)
  BY <1>1, <1>3, <1>5 DEF ThreadStep
<1>6. CASE UNCHANGED vars
  BY <1>6 DEF vars
<1> QED
  BY <1>2, <1>4, <1>5, <1>6 DEF Next

\* What a rewritten entry, a new one and a linked one leave of the list.
LEMMA RewriteDoes ==
  ASSUME Typed, NEW i \in DOMAIN entry, NEW e \in Entry, entry' = [entry EXCEPT ![i] = e]
  PROVE  /\ entry' \in Seq(Entry) /\ Len(entry') = Len(entry)
         /\ DOMAIN entry' = DOMAIN entry /\ entry'[i] = e
         /\ \A j \in DOMAIN entry : j # i => entry'[j] = entry[j]
<1>1. entry \in Seq(Entry)
  BY Known
<1> QED
  BY <1>1, Replaced

LEMMA AllocateDoes ==
  ASSUME Typed, NEW t \in Thread, Allocate(t)
  PROVE  /\ entry' \in Seq(Entry) /\ Len(entry') = Len(entry) + 1
         /\ DOMAIN entry' = 1 .. (Len(entry) + 1) /\ DOMAIN entry = 1 .. Len(entry)
         /\ entry'[Len(entry) + 1].next = 0 /\ entry'[Len(entry) + 1].call = NoCall
         /\ \A j \in DOMAIN entry : entry'[j] = entry[j]
         /\ at' = [at EXCEPT ![t] = Len(entry) + 1]
<1>1. NewEntry \in Entry /\ NewEntry.next = 0 /\ NewEntry.call = NoCall
  BY DEF NewEntry, Entry
<1>2. entry \in Seq(Entry)
  BY Known
<1>3. entry' = Append(entry, NewEntry) /\ at' = [at EXCEPT ![t] = Len(entry')]
  BY DEF Allocate
<1> HIDE DEF NewEntry
<1> QED
  BY <1>1, <1>2, <1>3, Appended

LEMMA LinkNextDoes ==
  ASSUME Typed, NEW t \in Thread, LinkNext(t)
  PROVE  /\ at[t] \in DOMAIN entry
         /\ entry' \in Seq(Entry) /\ Len(entry') = Len(entry)
         /\ DOMAIN entry' = DOMAIN entry
         /\ entry'[at[t]].next = head /\ entry'[at[t]].call = entry[at[t]].call
         /\ \A j \in DOMAIN entry : j # at[t] => entry'[j] = entry[j]
         /\ UNCHANGED <<head, at>>
<1>1. pc[t] \in Holding
  BY DEF LinkNext, Now, Holding, Fresh
<1>2. at[t] \in DOMAIN entry /\ entry[at[t]] \in Entry /\ head \in Nat
  BY <1>1, Known
<1> DEFINE e == [entry[at[t]] EXCEPT !.next = head]
<1>3. e \in Entry /\ e.next = head /\ e.call = entry[at[t]].call
  BY <1>2, FieldsOf
<1>4. entry' = [entry EXCEPT ![at[t]] = e] /\ UNCHANGED <<head, at>>
  BY DEF LinkNext, local
<1> HIDE DEF e
<1> QED
  BY <1>2, <1>3, <1>4, RewriteDoes

\* A call's callback is written into the entry its thread holds.
LEMMA CallbackDoes ==
  ASSUME Typed, NEW t \in Thread, WriteCallback(t)
  PROVE  /\ at[t] \in DOMAIN entry /\ Current(t) \in Call
         /\ entry' \in Seq(Entry) /\ Len(entry') = Len(entry)
         /\ DOMAIN entry' = DOMAIN entry
         /\ entry'[at[t]].call = Current(t) /\ entry'[at[t]].next = entry[at[t]].next
         /\ \A j \in DOMAIN entry : j # at[t] => entry'[j] = entry[j]
         /\ Current(t)' = Current(t)
         /\ UNCHANGED <<head, at, made, stage, found, heard>>
<1>1. pc[t] = "numbered" /\ pc[t] \in Holding /\ pc[t] # "idle"
  BY DEF WriteCallback, Now, Holding
<1>2. at[t] \in DOMAIN entry /\ entry[at[t]] \in Entry
  BY <1>1, Known
<1>3. Current(t) \in Call
  <2>1. made[t] \in 1 .. MaxCalls[t]
    BY <1>1, CallIsPair DEF Typed, Counted
  <2> QED
    BY <2>1, CallIsPair DEF Current
<1> DEFINE e == [entry[at[t]] EXCEPT !.call = Current(t)]
<1>4. e \in Entry /\ e.next = entry[at[t]].next /\ e.call = Current(t)
  BY <1>2, <1>3, FieldsOf
<1>5. /\ entry' = [entry EXCEPT ![at[t]] = e]
      /\ UNCHANGED <<head, at, made, stage, found, heard>>
  BY DEF WriteCallback, local, receiving
<1> HIDE DEF e
<1> QED
  BY <1>2, <1>3, <1>4, <1>5, RewriteDoes DEF Current

-----------------------------------------------------------------------------
(* Types.                                                                  *)

\* The entries stay entries, and none of them leaves the list.
LEMMA NextListed ==
  ASSUME Typed, [Next]_vars
  PROVE  /\ Listed'
         /\ Len(entry) \in Nat /\ Len(entry') \in Nat /\ Len(entry) <= Len(entry')
<1>0. /\ entry \in Seq(Entry) /\ Len(entry) \in Nat /\ DOMAIN entry = 1 .. Len(entry)
      /\ head \in 0 .. Len(entry)
      /\ \A i \in DOMAIN entry : entry[i].next \in 0 .. Len(entry)
  BY Known
<1>1. head' = head \/ \E t \in Thread : head' = at[t] /\ entry' = entry
  <2>1. ASSUME NEW t \in Thread, ThreadStep(t)
        PROVE  head' = head \/ (head' = at[t] /\ entry' = entry)
    BY <2>1 DEF ThreadStep, ReadId, WriteId, StartWalk, Walk, Allocate, AllocateFails,
         TestHead, LinkNext, LinkHead, WriteNothing, WriteEntryId, WriteCallback,
         WriteUsed, NoSender, Encode, EncodeFails, ReadLength, Take, TakeFails,
         Transmit, TransmitFails, GiveBack, shared
  <2>2. CASE (\E request \in wire : Respond(request)) \/ Look \/ CallBack \/ GiveFoundBack
    BY <2>2 DEF Respond, Look, CallBack, GiveFoundBack, shared
  <2> QED
    BY <2>1, <2>2 DEF Next, vars
<1>2. head' \in 0 .. Len(entry)
  BY <1>0, <1>1, Known
<1>3. CASE entry' = entry
  BY <1>0, <1>2, <1>3 DEF Listed
<1>4. ASSUME NEW t \in Thread, Allocate(t)
      PROVE  Listed' /\ Len(entry') = Len(entry) + 1
  <2>1. /\ entry' \in Seq(Entry) /\ Len(entry') = Len(entry) + 1
        /\ DOMAIN entry' = 1 .. (Len(entry) + 1)
        /\ entry'[Len(entry) + 1].next = 0
        /\ \A j \in DOMAIN entry : entry'[j] = entry[j]
    BY <1>4, AllocateDoes
  <2>2. ASSUME NEW j \in DOMAIN entry' PROVE entry'[j].next \in 0 .. Len(entry')
    <3>1. j = Len(entry) + 1 \/ j \in DOMAIN entry
      BY <1>0, <2>1, <2>2
    <3>2. CASE j \in DOMAIN entry
      <4>1. entry'[j].next \in 0 .. Len(entry)
        BY <1>0, <2>1, <3>2
      <4> QED
        BY <1>0, <2>1, <4>1
    <3>3. CASE j = Len(entry) + 1
      <4>1. entry'[j].next = 0
        BY <2>1, <3>3
      <4> QED
        BY <1>0, <2>1, <4>1
    <3> QED
      BY <3>1, <3>2, <3>3
  <2>3. head' \in 0 .. Len(entry')
    BY <1>0, <1>2, <2>1
  <2> QED
    BY <2>1, <2>2, <2>3 DEF Listed
<1>5. ASSUME NEW t \in Thread, LinkNext(t) \/ WriteCallback(t)
      PROVE  Listed' /\ Len(entry') = Len(entry)
  <2>1. /\ at[t] \in DOMAIN entry /\ entry' \in Seq(Entry) /\ Len(entry') = Len(entry)
        /\ DOMAIN entry' = DOMAIN entry
        /\ entry'[at[t]].next \in {head, entry[at[t]].next}
        /\ \A j \in DOMAIN entry : j # at[t] => entry'[j] = entry[j]
    BY <1>5, LinkNextDoes, CallbackDoes
  <2> QED
    BY <1>0, <1>2, <2>1 DEF Listed
<1>6. ASSUME NEW i \in DOMAIN entry, NEW e \in Entry, Rewrites(i, e)
      PROVE  Listed' /\ Len(entry') = Len(entry)
  <2>1. /\ entry' \in Seq(Entry) /\ Len(entry') = Len(entry)
        /\ DOMAIN entry' = DOMAIN entry /\ entry'[i] = e
        /\ \A j \in DOMAIN entry : j # i => entry'[j] = entry[j]
        /\ e.next = entry[i].next
    BY <1>6, RewriteDoes DEF Rewrites
  <2> QED
    BY <1>0, <1>2, <2>1 DEF Listed
<1>7. Listed' /\ (Len(entry') = Len(entry) \/ Len(entry') = Len(entry) + 1)
  BY <1>3, <1>4, <1>5, <1>6, EntrySteps
<1> QED
  BY <1>0, <1>7

\* Every step of client_invokeRpc keeps its thread's place.
LEMMA StepPlaced ==
  ASSUME Typed, NEW t \in Thread, ThreadStep(t), Len(entry') \in Nat,
         Len(entry) <= Len(entry')
  PROVE  /\ Placed' /\ Counted'
         /\ UNCHANGED receiving
<1>0. /\ pc \in [Thread -> PC] /\ at \in [Thread -> Nat] /\ id \in [Thread -> Nat]
      /\ made \in [Thread -> Nat] /\ msgId \in Nat /\ Len(entry) \in Nat
      /\ \A u \in Thread : /\ at[u] \in 0 .. Len(entry)
                           /\ pc[u] \in Holding => at[u] # 0
                           /\ made[u] <= MaxCalls[u] /\ MaxCalls[u] \in Nat
                           /\ pc[u] # "idle" => made[u] > 0
      /\ head \in 0 .. Len(entry)
      /\ \A i \in DOMAIN entry : entry[i].next \in 0 .. Len(entry)
      /\ DOMAIN entry = 1 .. Len(entry)
  BY CallIsPair, Known DEF Typed, Placed, Counted
<1>1. ASSUME NEW v \in PC, NEW p \in 0 .. Len(entry'),
             pc[t] # "idle", UNCHANGED <<made, receiving>>,
             pc' = [pc EXCEPT ![t] = v], at' = at \/ at' = [at EXCEPT ![t] = p],
             at'[t] = p, v \in Holding => p # 0,
             msgId' \in Nat, id' \in [Thread -> Nat]
      PROVE  Placed' /\ Counted' /\ UNCHANGED receiving
  <2>1. p \in Nat /\ at' \in [Thread -> Nat] /\ pc' \in [Thread -> PC]
    BY <1>0, <1>1
  <2>2. ASSUME NEW u \in Thread
        PROVE  at'[u] \in 0 .. Len(entry') /\ (pc'[u] \in Holding => at'[u] # 0)
    <3>1. CASE u = t
      BY <1>0, <1>1, <3>1
    <3>2. CASE u # t
      <4>1. at'[u] = at[u] /\ pc'[u] = pc[u]
        BY <1>0, <1>1, <3>2
      <4>2. at[u] \in 0 .. Len(entry')
        BY <1>0
      <4> QED
        BY <1>0, <4>1, <4>2
    <3> QED
      BY <3>1, <3>2
  <2>3. \A u \in Thread : made'[u] <= MaxCalls[u] /\ (pc'[u] # "idle" => made'[u] > 0)
    BY <1>0, <1>1
  <2> QED
    BY <1>0, <1>1, <2>1, <2>2, <2>3 DEF Placed, Counted
<1>2. CASE ReadId(t)
  <2>1. /\ pc[t] = "idle" /\ pc' = [pc EXCEPT ![t] = "counting"]
        /\ made[t] < MaxCalls[t] /\ made' = [made EXCEPT ![t] = made[t] + 1]
        /\ id' = [id EXCEPT ![t] = msgId] /\ UNCHANGED <<msgId, entry, at, receiving>>
    BY <1>2 DEF ReadId, Now, shared
  <2>2. "counting" \in PC /\ "counting" \notin Holding
    BY DEF PC, Before, Holding, Fresh
  <2>3. Placed'
    BY <1>0, <2>1, <2>2 DEF Placed
  <2>4. made' \in [Thread -> Nat] /\ id' \in [Thread -> Nat]
    BY <1>0, <2>1
  <2>5. ASSUME NEW u \in Thread
        PROVE  made'[u] <= MaxCalls[u] /\ (pc'[u] # "idle" => made'[u] > 0)
    <3>1. CASE u = t
      BY <1>0, <2>1, <3>1
    <3>2. CASE u # t
      BY <1>0, <2>1, <3>2
    <3> QED
      BY <3>1, <3>2
  <2> QED
    BY <1>0, <2>1, <2>3, <2>4, <2>5 DEF Counted
<1>3. CASE WriteId(t)
  <2>1. /\ pc[t] = "counting" /\ pc' = [pc EXCEPT ![t] = "starting"]
        /\ msgId' = id[t] + 1 /\ id' = [id EXCEPT ![t] = id[t] + 1]
        /\ UNCHANGED <<entry, at, made, receiving>>
    BY <1>3 DEF WriteId, Now, NextId
  <2>2. "starting" \in PC /\ "starting" \notin Holding
    BY DEF PC, Before, Holding, Fresh
  <2>3. at[t] \in 0 .. Len(entry') /\ at'[t] = at[t] /\ at' = at
    BY <1>0, <2>1
  <2>4. id[t] \in Nat
    BY <1>0
  <2>5. id[t] + 1 \in Nat
    BY <2>4
  <2>6. msgId' \in Nat /\ id' \in [Thread -> Nat]
    BY <1>0, <2>1, <2>5
  <2>7. pc[t] # "idle" /\ UNCHANGED <<made, receiving>>
    BY <2>1
  <2> QED
    BY <1>1, <2>1, <2>2, <2>3, <2>6, <2>7
<1>4. CASE StartWalk(t)
  <2>1. /\ pc[t] = "starting" /\ pc' = [pc EXCEPT ![t] = "walking"]
        /\ at' = [at EXCEPT ![t] = head] /\ UNCHANGED <<entry, msgId, id, made, receiving>>
    BY <1>4 DEF StartWalk, Now, shared
  <2>2. "walking" \in PC /\ "walking" \notin Holding
    BY DEF PC, Before, Holding, Fresh
  <2>3. head \in 0 .. Len(entry') /\ at'[t] = head
    BY <1>0, <2>1
  <2> QED
    BY <1>0, <1>1, <2>1, <2>2, <2>3
<1>5. CASE Walk(t)
  <2>1. /\ pc[t] = "walking" /\ at[t] # 0 /\ UNCHANGED <<entry, msgId, id, made, receiving>>
        /\ \/ pc' = [pc EXCEPT ![t] = "claimed"] /\ at' = at
           \/ pc' = pc /\ at' = [at EXCEPT ![t] = entry[at[t]].next]
    BY <1>5 DEF Walk, Now, shared
  <2>2. "claimed" \in PC /\ "walking" \in PC /\ "walking" \notin Holding
    BY DEF PC, Before, Holding, Fresh
  <2>3. at[t] \in DOMAIN entry
    BY <1>0, <2>1
  <2>4. CASE pc' = [pc EXCEPT ![t] = "claimed"] /\ at' = at
    <3>1. at[t] \in 0 .. Len(entry') /\ at'[t] = at[t]
      BY <1>0, <2>1, <2>4
    <3> QED
      BY <1>0, <1>1, <2>1, <2>2, <2>4, <3>1
  <2>5. CASE pc' = pc /\ at' = [at EXCEPT ![t] = entry[at[t]].next]
    <3>1. /\ entry[at[t]].next \in 0 .. Len(entry') /\ at'[t] = entry[at[t]].next
          /\ pc' = [pc EXCEPT ![t] = "walking"]
      BY <1>0, <2>1, <2>3, <2>5
    <3> QED
      BY <1>0, <1>1, <2>1, <2>2, <2>5, <3>1
  <2> QED
    BY <2>1, <2>4, <2>5
<1>6. CASE Allocate(t)
  <2>1. /\ pc[t] = "walking" /\ pc' = [pc EXCEPT ![t] = "testing"]
        /\ UNCHANGED <<msgId, id, made, receiving>>
    BY <1>6 DEF Allocate, Now
  <2>2. at' = [at EXCEPT ![t] = Len(entry) + 1] /\ Len(entry') = Len(entry) + 1
    BY <1>6, AllocateDoes
  <2>3. "testing" \in PC
    BY DEF PC, Before, Holding, Fresh
  <2>4. Len(entry) + 1 \in 0 .. Len(entry') /\ at'[t] = Len(entry) + 1 /\ Len(entry) + 1 # 0
    BY <1>0, <2>2
  <2> QED
    BY <1>0, <1>1, <2>1, <2>2, <2>3, <2>4
<1>7. CASE AllocateFails(t) \/ Transmit(t) \/ (GiveBack(t) /\ pc[t] = "uncalled")
  <2>1. /\ pc[t] # "idle" /\ pc' = [pc EXCEPT ![t] = "idle"]
        /\ at' = [at EXCEPT ![t] = 0] /\ id' = [id EXCEPT ![t] = 0]
        /\ UNCHANGED <<msgId, made, receiving>>
    BY <1>7 DEF AllocateFails, Transmit, GiveBack, Now, Returned, shared
  <2>2. "idle" \in PC /\ "idle" \notin Holding
    BY DEF PC, Before, Holding, Fresh
  <2>3. 0 \in 0 .. Len(entry') /\ at'[t] = 0 /\ id' \in [Thread -> Nat]
    BY <1>0, <2>1
  <2> QED
    BY <1>0, <1>1, <2>1, <2>2, <2>3
<1>8. CASE \/ TestHead(t) \/ LinkNext(t) \/ LinkHead(t) \/ WriteNothing(t) \/ WriteEntryId(t)
           \/ WriteCallback(t) \/ WriteUsed(t) \/ NoSender(t) \/ Encode(t) \/ EncodeFails(t)
           \/ ReadLength(t) \/ Take(t) \/ TakeFails(t) \/ TransmitFails(t)
           \/ (GiveBack(t) /\ pc[t] # "uncalled")
  <2>1. /\ pc[t] \in Holding /\ at' = at
        /\ \E v \in Holding : pc' = [pc EXCEPT ![t] = v]
        /\ UNCHANGED <<msgId, id, made, receiving>>
    <3>1. CASE TestHead(t) \/ LinkNext(t) \/ LinkHead(t) \/ WriteNothing(t) \/ WriteEntryId(t)
               \/ WriteCallback(t) \/ WriteUsed(t) \/ NoSender(t)
      BY <3>1 DEF TestHead, LinkNext, LinkHead, WriteNothing, WriteEntryId, WriteCallback,
                  WriteUsed, NoSender, Now, shared, local, Holding, Fresh
    <3>2. CASE \/ Encode(t) \/ EncodeFails(t) \/ ReadLength(t) \/ Take(t) \/ TakeFails(t)
               \/ TransmitFails(t) \/ (GiveBack(t) /\ pc[t] # "uncalled")
      BY <3>2 DEF Encode, EncodeFails, ReadLength, Take, TakeFails, TransmitFails, GiveBack,
                  Now, shared, local, Holding, Fresh
    <3> QED
      BY <1>8, <3>1, <3>2
  <2>2. PICK v \in Holding : pc' = [pc EXCEPT ![t] = v]
    BY <2>1
  <2>3. v \in PC /\ pc[t] # "idle"
    BY <2>1 DEF PC, Before, Holding, Fresh
  <2>4. at[t] \in 0 .. Len(entry') /\ at[t] # 0 /\ at'[t] = at[t]
    BY <1>0, <2>1
  <2> QED
    BY <1>0, <1>1, <2>1, <2>2, <2>3, <2>4
<1> QED
  BY <1>2, <1>3, <1>4, <1>5, <1>6, <1>7, <1>8 DEF ThreadStep

\* The receiver's steps keep its place in the list, and the callers' numbers.
LEMMA ReceiverPlaced ==
  ASSUME Typed, Len(entry') \in Nat, Len(entry) <= Len(entry'),
         (\E request \in wire : Respond(request)) \/ Look \/ CallBack \/ GiveFoundBack
  PROVE  /\ Answering' /\ Placed' /\ Counted'
<1>0. /\ Len(entry) \in Nat /\ DOMAIN entry = 1 .. Len(entry)
      /\ head \in 0 .. Len(entry) /\ found \in 0 .. Len(entry)
      /\ \A i \in DOMAIN entry : entry[i] \in Entry /\ entry[i].next \in 0 .. Len(entry)
      /\ stage \notin {"waiting", "looking"} => found \in DOMAIN entry /\ found # 0
      /\ stage \in Stage /\ heard \in [Call -> Nat]
      /\ pc \in [Thread -> PC] /\ at \in [Thread -> Nat] /\ msgId \in Nat
      /\ id \in [Thread -> Nat] /\ made \in [Thread -> Nat]
      /\ \A u \in Thread : /\ at[u] \in 0 .. Len(entry)
                           /\ pc[u] \in Holding => at[u] # 0
                           /\ made[u] <= MaxCalls[u]
                           /\ pc[u] # "idle" => made[u] > 0
  BY Known DEF Typed, Answering, Placed, Counted
<1>1. UNCHANGED <<pc, at, made, id, msgId>>
  BY DEF Respond, Look, CallBack, GiveFoundBack, shared, local
<1>2. Placed' /\ Counted'
  <2>1. \A u \in Thread : at[u] \in 0 .. Len(entry')
    BY <1>0
  <2> QED
    BY <1>0, <1>1, <2>1 DEF Placed, Counted
<1>3. ASSUME NEW g \in Stage, NEW f \in 0 .. Len(entry), NEW h \in [Call -> Nat],
             stage' = g, found' = f, heard' = h, g \notin {"waiting", "looking"} => f # 0
      PROVE  Answering'
  <2>1. f \in 0 .. Len(entry')
    BY <1>0, <1>3
  <2> QED
    BY <1>3, <2>1 DEF Answering
<1>4. ASSUME \E request \in wire : Respond(request) PROVE Answering'
  <2>1. stage' = "looking" /\ found' = head /\ heard' = heard
    BY <1>4 DEF Respond, Proceed
  <2> QED
    BY <1>0, <1>3, <2>1 DEF Stage
<1>5. ASSUME Look PROVE Answering'
  <2>1. /\ heard' = heard
        /\ \/ stage' = "waiting" /\ found' = found
           \/ stage' = "found" /\ found # 0 /\ found' = found
           \/ stage' = "looking" /\ found # 0 /\ found' = entry[found].next
    BY <1>5 DEF Look, Proceed
  <2>2. found # 0 => found \in DOMAIN entry
    BY <1>0
  <2> QED
    BY <1>0, <1>3, <2>1, <2>2 DEF Stage
<1>6. ASSUME CallBack PROVE Answering'
  <2>1. /\ stage = "found" /\ stage' = "called" /\ found' = found
        /\ entry[found].call # NoCall
        /\ heard' = [heard EXCEPT ![entry[found].call] = heard[entry[found].call] + 1]
    BY <1>6 DEF CallBack, Proceed
  <2>2. entry[found].call \in Call
    BY <1>0, <2>1 DEF Entry
  <2>3. heard' \in [Call -> Nat]
    BY <1>0, <2>1, <2>2
  <2> QED
    BY <1>0, <1>3, <2>1, <2>3 DEF Stage
<1>7. ASSUME GiveFoundBack PROVE Answering'
  <2>1. /\ heard' = heard /\ stage \notin {"waiting", "looking"}
        /\ \/ stage' \in {"unused", "uncalled"} /\ found' = found
           \/ stage' = "waiting" /\ found' = 0
    BY <1>7 DEF GiveFoundBack, Proceed
  <2>2. 0 \in 0 .. Len(entry)
    BY <1>0
  <2> QED
    BY <1>0, <1>3, <2>1, <2>2 DEF Stage
<1> QED
  BY <1>2, <1>4, <1>5, <1>6, <1>7

LEMMA NextTyped == ASSUME Typed, [Next]_vars PROVE Typed'
<1>1. /\ Listed' /\ Len(entry) \in Nat /\ Len(entry') \in Nat
      /\ Len(entry) <= Len(entry')
  BY NextListed
<1>2. ASSUME NEW t \in Thread, ThreadStep(t)
      PROVE  Placed' /\ Counted' /\ Answering'
  <2>1. Placed' /\ Counted' /\ UNCHANGED receiving
    BY <1>1, <1>2, StepPlaced
  <2>2. Answering /\ found \in 0 .. Len(entry)
    BY DEF Typed, Answering
  <2>3. found \in 0 .. Len(entry')
    BY <1>1, <2>2
  <2>4. UNCHANGED <<stage, found, heard>>
    BY <2>1 DEF receiving
  <2> QED
    BY <2>1, <2>2, <2>3, <2>4 DEF Answering
<1>3. ASSUME (\E request \in wire : Respond(request)) \/ Look \/ CallBack \/ GiveFoundBack
      PROVE  Placed' /\ Counted' /\ Answering'
  BY <1>1, <1>3, ReceiverPlaced
<1>4. ASSUME UNCHANGED vars PROVE Placed' /\ Counted' /\ Answering'
  BY <1>4 DEF vars, Typed, Listed, Placed, Counted, Answering
<1> QED
  BY <1>1, <1>2, <1>3, <1>4 DEF Next, Typed

LEMMA InitTyped == Init => Typed
<1> SUFFICES ASSUME Init PROVE Typed
  OBVIOUS
<1>1. /\ entry = << >> /\ head = 0 /\ found = 0 /\ stage = "waiting" /\ msgId = 0
      /\ pc = [t \in Thread |-> "idle"] /\ made = [t \in Thread |-> 0]
      /\ id = [t \in Thread |-> 0] /\ at = [t \in Thread |-> 0]
      /\ heard = [c \in Call |-> 0]
  BY DEF Init
<1>2. entry \in Seq(Entry) /\ Len(entry) = 0 /\ DOMAIN entry = {}
  BY <1>1
<1>3. Listed /\ Answering
  BY <1>1, <1>2 DEF Listed, Answering, Stage
<1>4. Placed /\ Counted
  BY <1>1, <1>2, CallIsPair DEF Placed, Counted, PC, Before, Holding, Fresh
<1> QED
  BY <1>3, <1>4 DEF Typed

-----------------------------------------------------------------------------
(* Whatever the threads do: a call is in one entry, and heard of once.     *)

\* The calls whose callback has been written into an entry.
Kept(c) ==
  \/ c[2] < made[c[1]]
  \/ c[2] = made[c[1]] /\ pc[c[1]] \notin Before
OneEntry ==
  /\ \A i \in DOMAIN entry : entry[i].call # NoCall => Kept(entry[i].call)
  /\ \A i, j \in DOMAIN entry :
       entry[i].call # NoCall /\ entry[i].call = entry[j].call => i = j
HeardOnce ==
  \A c \in Call :
    /\ heard[c] <= 1
    /\ heard[c] > 0 =>
         /\ Kept(c)
         /\ \A i \in DOMAIN entry :
              entry[i].call = c => stage \in {"called", "unused"} /\ found = i
WrittenOnce == OneEntry /\ HeardOnce

\* A call that has been written stays one: its thread goes on, and comes back
\* to Before with its next call.
LEMMA KeptGrows ==
  ASSUME Typed, [Next]_vars, NEW c \in Call, Kept(c)
  PROVE  Kept(c)'
<1>1. /\ pc \in [Thread -> PC] /\ made \in [Thread -> Nat]
      /\ c[1] \in Thread /\ c[2] \in Nat
  BY CallIsPair DEF Typed, Counted, Placed
<1>2. ASSUME UNCHANGED <<pc, made>> PROVE Kept(c)'
  BY <1>2 DEF Kept
<1>3. ASSUME NEW t \in Thread, ReadId(t)
      PROVE  Kept(c)'
  <2>1. /\ pc[t] = "idle" /\ pc' = [pc EXCEPT ![t] = "counting"]
        /\ made' = [made EXCEPT ![t] = made[t] + 1]
    BY <1>3 DEF ReadId, Now
  <2>2. CASE c[1] = t
    BY <1>1, <2>1, <2>2 DEF Kept
  <2>3. CASE c[1] # t
    BY <1>1, <2>1, <2>3 DEF Kept
  <2> QED
    BY <2>2, <2>3
<1>4. ASSUME NEW t \in Thread, NEW v \in PC, made' = made,
             pc' = [pc EXCEPT ![t] = v], v \in Before => pc[t] \in Before
      PROVE  Kept(c)'
  <2>1. CASE c[1] = t
    BY <1>1, <1>4, <2>1 DEF Kept
  <2>2. CASE c[1] # t
    BY <1>1, <1>4, <2>2 DEF Kept
  <2> QED
    BY <2>1, <2>2
<1>5. ASSUME NEW t \in Thread, ThreadStep(t), ~ReadId(t)
      PROVE  Kept(c)'
  <2>1. CASE \/ WriteId(t) \/ StartWalk(t) \/ Allocate(t) \/ AllocateFails(t)
             \/ TestHead(t) \/ LinkNext(t) \/ LinkHead(t) \/ WriteNothing(t)
             \/ WriteEntryId(t) \/ WriteCallback(t)
    <3>1. /\ made' = made /\ pc[t] \in Before
          /\ \E v \in PC : pc' = [pc EXCEPT ![t] = v]
      BY <2>1 DEF WriteId, StartWalk, Allocate, AllocateFails, TestHead, LinkNext, LinkHead,
                  WriteNothing, WriteEntryId, WriteCallback, Now, local, PC, Before, Fresh,
                  Holding
    <3> QED
      BY <1>4, <3>1
  <2>2. CASE \/ WriteUsed(t) \/ NoSender(t) \/ Encode(t) \/ EncodeFails(t) \/ ReadLength(t)
             \/ Take(t) \/ TakeFails(t) \/ Transmit(t) \/ TransmitFails(t) \/ GiveBack(t)
    <3>1. /\ made' = made
          /\ \E v \in PC \ Before : pc' = [pc EXCEPT ![t] = v]
      BY <2>2 DEF WriteUsed, NoSender, Encode, EncodeFails, ReadLength, Take, TakeFails,
                  Transmit, TransmitFails, GiveBack, Now, local, shared, PC, Before, Fresh,
                  Holding
    <3> QED
      BY <1>4, <3>1
  <2>3. CASE Walk(t)
    <3>1. /\ made' = made /\ pc[t] = "walking"
          /\ pc' = pc \/ pc' = [pc EXCEPT ![t] = "claimed"]
      BY <2>3 DEF Walk, Now
    <3> QED
      BY <1>2, <1>4, <3>1 DEF PC, Before
  <2> QED
    BY <1>5, <2>1, <2>2, <2>3 DEF ThreadStep
<1>6. ASSUME (\E request \in wire : Respond(request)) \/ Look \/ CallBack \/ GiveFoundBack
      PROVE  Kept(c)'
  BY <1>2, <1>6 DEF Respond, Look, CallBack, GiveFoundBack, local
<1> QED
  BY <1>2, <1>3, <1>5, <1>6 DEF Next, vars

\* A call is not written before its callback is.
LEMMA CallbackIsNew ==
  ASSUME Typed, NEW t \in Thread, WriteCallback(t)
  PROVE  ~Kept(Current(t)) /\ Kept(Current(t))'
<1>1. /\ pc[t] = "numbered" /\ pc' = [pc EXCEPT ![t] = "written"] /\ made' = made
  BY DEF WriteCallback, Now, local
<1>2. pc \in [Thread -> PC] /\ made \in [Thread -> Nat]
  BY DEF Typed, Placed, Counted
<1>3. Current(t)[1] = t /\ Current(t)[2] = made[t] /\ Current(t)' = Current(t)
  BY <1>1 DEF Current
<1> QED
  BY <1>1, <1>2, <1>3 DEF Kept, Before, Fresh

\* A step that does not write a callback puts no call into an entry.
LEMMA CallsStay ==
  ASSUME Typed, [Next]_vars, ~\E t \in Thread : WriteCallback(t)
  PROVE  \A i \in DOMAIN entry' :
           entry'[i].call # NoCall => i \in DOMAIN entry /\ entry'[i].call = entry[i].call
<1>1. CASE entry' = entry
  BY <1>1
<1>2. ASSUME NEW t \in Thread, Allocate(t), NEW i \in DOMAIN entry', entry'[i].call # NoCall
      PROVE  i \in DOMAIN entry /\ entry'[i].call = entry[i].call
  <2>1. /\ DOMAIN entry' = 1 .. (Len(entry) + 1) /\ DOMAIN entry = 1 .. Len(entry)
        /\ entry'[Len(entry) + 1].call = NoCall
        /\ \A j \in DOMAIN entry : entry'[j] = entry[j]
        /\ Len(entry) \in Nat
    BY <1>2, AllocateDoes, Known
  <2>2. i = Len(entry) + 1 \/ i \in DOMAIN entry
    BY <1>2, <2>1
  <2> QED
    BY <1>2, <2>1, <2>2
<1>3. ASSUME NEW t \in Thread, LinkNext(t), NEW i \in DOMAIN entry'
      PROVE  i \in DOMAIN entry /\ entry'[i].call = entry[i].call
  <2>1. /\ DOMAIN entry' = DOMAIN entry /\ entry'[at[t]].call = entry[at[t]].call
        /\ \A j \in DOMAIN entry : j # at[t] => entry'[j] = entry[j]
    BY <1>3, LinkNextDoes
  <2> QED
    BY <2>1, <1>3
<1>4. ASSUME NEW k \in DOMAIN entry, NEW e \in Entry, Rewrites(k, e),
             NEW i \in DOMAIN entry', entry'[i].call # NoCall
      PROVE  i \in DOMAIN entry /\ entry'[i].call = entry[i].call
  <2>1. /\ DOMAIN entry' = DOMAIN entry /\ entry'[k] = e
        /\ \A j \in DOMAIN entry : j # k => entry'[j] = entry[j]
        /\ e.call \in {entry[k].call, NoCall}
    BY <1>4, RewriteDoes DEF Rewrites
  <2> QED
    BY <1>4, <2>1
<1> QED
  BY <1>1, <1>2, <1>3, <1>4, EntrySteps

LEMMA NextOneEntry ==
  ASSUME Typed, OneEntry, [Next]_vars
  PROVE  OneEntry'
<1>1. \A i \in DOMAIN entry : entry[i].call \in Call \cup {NoCall}
  BY Known DEF Entry
<1>g. \A c \in Call : Kept(c) => Kept(c)'
  BY KeptGrows
<1>2. ASSUME ~\E t \in Thread : WriteCallback(t) PROVE OneEntry'
  <2>1. \A i \in DOMAIN entry' :
          entry'[i].call # NoCall => i \in DOMAIN entry /\ entry'[i].call = entry[i].call
    BY <1>2, CallsStay
  <2>2. ASSUME NEW i \in DOMAIN entry', entry'[i].call # NoCall
        PROVE  Kept(entry[i].call)'
    BY <1>1, <1>g, <2>1, <2>2 DEF OneEntry, Kept
  <2>3. ASSUME NEW i \in DOMAIN entry', NEW j \in DOMAIN entry', entry'[i].call # NoCall,
               entry'[i].call = entry'[j].call
        PROVE  i = j
    BY <2>1, <2>3 DEF OneEntry
  <2> QED
    BY <2>2, <2>3 DEF OneEntry
<1>3. ASSUME NEW t \in Thread, WriteCallback(t)
      PROVE  OneEntry'
  <2>1. /\ at[t] \in DOMAIN entry /\ DOMAIN entry' = DOMAIN entry
        /\ entry'[at[t]].call = Current(t)
        /\ \A j \in DOMAIN entry : j # at[t] => entry'[j] = entry[j]
        /\ ~Kept(Current(t)) /\ Kept(Current(t))' /\ Current(t)' = Current(t)
    BY <1>3, CallbackDoes, CallbackIsNew
  <2>2. ASSUME NEW i \in DOMAIN entry', entry'[i].call # NoCall
        PROVE  Kept(entry[i].call)'
    <3>2. CASE i = at[t]
      BY <2>1, <3>2 DEF Kept
    <3>3. CASE i # at[t]
      BY <1>1, <1>g, <2>1, <2>2, <3>3 DEF OneEntry, Kept
    <3> QED
      BY <3>2, <3>3
  <2>3. ASSUME NEW i \in DOMAIN entry', NEW j \in DOMAIN entry', entry'[i].call # NoCall,
               entry'[i].call = entry'[j].call
        PROVE  i = j
    BY <2>1, <2>3 DEF OneEntry
  <2> QED
    BY <2>2, <2>3 DEF OneEntry
<1> QED
  BY <1>2, <1>3

LEMMA NextHeardOnce ==
  ASSUME Typed, OneEntry, HeardOnce, [Next]_vars
  PROVE  HeardOnce'
<1>1. heard \in [Call -> Nat]
  BY DEF Typed, Answering
<1>g. \A c \in Call : Kept(c) => Kept(c)'
  BY KeptGrows
<1>2. ASSUME CallBack PROVE HeardOnce'
  <2>1. /\ stage = "found" /\ stage' = "called"
        /\ UNCHANGED <<entry, pc, made, found>>
        /\ entry[found].call # NoCall
        /\ heard' = [heard EXCEPT ![entry[found].call] = heard[entry[found].call] + 1]
    BY <1>2 DEF CallBack, Proceed, shared, local
  <2>2. found \in DOMAIN entry
    BY <2>1, Known
  <2>3. entry[found].call \in Call
    BY <2>1, <2>2, Known DEF Entry
  <2> SUFFICES ASSUME NEW c \in Call
               PROVE  /\ heard'[c] <= 1
                      /\ heard'[c] > 0 =>
                           /\ Kept(c)
                           /\ \A i \in DOMAIN entry : entry[i].call = c => found = i
    BY <1>g, <2>1 DEF HeardOnce
  <2>4. CASE entry[found].call # c
    <3>1. heard'[c] = heard[c]
      BY <1>1, <2>1, <2>3, <2>4
    <3> QED
      BY <2>1, <3>1 DEF HeardOnce
  <2>5. CASE entry[found].call = c
    <3>1. heard'[c] = heard[c] + 1 /\ heard[c] \in Nat
      BY <1>1, <2>1, <2>5
    <3>2. ~(heard[c] > 0)
      BY <2>1, <2>2, <2>5 DEF HeardOnce
    <3>3. Kept(c) /\ \A i \in DOMAIN entry : entry[i].call = c => found = i
      BY <2>1, <2>2, <2>5 DEF OneEntry
    <3> QED
      BY <3>1, <3>2, <3>3
  <2> QED
    BY <2>4, <2>5
<1>3. ASSUME heard' = heard,
             \A c \in Call : \A i \in DOMAIN entry' :
               heard[c] > 0 /\ entry'[i].call = c
                 => stage' \in {"called", "unused"} /\ found' = i
      PROVE  HeardOnce'
  BY <1>3, <1>g DEF HeardOnce
<1>4. ASSUME NEW t \in Thread, WriteCallback(t)
      PROVE  HeardOnce'
  <2>1. /\ at[t] \in DOMAIN entry /\ DOMAIN entry' = DOMAIN entry
        /\ entry'[at[t]].call = Current(t)
        /\ \A j \in DOMAIN entry : j # at[t] => entry'[j] = entry[j]
        /\ ~Kept(Current(t))
        /\ UNCHANGED <<found, stage, heard>>
    BY <1>4, CallbackDoes, CallbackIsNew
  <2> QED
    BY <1>3, <2>1 DEF HeardOnce
<1>5. ASSUME ~(\E t \in Thread : WriteCallback(t)), ~CallBack PROVE HeardOnce'
  <2>1. \A c \in Call : \A i \in DOMAIN entry' :
          entry'[i].call = c => i \in DOMAIN entry /\ entry[i].call = c
    BY <1>5, CallsStay, CallIsPair
  <2>2. ASSUME UNCHANGED <<found, stage, heard>> PROVE HeardOnce'
    BY <1>3, <2>1, <2>2 DEF HeardOnce
  <2>3. ASSUME (\E request \in wire : Respond(request)) \/ Look PROVE HeardOnce'
    <3>1. stage \notin {"called", "unused"} /\ heard' = heard
      BY <2>3 DEF Respond, Look, Proceed
    <3> QED
      BY <1>3, <2>1, <3>1 DEF HeardOnce
  <2>4. ASSUME GiveFoundBack PROVE HeardOnce'
    <3>1. heard' = heard
      BY <2>4 DEF GiveFoundBack
    <3>2. CASE stage = "called"
      <4>1. stage' = "unused" /\ found' = found
        BY <2>4, <3>2 DEF GiveFoundBack, Proceed
      <4> QED
        BY <1>3, <2>1, <3>1, <4>1 DEF HeardOnce
    <3>3. CASE stage = "unused"
      <4>1. found \in DOMAIN entry /\ entry[found] \in Entry
        BY <3>3, Known
      <4>2. entry' = [entry EXCEPT ![found] = Uncalled(entry[found])]
        BY <2>4, <3>3 DEF GiveFoundBack, Proceed
      <4>3. Uncalled(entry[found]) \in Entry /\ Uncalled(entry[found]).call = NoCall
        BY <4>1, FieldsOf
      <4>4. entry'[found].call = NoCall
        BY <4>1, <4>2, <4>3, RewriteDoes
      <4> QED
        BY <1>3, <2>1, <3>1, <4>4, CallIsPair DEF HeardOnce
    <3>4. CASE stage \notin {"called", "unused"}
      BY <1>3, <2>1, <3>1, <3>4 DEF HeardOnce
    <3> QED
      BY <3>2, <3>3, <3>4
  <2>5. ASSUME NEW t \in Thread, ThreadStep(t)
        PROVE  UNCHANGED <<found, stage, heard>>
    BY <2>5 DEF ThreadStep, ReadId, WriteId, StartWalk, Walk, Allocate, AllocateFails,
         TestHead, LinkNext, LinkHead, WriteNothing, WriteEntryId, WriteCallback, WriteUsed,
         NoSender, Encode, EncodeFails, ReadLength, Take, TakeFails, Transmit, TransmitFails,
         GiveBack, receiving
  <2> QED
    BY <1>5, <2>2, <2>3, <2>4, <2>5 DEF Next, vars
<1> QED
  BY <1>2, <1>4, <1>5

\* Whatever the threads do to each other's entries, no callback is called twice:
\* a call is in one entry, and that entry forgets it after its callback
\* (jm_client.c:747-760).
THEOREM ThreadsCalledOnce == Spec => []CalledOnce
<1>1. Init => Typed /\ WrittenOnce
  <2> SUFFICES ASSUME Init PROVE WrittenOnce
    BY InitTyped
  <2>1. entry = << >> /\ heard = [c \in Call |-> 0]
    BY DEF Init
  <2> QED
    BY <2>1 DEF WrittenOnce, OneEntry, HeardOnce
<1>2. Typed /\ WrittenOnce /\ [Next]_vars => (Typed /\ WrittenOnce)'
  BY NextTyped, NextOneEntry, NextHeardOnce DEF WrittenOnce
<1>3. WrittenOnce => CalledOnce
  BY DEF WrittenOnce, HeardOnce, CalledOnce
<1> QED
  BY <1>1, <1>2, <1>3, PTL DEF Spec

-----------------------------------------------------------------------------
(* The list is in order.  An entry that a thread has not yet put in front  *)
(* is nobody's next, so linking it leads to older entries only: each entry *)
(* has a rank above that of its next.                                      *)

\* The entries that a thread is about to put in front of the list.
Held == {at[t] : t \in {u \in Thread : pc[u] \in Fresh}}
FreshAlone ==
  \A t, u \in Thread :
    pc[t] \in Fresh /\ pc[u] \in Fresh /\ at[t] = at[u] => t = u
Ranked(rank) ==
  \A e \in DOMAIN entry :
    entry[e].next # 0 => entry[e].next \notin Held /\ rank[entry[e].next] < rank[e]
Ordered ==
  /\ FreshAlone
  /\ head # 0 => head \notin Held
  /\ \E rank \in [Nat -> Nat] : Ranked(rank)

\* Only Allocate gives a thread an entry to put in front.
LEMMA FreshStays ==
  ASSUME Typed, [Next]_vars, ~\E t \in Thread : Allocate(t)
  PROVE  \A u \in Thread : pc'[u] \in Fresh => pc[u] \in Fresh /\ at'[u] = at[u]
<1>0. pc \in [Thread -> PC] /\ at \in [Thread -> Nat]
  BY DEF Typed, Placed
<1>1. ASSUME UNCHANGED <<pc, at>>, NEW u \in Thread, pc'[u] \in Fresh
      PROVE  pc[u] \in Fresh /\ at'[u] = at[u]
  BY <1>1
<1>2. ASSUME NEW t \in Thread, NEW v \in PC \ Fresh, NEW p, pc' = [pc EXCEPT ![t] = v],
             at' = at \/ at' = [at EXCEPT ![t] = p],
             NEW u \in Thread, pc'[u] \in Fresh
      PROVE  pc[u] \in Fresh /\ at'[u] = at[u]
  <2>1. u # t
    BY <1>0, <1>2
  <2>2. pc'[u] = pc[u] /\ at'[u] = at[u]
    BY <1>0, <1>2, <2>1
  <2> QED
    BY <1>2, <2>2
<1>3. ASSUME NEW t \in Thread, TestHead(t) \/ LinkNext(t), NEW u \in Thread, pc'[u] \in Fresh
      PROVE  pc[u] \in Fresh /\ at'[u] = at[u]
  <2>1. pc[t] \in Fresh /\ at' = at /\ \E v : pc' = [pc EXCEPT ![t] = v]
    BY <1>3 DEF TestHead, LinkNext, Now, local, Fresh
  <2>2. u # t => pc'[u] = pc[u]
    BY <1>0, <2>1
  <2> QED
    BY <1>3, <2>1, <2>2
<1>4. ASSUME NEW t \in Thread,
             \/ ReadId(t) \/ WriteId(t) \/ StartWalk(t) \/ AllocateFails(t) \/ LinkHead(t)
             \/ WriteNothing(t) \/ WriteEntryId(t) \/ WriteCallback(t) \/ WriteUsed(t),
             NEW u \in Thread, pc'[u] \in Fresh
      PROVE  pc[u] \in Fresh /\ at'[u] = at[u]
  <2>1. /\ \E v \in PC \ Fresh : pc' = [pc EXCEPT ![t] = v]
        /\ at' = at \/ \E p : at' = [at EXCEPT ![t] = p]
    BY <1>4 DEF ReadId, WriteId, StartWalk, AllocateFails, LinkHead, WriteNothing,
         WriteEntryId, WriteCallback, WriteUsed, Now, Returned, local, PC, Before, Holding, Fresh
  <2> QED
    BY <1>2, <1>4, <2>1
<1>5. ASSUME NEW t \in Thread,
             \/ NoSender(t) \/ Encode(t) \/ EncodeFails(t) \/ ReadLength(t) \/ Take(t)
             \/ TakeFails(t) \/ Transmit(t) \/ TransmitFails(t) \/ GiveBack(t),
             NEW u \in Thread, pc'[u] \in Fresh
      PROVE  pc[u] \in Fresh /\ at'[u] = at[u]
  <2>1. /\ \E v \in PC \ Fresh : pc' = [pc EXCEPT ![t] = v]
        /\ at' = at \/ \E p : at' = [at EXCEPT ![t] = p]
    BY <1>5 DEF NoSender, Encode, EncodeFails, ReadLength, Take, TakeFails, Transmit,
         TransmitFails, GiveBack, Now, Returned, local, PC, Before, Holding, Fresh
  <2> QED
    BY <1>2, <1>5, <2>1
<1>6. ASSUME NEW t \in Thread, Walk(t), NEW u \in Thread, pc'[u] \in Fresh
      PROVE  pc[u] \in Fresh /\ at'[u] = at[u]
  <2>1. /\ pc[t] = "walking"
        /\ pc' = pc \/ pc' = [pc EXCEPT ![t] = "claimed"]
        /\ at' = at \/ \E p : at' = [at EXCEPT ![t] = p]
    BY <1>6 DEF Walk, Now
  <2>2. u # t
    BY <1>0, <1>6, <2>1 DEF Fresh
  <2>3. pc'[u] = pc[u] /\ at'[u] = at[u]
    BY <1>0, <2>1, <2>2
  <2> QED
    BY <1>6, <2>3
<1>7. ASSUME (\E request \in wire : Respond(request)) \/ Look \/ CallBack \/ GiveFoundBack
      PROVE  UNCHANGED <<pc, at>>
  BY <1>7 DEF Respond, Look, CallBack, GiveFoundBack, local
<1> QED
  BY <1>1, <1>3, <1>4, <1>5, <1>6, <1>7 DEF Next, ThreadStep, vars

\* The same of the entries: only Allocate adds one to those that are held.
LEMMA HeldStays ==
  ASSUME Typed, [Next]_vars, ~\E t \in Thread : Allocate(t)
  PROVE  Held' \subseteq Held
<1>1. \A u \in Thread : pc'[u] \in Fresh => pc[u] \in Fresh /\ at'[u] = at[u]
  BY FreshStays
<1> QED
  BY <1>1 DEF Held

\* An entry that is put in front was its thread's alone.
LEMMA HeadMoves ==
  ASSUME Typed, FreshAlone, [Next]_vars, head' # head
  PROVE  head' \notin Held'
<1>0. pc \in [Thread -> PC]
  BY DEF Typed, Placed
<1>1. \E t \in Thread : LinkHead(t)
  <2>1. ASSUME NEW t \in Thread, ThreadStep(t), ~LinkHead(t) PROVE head' = head
    BY <2>1 DEF ThreadStep, ReadId, WriteId, StartWalk, Walk, Allocate, AllocateFails,
         TestHead, LinkNext, WriteNothing, WriteEntryId, WriteCallback, WriteUsed,
         NoSender, Encode, EncodeFails, ReadLength, Take, TakeFails, Transmit, TransmitFails,
         GiveBack, shared
  <2>2. ASSUME (\E request \in wire : Respond(request)) \/ Look \/ CallBack \/ GiveFoundBack
        PROVE  head' = head
    BY <2>2 DEF Respond, Look, CallBack, GiveFoundBack, shared
  <2> QED
    BY <2>1, <2>2 DEF Next, vars
<1>2. PICK t \in Thread : LinkHead(t)
  BY <1>1
<1>3. /\ pc[t] = "heading" /\ pc' = [pc EXCEPT ![t] = "claimed"]
      /\ head' = at[t] /\ at' = at
  BY <1>2 DEF LinkHead, Now, local
<1>4. ASSUME NEW u \in Thread, pc'[u] \in Fresh PROVE at'[u] # at[t]
  <2>1. u # t
    BY <1>0, <1>3, <1>4 DEF Fresh
  <2>2. pc'[u] = pc[u]
    BY <1>0, <1>3, <2>1
  <2> QED
    BY <1>3, <1>4, <2>1, <2>2 DEF FreshAlone, Fresh
<1> QED
  BY <1>3, <1>4 DEF Held

LEMMA NextOrdered ==
  ASSUME Typed, Ordered, [Next]_vars
  PROVE  Ordered'
<1>0. /\ entry \in Seq(Entry) /\ Len(entry) \in Nat /\ DOMAIN entry = 1 .. Len(entry)
      /\ head \in 0 .. Len(entry)
      /\ \A i \in DOMAIN entry : entry[i].next \in 0 .. Len(entry)
      /\ \A t \in Thread : at[t] \in 0 .. Len(entry)
      /\ pc \in [Thread -> PC] /\ at \in [Thread -> Nat]
  BY Known DEF Typed, Placed
<1>r. PICK rank \in [Nat -> Nat] : Ranked(rank)
  BY DEF Ordered
<1>h. head' # head => head' \notin Held'
  BY HeadMoves DEF Ordered
<1>1. ASSUME NEW t \in Thread, Allocate(t) PROVE Ordered'
  <2>1. /\ DOMAIN entry' = 1 .. (Len(entry) + 1)
        /\ entry'[Len(entry) + 1].next = 0
        /\ \A j \in DOMAIN entry : entry'[j] = entry[j]
        /\ at' = [at EXCEPT ![t] = Len(entry) + 1]
    BY <1>1, AllocateDoes
  <2>2. /\ pc[t] = "walking" /\ pc' = [pc EXCEPT ![t] = "testing"] /\ head' = head
    BY <1>1 DEF Allocate, Now
  <2>3. ASSUME NEW u \in Thread, u # t
        PROVE  pc'[u] = pc[u] /\ at'[u] = at[u] /\ at'[u] # at'[t]
    BY <1>0, <2>1, <2>2, <2>3
  <2>4. FreshAlone'
    <3>1. FreshAlone
      BY DEF Ordered
    <3> QED
      BY <2>3, <3>1 DEF FreshAlone
  <2>5. Held' \subseteq Held \cup {Len(entry) + 1}
    <3>1. at'[t] = Len(entry) + 1
      BY <1>0, <2>1
    <3> QED
      BY <2>3, <3>1 DEF Held
  <2>6. head' # 0 => head' \notin Held'
    BY <1>0, <2>2, <2>5 DEF Ordered
  <2>7. ASSUME NEW e \in DOMAIN entry', entry'[e].next # 0
        PROVE  entry'[e].next \notin Held' /\ rank[entry'[e].next] < rank[e]
    <3>1. e \in DOMAIN entry
      <4>1. e # Len(entry) + 1 /\ e \in 1 .. (Len(entry) + 1)
        BY <2>1, <2>7
      <4>2. Len(entry) \in Nat
        BY <1>0
      <4>3. e \in 1 .. Len(entry)
        BY <4>1, <4>2, NotTheNext
      <4> QED
        BY <1>0, <4>3
    <3>2. entry'[e].next = entry[e].next /\ entry[e].next # 0
      BY <2>1, <2>7, <3>1
    <3>3. entry[e].next \notin Held /\ rank[entry[e].next] < rank[e]
      BY <1>r, <3>1, <3>2 DEF Ranked
    <3>4. entry[e].next # Len(entry) + 1
      <4>1. Len(entry) \in Nat /\ entry[e].next \in 0 .. Len(entry)
        BY <1>0, <3>1
      <4> QED
        BY <4>1, NotTheNext
    <3> QED
      BY <2>5, <3>2, <3>3, <3>4
  <2> QED
    BY <2>4, <2>6, <2>7 DEF Ordered, Ranked
<1>2. ASSUME ~\E t \in Thread : Allocate(t) PROVE Ordered'
  <2>1. Held' \subseteq Held
    BY <1>2, HeldStays
  <2>2. FreshAlone'
    <3>1. \A u \in Thread : pc'[u] \in Fresh => pc[u] \in Fresh /\ at'[u] = at[u]
      BY <1>2, FreshStays
    <3> QED
      BY <3>1 DEF Ordered, FreshAlone
  <2>3. head' # 0 => head' \notin Held'
    BY <1>h, <2>1 DEF Ordered
  <2>4. ASSUME DOMAIN entry' = DOMAIN entry,
               \A i \in DOMAIN entry : entry'[i].next = entry[i].next
        PROVE  Ranked(rank)'
    BY <1>r, <2>1, <2>4 DEF Ranked
  <2>5. ASSUME NEW t \in Thread, LinkNext(t)
        PROVE  (\E other \in [Nat -> Nat] : Ranked(other))'
    <3>1. /\ at[t] \in DOMAIN entry /\ DOMAIN entry' = DOMAIN entry
          /\ entry'[at[t]].next = head
          /\ \A j \in DOMAIN entry : j # at[t] => entry'[j] = entry[j]
      BY <2>5, LinkNextDoes
    <3>2. at[t] \in Held
      BY <2>5 DEF LinkNext, Now, Fresh, Held
    <3>3. head \in Nat /\ at[t] \in Nat
      BY <1>0
    <3>4. PICK rank2 \in [Nat -> Nat] :
            /\ rank2[at[t]] = rank[head] + 1
            /\ \A n \in Nat : n # at[t] => rank2[n] = rank[n]
      <4> DEFINE raised == [rank EXCEPT ![at[t]] = rank[head] + 1]
      <4>1. rank[head] + 1 \in Nat
        BY <3>3
      <4>2. /\ raised \in [Nat -> Nat] /\ raised[at[t]] = rank[head] + 1
            /\ \A n \in Nat : n # at[t] => raised[n] = rank[n]
        BY <3>3, <4>1
      <4> QED
        BY <4>2
    <3>5. ASSUME NEW e \in DOMAIN entry', entry'[e].next # 0
          PROVE  entry'[e].next \notin Held' /\ rank2[entry'[e].next] < rank2[e]
      <4>1. CASE e = at[t]
        <5>1. entry'[e].next = head /\ head \notin Held
          BY <3>1, <3>5, <4>1 DEF Ordered
        <5>2. rank2[head] = rank[head] /\ rank[head] \in Nat
          BY <3>2, <3>3, <3>4, <5>1
        <5> QED
          BY <2>1, <3>4, <4>1, <5>1, <5>2
      <4>2. CASE e # at[t]
        <5>1. /\ e \in DOMAIN entry /\ entry'[e].next = entry[e].next
              /\ entry[e].next \notin Held /\ rank[entry[e].next] < rank[e]
          BY <1>r, <3>1, <3>5, <4>2 DEF Ranked
        <5>2. entry[e].next \in Nat
          <6>1. entry[e].next \in 0 .. Len(entry)
            BY <1>0, <5>1
          <6> QED
            BY <6>1
        <5>3. e \in Nat
          BY <1>0, <5>1
        <5>4. rank2[entry[e].next] = rank[entry[e].next] /\ rank2[e] = rank[e]
          BY <3>2, <3>4, <4>2, <5>1, <5>2, <5>3
        <5> QED
          BY <2>1, <5>1, <5>4
      <4> QED
        BY <4>1, <4>2
    <3>6. Ranked(rank2)'
      BY <3>4, <3>5 DEF Ranked
    <3> QED
      BY <3>4, <3>6
  <2>6. ASSUME NEW t \in Thread, WriteCallback(t) PROVE Ranked(rank)'
    <3>1. /\ at[t] \in DOMAIN entry /\ DOMAIN entry' = DOMAIN entry
          /\ entry'[at[t]].next = entry[at[t]].next
          /\ \A j \in DOMAIN entry : j # at[t] => entry'[j] = entry[j]
      BY <2>6, CallbackDoes
    <3>2. \A i \in DOMAIN entry : entry'[i].next = entry[i].next
      BY <3>1
    <3> QED
      BY <2>4, <3>1, <3>2
  <2>7. ASSUME NEW i \in DOMAIN entry, NEW e \in Entry, Rewrites(i, e) PROVE Ranked(rank)'
    <3>1. /\ DOMAIN entry' = DOMAIN entry /\ entry'[i] = e /\ e.next = entry[i].next
          /\ \A j \in DOMAIN entry : j # i => entry'[j] = entry[j]
      BY <2>7, RewriteDoes DEF Rewrites
    <3>2. \A j \in DOMAIN entry : entry'[j].next = entry[j].next
      BY <3>1
    <3> QED
      BY <2>4, <3>1, <3>2
  <2>8. entry' = entry => Ranked(rank)'
    BY <2>4
  <2>9. (\E other \in [Nat -> Nat] : Ranked(other))'
    BY <1>2, <1>r, <2>5, <2>6, <2>7, <2>8, EntrySteps
  <2> QED
    BY <2>2, <2>3, <2>9 DEF Ordered
<1> QED
  BY <1>1, <1>2

\* A list in order ends: of some entries, the one of the least rank is followed
\* by none of them.
LEMMA OrderedEnds == ASSUME Typed, Ordered PROVE ListEnds
<1>0. DOMAIN entry \subseteq Nat /\ 0 \notin DOMAIN entry
  <2>1. DOMAIN entry = 1 .. Len(entry) /\ Len(entry) \in Nat
    BY Known
  <2> QED
    BY <2>1
<1>1. PICK rank \in [Nat -> Nat] : Ranked(rank)
  BY DEF Ordered
<1>2. ASSUME NEW S \in SUBSET DOMAIN entry, S # {}
      PROVE  \E e \in S : entry[e].next \notin S
  <2> DEFINE R == {rank[x] : x \in S}
  <2>1. R \in SUBSET Nat /\ R # {}
    BY <1>0, <1>2
  <2>2. PICK r \in R : \A s \in R : r <= s
    BY <2>1, LeastNat
  <2>3. PICK e \in S : r = rank[e]
    BY <2>2
  <2>4. \A x \in S : rank[e] <= rank[x]
    BY <2>2, <2>3
  <2>5. ASSUME entry[e].next \in S PROVE FALSE
    <3>1. entry[e].next # 0 /\ entry[e].next \in Nat /\ e \in DOMAIN entry /\ e \in Nat
      BY <1>0, <2>5
    <3>2. rank[entry[e].next] < rank[e]
      BY <1>1, <3>1 DEF Ranked
    <3>3. rank[e] <= rank[entry[e].next]
      BY <2>4, <2>5
    <3>4. rank[e] \in Nat /\ rank[entry[e].next] \in Nat
      BY <3>1
    <3> QED
      BY <3>2, <3>3, <3>4
  <2> QED
    BY <2>5
<1> QED
  BY <1>2 DEF ListEnds

\* However the threads put their entries in front of the list at once, every walk
\* along it ends (jm_client.c:197-240): a lost entry is lost, but never turns the
\* list into a circle.
THEOREM ThreadsListEnds == Spec => []ListEnds
<1>1. Init => Typed /\ Ordered
  <2> SUFFICES ASSUME Init PROVE Ordered
    BY InitTyped
  <2>1. entry = << >> /\ head = 0 /\ pc = [t \in Thread |-> "idle"]
    BY DEF Init
  <2>2. FreshAlone
    BY <2>1 DEF FreshAlone, Fresh
  <2>3. [n \in Nat |-> 0] \in [Nat -> Nat] /\ Ranked([n \in Nat |-> 0])
    BY <2>1 DEF Ranked
  <2> QED
    BY <2>1, <2>2, <2>3 DEF Ordered
<1>2. Typed /\ Ordered /\ [Next]_vars => (Typed /\ Ordered)'
  BY NextTyped, NextOrdered
<1>3. Typed /\ Ordered => ListEnds
  BY OrderedEnds
<1> QED
  BY <1>1, <1>2, <1>3, PTL DEF Spec

=============================================================================
