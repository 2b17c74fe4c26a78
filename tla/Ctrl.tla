-------------------------------- MODULE Ctrl --------------------------------
(***************************************************************************)
(* The remote control functions of jm_ctrl.c: the registry (ctrl_registFun, *)
(* ctrl_unregist), the report of the functions to the server after each    *)
(* login, and the items that call a function and are answered.             *)
(*                                                                         *)
(* Every handler is a step: _ctrl_submitFuns walks the whole registry in   *)
(* one callback (HashMap shows that the walk finds every entry).  Messages *)
(* between device and server are lost, up to a bound, and reordered; a     *)
(* callback runs at most once (CallbackContract of RpcWait).  The server   *)
(* is external: it keeps the last version it was told of each function.    *)
(*                                                                         *)
(* ctrl_unregist frees a function before hashmap_remove is asked to take   *)
(* out its entry, which it refuses in a chain of several: the entry stays, *)
(* with the address of freed memory.  That holds what it held until it is  *)
(* allocated again, for another function; whoever uses it may as well end  *)
(* the program, and the device starts again.                               *)
(***************************************************************************)
EXTENDS HashMapOps, Integers, FiniteSets

CONSTANTS
  Version,     \* versions that functions are registered with
  Peer,        \* who sends items to the device
  MaxChanges,  \* bound: registrations and removals
  MaxLosses,   \* bound: messages lost and requests that cannot be sent
  MaxNet       \* bound: messages under way when the device logs in

ASSUME CtrlAssumption ==
  /\ Version \subseteq 0 .. 255
  /\ MaxChanges \in Nat /\ MaxLosses \in Nat /\ MaxNet \in Nat

VARIABLES
  functionItems, \* the map from names to ctrl_item objects
  object,        \* what each ctrl_item block holds, or last held
  allocated,     \* the blocks that os_zalloc has given and os_free not taken
  refused,       \* the names for which ctrl_unregist has returned false
  again,         \* one of them was unregistered once more
  net,           \* messages between the device and the server
  known,         \* the server's version of each function
  last,          \* if the last step handled an item: it, what it called, the answer
  changes,       \* registrations and removals so far
  losses         \* messages lost so far

registry == <<functionItems, object, allocated, refused, again>>
vars == <<registry, net, known, last, changes, losses>>

Blank == [name |-> NoValue, given |-> 0]
Unknown == -129                        \* no version: less than every sint8
Report == [Key -> {Unknown} \cup (-128 .. 127)]
Nothing == [n \in Key |-> Unknown]

\* The uint8 ver of ctrl_registFun is kept, sent and compared as a sint8.
Sint8(v) == IF v > 127 THEN v - 256 ELSE v
Uint8(v) == IF v < 0 THEN v + 256 ELSE v

Registered == {n \in Key : Exists(functionItems, n)}
ItemsOf(names) == UNION {GotBy(functionItems, n) : n \in names}

Request == [from : Peer, type : {"ctrl", "other"},
            data : {"none", "unnamed"} \cup Key, udp : BOOLEAN]
NoReply == [code |-> "none"]
NoRequest == [from |-> "none", type |-> "none", data |-> "none", udp |-> FALSE]
NoCall == [request |-> NoRequest, ran |-> NoValue, reply |-> NoReply]

Init ==
  /\ functionItems = Created
  /\ object = [o \in Value |-> Blank]
  /\ allocated = {}
  /\ refused = {}
  /\ again = FALSE
  /\ net = {}
  /\ known = Nothing
  /\ last = NoCall
  /\ changes = 0
  /\ losses = 0

-----------------------------------------------------------------------------
(* The registry.                                                           *)

\* ctrl_registFun: refused for a name that is there.
Taken(n) == Exists(functionItems, n)
Register(n, v) ==
  /\ ~Taken(n)
  /\ changes < MaxChanges
  /\ \E o \in Value \ allocated :
       /\ object' = [object EXCEPT ![o] = [name |-> n, given |-> v]]
       /\ allocated' = allocated \cup {o}
       /\ functionItems' = Put(functionItems, n, o)
  /\ changes' = changes + 1
  /\ last' = NoCall
  /\ UNCHANGED <<refused, again, net, known, losses>>

\* ctrl_unregist: the object is freed, whether or not it is still there, and
\* the entry is to be removed; the caller is told whether it was.
ToldAlways(n) == TRUE                      \* deviation: nobody looks at the result
Told(n) == Removable(functionItems, n)
Unregister(n) ==
  /\ changes < MaxChanges
  /\ Exists(functionItems, n)
  /\ allocated' = allocated \ GotBy(functionItems, n)
  /\ functionItems' = Removed(functionItems, n)
  /\ refused' = IF Told(n) THEN refused ELSE refused \cup {n}
  /\ again' = (again \/ n \in refused)
  /\ changes' = changes + 1
  /\ last' = NoCall
  /\ UNCHANGED <<object, net, known, losses>>

\* A walk, a call or a removal comes upon freed memory, and the program ends.
\* The device starts again with ctrl_init and knows nothing of what it asked.
Breaks ==
  /\ ItemsOf(Registered) \ allocated # {}
  /\ functionItems' = Created
  /\ object' = [o \in Value |-> Blank]
  /\ allocated' = {}
  /\ refused' = {}
  /\ again' = FALSE
  /\ net' = {m \in net : m.kind = "save"}
  /\ last' = NoCall
  /\ UNCHANGED <<known, changes, losses>>

-----------------------------------------------------------------------------
(* The report to the server.                                               *)

Message == {[kind |-> "ask"]}
           \cup [kind : {"versions"}, report : Report]
           \cup [kind : {"save"}, name : Key, ver : -128 .. 127]

\* _ctrl_jmLoginListener asks for the versions; the request may not be sent.
Ask ==
  /\ Cardinality(net) < MaxNet
  /\ \/ net' = net \cup {[kind |-> "ask"]} /\ UNCHANGED losses
     \/ losses < MaxLosses /\ losses' = losses + 1 /\ UNCHANGED net
  /\ last' = NoCall
  /\ UNCHANGED <<registry, known, changes>>

\* _ctrl_submitFuns walks the entries: everything when the server knows
\* nothing, else what it does not know or knows an older version of, by the
\* name in the object.
NewTo(report, o) == report[object[o].name] = Unknown
DueNewOnly(report) ==                      \* deviation: versions not compared
  {o \in ItemsOf(Registered) : NewTo(report, o)}
Due(report) ==
  {o \in ItemsOf(Registered) :
     report = Nothing \/ NewTo(report, o) \/ Sint8(object[o].given) > report[object[o].name]}

\* _ctrl_onRpcResult with the versions: _ctrl_updateOneFun invokes an RPC for
\* each function that is due; those that cannot be sent are not tried again.
\* The second walk of _ctrl_submitFuns, for functions to delete, comes to none:
\* extra_iteNext returns NULL for an iterator without a current extra.
Submission(o) == [kind |-> "save", name |-> object[o].name, ver |-> Sint8(object[o].given)]
OnVersions(report) ==
  /\ [kind |-> "versions", report |-> report] \in net
  /\ \E failed \in SUBSET Due(report) :
       /\ losses + Cardinality(failed) <= MaxLosses
       /\ losses' = losses + Cardinality(failed)
       /\ net' = (net \ {[kind |-> "versions", report |-> report]})
                 \cup {Submission(o) : o \in Due(report) \ failed}
  /\ last' = NoCall
  /\ UNCHANGED <<registry, known, changes>>

\* The server answers with what it knows.
ServerReports ==
  /\ [kind |-> "ask"] \in net
  /\ net' = (net \ {[kind |-> "ask"]}) \cup {[kind |-> "versions", report |-> known]}
  /\ last' = NoCall
  /\ UNCHANGED <<registry, known, changes, losses>>

ServerSaves(n, v) ==
  /\ [kind |-> "save", name |-> n, ver |-> v] \in net
  /\ net' = net \ {[kind |-> "save", name |-> n, ver |-> v]}
  /\ known' = [known EXCEPT ![n] = v]
  /\ last' = NoCall
  /\ UNCHANGED <<registry, changes, losses>>

\* A message is lost, or an answer says that the call failed.
Lose(m) ==
  /\ m \in net
  /\ losses < MaxLosses
  /\ losses' = losses + 1
  /\ net' = net \ {m}
  /\ last' = NoCall
  /\ UNCHANGED <<registry, known, changes>>

-----------------------------------------------------------------------------
(* Items that call a function.                                             *)

\* _ctrl_respExtra and _ctrl_getUdpExtra: back to the sender, directly when the
\* item asked for that.
RespondedTwisted(r, code) ==               \* deviation: fr and to not exchanged
  [code |-> code, to |-> "device", direct |-> r.udp]
Responded(r, code) == [code |-> code, to |-> r.from, direct |-> r.udp]

Answer(r, o, code) ==
  last' = [request |-> r, ran |-> o, reply |-> Responded(r, code)]

\* _ctrl_onPubsubItemTypeListener and _ctrl_invokeFunc: the errors 1, 2 and 3,
\* or the function, which returns a result, or none and is not answered.  The
\* other types (the link test, the LED) change nothing here.
HandleItem(r) ==
  /\ \/ r.type # "ctrl" /\ last' = NoCall
     \/ r.type = "ctrl" /\ r.data = "none" /\ Answer(r, NoValue, "1")
     \/ r.type = "ctrl" /\ r.data = "unnamed" /\ Answer(r, NoValue, "2")
     \/ /\ r.type = "ctrl" /\ r.data \in Key
        /\ \E o \in GotBy(functionItems, r.data) :
             \/ o = NoValue /\ Answer(r, o, "3")
             \/ o # NoValue /\ Answer(r, o, "result")
             \/ o # NoValue /\ last' = [request |-> r, ran |-> o, reply |-> NoReply]
  /\ UNCHANGED <<registry, net, known, changes, losses>>

-----------------------------------------------------------------------------
Reports == {m.report : m \in {x \in net : x.kind = "versions"}}
Submissions == {m \in net : m.kind = "save"}

Next ==
  \/ \E n \in Key, v \in Version : Register(n, v)
  \/ \E n \in Key : Unregister(n)
  \/ Breaks
  \/ Ask
  \/ \E report \in Reports : OnVersions(report)
  \/ ServerReports
  \/ \E m \in Submissions : ServerSaves(m.name, m.ver)
  \/ \E m \in net : Lose(m)
  \/ \E r \in Request : HandleItem(r)

\* What is sent and not lost arrives and is handled.
Fairness ==
  /\ WF_vars(ServerReports)
  /\ WF_vars(\E m \in Submissions : ServerSaves(m.name, m.ver))
  /\ WF_vars(\E report \in Reports : OnVersions(report))

Spec == Init /\ [][Next]_vars /\ Fairness

-----------------------------------------------------------------------------

\* Whatever names share a bucket and whatever memory is allocated again: the
\* entry of every function is one that is allocated, under its own name, but
\* for those of which ctrl_unregist (jm_ctrl.c:93-101) told its caller that it
\* could not take out the entry; until one of those is unregistered once more,
\* which frees what may be another function by then.
EntriesLive ==
  ~again =>
    \A n \in Registered \ refused : \A o \in GotBy(functionItems, n) :
      o \in allocated /\ object[o].name = n

\* _ctrl_invokeFunc (jm_ctrl.c:171-199) calls a function that is registered when
\* the item arrives, and the one the item names, with the same exception; the
\* answer goes to whoever sent the item, the way the item asked for, even when
\* there is no such function.
CallsByName ==
  LET r == last.request IN
  /\ last.ran # NoValue /\ ~again /\ r.data \notin refused =>
       last.ran \in allocated /\ object[last.ran].name = r.data
  /\ last.reply # NoReply =>
       last.reply.to = r.from /\ last.reply.direct = r.udp

\* If the device logs in again and again, the server comes to know every
\* registered function in at least the version it was registered with, whatever
\* was lost or overtaken before and although no submission is ever repeated;
\* with the exception of EntriesLive.
Synced ==
  \A n \in Registered \ refused : \A o \in GotBy(functionItems, n) :
    known[n] # Unknown /\ Uint8(known[n]) >= object[o].given
CatchesUp == []<><<Ask>>_vars => <>[](~again => Synced)

=============================================================================
