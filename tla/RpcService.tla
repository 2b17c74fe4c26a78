----------------------------- MODULE RpcService -----------------------------
(***************************************************************************)
(* What client_invokeRpc promises to its callers, without the table of     *)
(* wait entries that implements it (src/src/jm_client.c).  A caller makes  *)
(* one call; the call may be accepted under a message id that no other     *)
(* call has, and from then on it is owed at most one callback, which       *)
(* carries the response to that id and to no other.                        *)
(***************************************************************************)
EXTENDS Naturals

CONSTANTS
  Calls,   \* the calls the program may make of client_invokeRpc
  Ids      \* the message ids

VARIABLES
  pending,   \* the <<call, id>> pairs whose callback is still owed
  running,   \* the pairs whose callback has been entered and not left
  answered   \* the pairs whose callback has been entered

vars == <<pending, running, answered>>

Owed == pending \cup answered

CallsOf(pairs) == {p[1] : p \in pairs}
IdsOf(pairs) == {p[2] : p \in pairs}

Init ==
  /\ pending = {}
  /\ running = {}
  /\ answered = {}

(* A call is accepted: neither the call nor its id has been used before.   *)
Accept(c, id) ==
  /\ c \notin CallsOf(Owed)
  /\ id \notin IdsOf(Owed)
  /\ pending' = pending \cup {<<c, id>>}
  /\ UNCHANGED <<running, answered>>

(* The response to an accepted call arrives: its callback is entered.      *)
Enter(p) ==
  /\ running = {}
  /\ pending' = pending \ {p}
  /\ running' = {p}
  /\ answered' = answered \cup {p}

Leave ==
  /\ running # {}
  /\ running' = {}
  /\ UNCHANGED <<pending, answered>>

Next ==
  \/ \E c \in Calls, id \in Ids : Accept(c, id)
  \/ \E p \in pending : Enter(p)
  \/ Leave

Spec == Init /\ [][Next]_vars
=============================================================================
