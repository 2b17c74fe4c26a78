----------------------------- MODULE KeyedStore -----------------------------
(***************************************************************************)
(* What the hash map of jm_mem.c promises its callers: a partial function  *)
(* from keys to values, an entry that goes exactly when the removal says   *)
(* so, and a walk that visits each entry there is once.  An entry that is  *)
(* added during the walk may or may not be visited.                        *)
(***************************************************************************)
CONSTANTS Key, Value, NoValue

VARIABLES
  store,   \* the value of each key, NoValue when it has none
  gone,    \* the key, if the last call was a removal that returned true
  rest     \* the keys the walk still has to visit

None == [k \in Key |-> NoValue]
Present == {k \in Key : store[k] # NoValue}

Init == store = None /\ gone = {} /\ rest = {}

Put(k, v) ==
  /\ store' = [store EXCEPT ![k] = v]
  /\ rest' \in (IF k \in Present THEN {rest} ELSE {rest, rest \cup {k}})
  /\ gone' = {}

\* A removal is refused for a key that is not there, or may be for one that is.
Remove(k) ==
  /\ UNCHANGED rest
  /\ \/ /\ k \in Present
        /\ gone' = {k}
        /\ store' = [store EXCEPT ![k] = NoValue]
     \/ gone' = {} /\ UNCHANGED store

Begin == rest' = Present /\ gone' = {} /\ UNCHANGED store

Visit(k) ==
  /\ k \in rest
  /\ rest' = rest \ {k}
  /\ UNCHANGED <<store, gone>>

Next ==
  \/ \E k \in Key, v \in Value : Put(k, v)
  \/ \E k \in Key : Remove(k)
  \/ Begin
  \/ \E k \in Key : Visit(k)

Spec == Init /\ [][Next]_<<store, gone, rest>>
=============================================================================
