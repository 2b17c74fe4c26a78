----------------------------- MODULE HashMapOps -----------------------------
(***************************************************************************)
(* The hash map of jm_mem.c as operators on a record: arr holds the chain  *)
(* of each bucket, newest item first, and size what the map believes it    *)
(* has.  Keys are values; all that matters of one is its hash.             *)
(***************************************************************************)
EXTENDS Naturals, Sequences

CONSTANTS
  Key,       \* the keys: strings, never NULL
  Value,     \* what is stored under them: pointers
  NoValue,   \* the NULL pointer
  Hash,      \* jm_hash32 of each key
  AskedCap   \* the capacity hashmap_create is called with

ASSUME HashMapAssumption ==
  /\ NoValue \notin Value \cup Key
  /\ Hash \in [Key -> Nat]
  /\ AskedCap \in Nat

Cap == IF AskedCap = 0 THEN 11 ELSE AskedCap
Buckets == 0 .. (Cap - 1)
Item == [key : Key, val : Value]
Map == [arr : [Buckets -> Seq(Item)], size : Nat]

\* hashmap_create
Created == [arr |-> [b \in Buckets |-> << >>], size |-> 0]

Idx(k) == Hash[k] % Cap

\* _hashmap_getItem: the places of key k in its chain; the walk stops at the
\* first.
Places(m, k) == {i \in DOMAIN m.arr[Idx(k)] : m.arr[Idx(k)][i].key = k}
IsFirst(i, S) == i \in S /\ \A j \in S : i <= j

\* hashmap_exist, and what hashmap_get returns
Exists(m, k) == Places(m, k) # {}
GotBy(m, k) ==
  IF Exists(m, k)
  THEN {m.arr[Idx(k)][i].val : i \in {j \in Places(m, k) : IsFirst(j, Places(m, k))}}
  ELSE {NoValue}

\* hashmap_put
Put(m, k, v) ==
  IF Exists(m, k)
  THEN [m EXCEPT !.arr[Idx(k)] =
          [i \in DOMAIN @ |-> IF IsFirst(i, Places(m, k))
                               THEN [@[i] EXCEPT !.val = v] ELSE @[i]]]
  ELSE [m EXCEPT !.arr[Idx(k)] = <<[key |-> k, val |-> v]>> \o @,
                 !.size = @ + 1]

\* hashmap_remove: a chain of one item is compared and emptied.  For a longer
\* one the walk starts at the address of the array's slot, taken for an item:
\* its "key" is the address of the chain's head and its "next" the head of the
\* second chain after this one, where the key cannot be.  It finds nothing.
RemovableAnyHead(m, k) ==        \* deviation: the single item is not compared
  Len(m.arr[Idx(k)]) = 1
Removable(m, k) == Len(m.arr[Idx(k)]) = 1 /\ m.arr[Idx(k)][1].key = k
Removed(m, k) ==
  IF Removable(m, k)
  THEN [m EXCEPT !.arr[Idx(k)] = << >>, !.size = @ - 1] ELSE m

\* A jm_hash_map_iterator_t: the next bucket to look at (idx + 1), and how many
\* items the chain has behind the current one (items are added in front of it).
Iterator == [next : 0 .. Cap, behind : Nat]
Fresh == [next |-> 0, behind |-> 0]

\* hashmap_iteNext: the rest of the chain, then the next chain that has items.
Ahead(m, it) == {b \in Buckets : b >= it.next /\ m.arr[b] # << >>}
AtEnd(m, it) == it.behind = 0 /\ Ahead(m, it) = {}
AdvancedHeads(m, it) ==          \* deviation: no chain is followed
  {[next |-> b + 1, behind |-> 0] : b \in {c \in Buckets : IsFirst(c, Ahead(m, it))}}
Advanced(m, it) ==
  IF it.behind > 0 THEN {[it EXCEPT !.behind = @ - 1]}
  ELSE {[next |-> b + 1, behind |-> Len(m.arr[b]) - 1] :
          b \in {c \in Buckets : IsFirst(c, Ahead(m, it))}}
CurrentOf(m, it) ==
  LET chain == m.arr[it.next - 1] IN chain[Len(chain) - it.behind]

=============================================================================
