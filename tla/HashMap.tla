------------------------------- MODULE HashMap -------------------------------
(***************************************************************************)
(* A hash map of jm_mem.c in use: entries are put and removed, and the map *)
(* is walked with an iterator while entries are put.  An entry is not      *)
(* removed during a walk: the one walk in the code, _ctrl_submitFuns,      *)
(* removes nothing, and a removal frees the item an iterator stands on.    *)
(***************************************************************************)
EXTENDS HashMapOps, FiniteSets, SequencesExt

CONSTANTS MaxSize   \* bound of the model: items in the map

VARIABLES
  map,      \* the map
  ite,      \* the iterator of the walk
  walking,  \* whether a walk goes on
  gone,     \* the key, if the last call was a removal that returned true
  visited,  \* the keys that the walk has returned, in order
  due       \* the keys that were there when it began

mapVars == <<map, ite, walking, gone, visited, due>>

KeysOf(m) == {k \in Key : Exists(m, k)}

MapInit ==
  /\ map = Created
  /\ ite = Fresh
  /\ walking = FALSE
  /\ gone = {}
  /\ visited = << >>
  /\ due = {}

PutEntry(k, v) ==
  /\ Exists(map, k) \/ map.size < MaxSize
  /\ map' = Put(map, k, v)
  /\ gone' = {}
  /\ UNCHANGED <<ite, walking, visited, due>>

RemoveEntry(k) ==
  /\ ~walking
  /\ map' = Removed(map, k)
  /\ gone' = (IF Removable(map, k) THEN {k} ELSE {})
  /\ UNCHANGED <<ite, walking, visited, due>>

Begin ==
  /\ ~walking
  /\ walking' = TRUE
  /\ due' = KeysOf(map)
  /\ gone' = {}
  /\ UNCHANGED <<map, ite, visited>>

IteNext ==
  /\ walking
  /\ \E it \in Advanced(map, ite) :
       /\ ite' = it
       /\ visited' = Append(visited, CurrentOf(map, it).key)
  /\ UNCHANGED <<map, walking, gone, due>>

\* hashmap_iteNext returns NULL: the walk is over and its iterator is gone.
IteEnds ==
  /\ walking
  /\ AtEnd(map, ite)
  /\ walking' = FALSE
  /\ ite' = Fresh
  /\ visited' = << >>
  /\ due' = {}
  /\ UNCHANGED <<map, gone>>

MapNext ==
  \/ \E k \in Key, v \in Value : PutEntry(k, v)
  \/ \E k \in Key : RemoveEntry(k)
  \/ Begin
  \/ IteNext
  \/ IteEnds

MapSpec == MapInit /\ [][MapNext]_mapVars

-----------------------------------------------------------------------------
\* When hashmap_iteNext returns NULL it has returned every entry that was there
\* when the walk began.
WalkComplete ==
  walking /\ AtEnd(map, ite) => due \subseteq ToSet(visited)

\* The keys the iterator has still to come to.
StillBehind ==
  IF ite.behind = 0 THEN {}
  ELSE {map.arr[ite.next - 1][i].key :
          i \in {j \in DOMAIN map.arr[ite.next - 1] :
                   j > Len(map.arr[ite.next - 1]) - ite.behind}}
StillAhead == {k \in KeysOf(map) : Idx(k) >= ite.next}

\* The map does for its callers what the partial function KeyedStore does.
Stored == [k \in Key |-> CHOOSE v \in GotBy(map, k) : TRUE]
Rest == IF walking THEN StillBehind \cup StillAhead ELSE {}
Store == INSTANCE KeyedStore WITH store <- Stored, rest <- Rest
KeepsStore == Store!Spec

=============================================================================
