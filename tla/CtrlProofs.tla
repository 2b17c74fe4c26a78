------------------------------ MODULE CtrlProofs ------------------------------
(***************************************************************************)
(* Theorems of HashMap, for every set of keys and values, every hash and   *)
(* every capacity; and of what jm_ctrl.c builds: the registry of functions *)
(* on such a map (Ctrl), and the configuration that its one function keeps *)
(* (DeviceConfig).                                                         *)
(***************************************************************************)
EXTENDS HashMap, Ctrl, DeviceConfig, TLAPS

Maps == [arr : [Buckets -> Seq(Item)], size : Int]
ChainLen(m, b) == Len(m.arr[b])

\* A chain holds keys of its own bucket, each once.
KeyAt(m, b, i) == m.arr[b][i].key
Filed(m) ==
  \A b \in Buckets : \A i \in 1 .. ChainLen(m, b) : Idx(KeyAt(m, b, i)) = b
Once(m) ==
  \A b \in Buckets : \A i, j \in 1 .. ChainLen(m, b) :
    KeyAt(m, b, i) = KeyAt(m, b, j) => i = j

Good(m) == m \in Maps /\ Filed(m) /\ Once(m)

\* An iterator stands on an item of its chain, or before the first.
Fits(m, it) ==
  /\ it \in Iterator
  /\ it.next = 0 => it.behind = 0
  /\ it.next # 0 => it.behind = 0 \/ it.behind < ChainLen(m, it.next - 1)

\* What a walk has still to come to: in its chain, and in later chains.
Behind(m, it, k) ==
  /\ it.behind > 0
  /\ \E i \in 1 .. ChainLen(m, it.next - 1) :
       /\ i > ChainLen(m, it.next - 1) - it.behind
       /\ KeyAt(m, it.next - 1, i) = k
Later(m, it, k) == Exists(m, k) /\ Idx(k) >= it.next
RestOf(m, it) == {k \in Key : Behind(m, it, k) \/ Later(m, it, k)}

ValueOf(m, k) == CHOOSE v \in GotBy(m, k) : TRUE

\* Every key that was there when the walk began has been met or is still to
\* come.
AllMet == walking => due \subseteq RestOf(map, ite) \cup ToSet(visited)

IInv ==
  /\ Good(map)
  /\ Fits(map, ite)
  /\ walking \in BOOLEAN
  /\ ~walking => ite = Fresh
  /\ visited \in Seq(Key)
  /\ due \subseteq Key
  /\ AllMet

-----------------------------------------------------------------------------
(* Chains                                                                  *)

\* Every key has a bucket.
LEMMA IdxType ==
  /\ Cap \in Nat \ {0}
  /\ Buckets = 0 .. (Cap - 1)
  /\ \A k \in Key : Idx(k) \in Buckets
  BY HashMapAssumption DEF Cap, Buckets, Idx

\* What the chains of a map hold.
LEMMA ChainType ==
  ASSUME NEW m \in Maps, NEW b \in Buckets
  PROVE  /\ m.arr[b] \in Seq(Item)
         /\ ChainLen(m, b) \in Nat
         /\ DOMAIN m.arr[b] = 1 .. ChainLen(m, b)
         /\ \A i \in 1 .. ChainLen(m, b) :
              m.arr[b][i] \in Item /\ KeyAt(m, b, i) \in Key
                                   /\ m.arr[b][i].val \in Value
<1>1. m.arr[b] \in Seq(Item)
  BY DEF Maps
<1>2. \A i \in 1 .. ChainLen(m, b) : m.arr[b][i] \in Item
  BY <1>1 DEF ChainLen
<1> QED
  BY <1>1, <1>2 DEF ChainLen, KeyAt, Item

\* A key is in the map when some item of its chain has it, and then that is the
\* item _hashmap_getItem finds.
LEMMA PlaceOfKey ==
  ASSUME NEW m \in Maps, Once(m), NEW k \in Key
  PROVE  /\ Exists(m, k) <=>
              \E i \in 1 .. ChainLen(m, Idx(k)) : KeyAt(m, Idx(k), i) = k
         /\ \A i \in 1 .. ChainLen(m, Idx(k)) :
              KeyAt(m, Idx(k), i) = k =>
                /\ Places(m, k) = {i}
                /\ \A j \in 1 .. ChainLen(m, Idx(k)) :
                     IsFirst(j, Places(m, k)) <=> j = i
<1>1. Idx(k) \in Buckets /\ DOMAIN m.arr[Idx(k)] = 1 .. ChainLen(m, Idx(k))
      /\ ChainLen(m, Idx(k)) \in Nat
  BY IdxType, ChainType
<1>2. Places(m, k) = {i \in 1 .. ChainLen(m, Idx(k)) : KeyAt(m, Idx(k), i) = k}
  BY <1>1 DEF Places, KeyAt
<1>3. ASSUME NEW i \in 1 .. ChainLen(m, Idx(k)), KeyAt(m, Idx(k), i) = k
      PROVE  Places(m, k) = {i}
  BY <1>1, <1>2, <1>3 DEF Once
<1>4. ASSUME NEW i \in 1 .. ChainLen(m, Idx(k)), KeyAt(m, Idx(k), i) = k,
             NEW j \in 1 .. ChainLen(m, Idx(k))
      PROVE  IsFirst(j, Places(m, k)) <=> j = i
  <2>1. i \in Nat
    BY <1>1
  <2> QED
    BY <1>3, <1>4, <2>1 DEF IsFirst
<1> QED
  BY <1>2, <1>3, <1>4 DEF Exists

\* An item put in front of a chain.
LEMMA InFront ==
  ASSUME NEW s \in Seq(Item), NEW x \in Item
  PROVE  /\ <<x>> \o s \in Seq(Item)
         /\ Len(<<x>> \o s) = Len(s) + 1
         /\ (<<x>> \o s)[1] = x
         /\ \A i \in 1 .. Len(s) : (<<x>> \o s)[i + 1] = s[i]
  OBVIOUS

\* hashmap_put of a key that is there changes its value and nothing else.
LEMMA PutOld ==
  ASSUME NEW m \in Maps, Once(m), NEW k \in Key, NEW v \in Value,
         Exists(m, k)
  PROVE  /\ Put(m, k, v) \in Maps
         /\ \A b \in Buckets : ChainLen(Put(m, k, v), b) = ChainLen(m, b)
         /\ \A b \in Buckets : \A i \in 1 .. ChainLen(m, b) :
              KeyAt(Put(m, k, v), b, i) = KeyAt(m, b, i)
         /\ \A b \in Buckets : \A i \in 1 .. ChainLen(m, b) :
              Put(m, k, v).arr[b][i].val =
                IF KeyAt(m, b, i) = k /\ b = Idx(k) THEN v ELSE m.arr[b][i].val
<1> DEFINE p == Put(m, k, v)
           c == Idx(k)
           s == [i \in DOMAIN m.arr[c] |->
                   IF IsFirst(i, Places(m, k))
                   THEN [m.arr[c][i] EXCEPT !.val = v] ELSE m.arr[c][i]]
<1>1. c \in Buckets /\ m.arr \in [Buckets -> Seq(Item)] /\ m.size \in Int
  BY IdxType DEF Maps
<1>2. /\ m.arr[c] \in Seq(Item) /\ DOMAIN m.arr[c] = 1 .. ChainLen(m, c)
      /\ ChainLen(m, c) \in Nat
      /\ \A i \in 1 .. ChainLen(m, c) : m.arr[c][i] \in Item
  BY <1>1, ChainType
<1>3. p = [m EXCEPT !.arr[c] = s]
  BY DEF Put
<1>4. s \in [1 .. ChainLen(m, c) -> Item]
  <2>1. ASSUME NEW i \in 1 .. ChainLen(m, c)
        PROVE  (IF IsFirst(i, Places(m, k))
                THEN [m.arr[c][i] EXCEPT !.val = v] ELSE m.arr[c][i]) \in Item
    BY <1>2 DEF Item
  <2> QED
    BY <1>2, <2>1, Zenon
<1>5. ASSUME NEW i \in 1 .. ChainLen(m, c)
      PROVE  /\ s[i].key = KeyAt(m, c, i)
             /\ s[i].val = IF KeyAt(m, c, i) = k THEN v ELSE m.arr[c][i].val
  <2>1. m.arr[c][i] \in Item /\ i \in DOMAIN m.arr[c]
    BY <1>2
  <2>2. IsFirst(i, Places(m, k)) <=> KeyAt(m, c, i) = k
    <3>1. PICK j \in 1 .. ChainLen(m, c) : KeyAt(m, c, j) = k
      BY PlaceOfKey
    <3>2. IsFirst(i, Places(m, k)) <=> i = j
      BY <3>1, PlaceOfKey
    <3>3. KeyAt(m, c, i) = k <=> i = j
      BY <1>1, <3>1 DEF Once
    <3> QED
      BY <3>2, <3>3
  <2> QED
    BY <2>1, <2>2 DEF KeyAt, Item
<1> HIDE DEF s, c, p
<1>6. s \in Seq(Item) /\ Len(s) = ChainLen(m, c)
  BY <1>2, <1>4
<1>7. /\ p.arr = [m.arr EXCEPT ![c] = s] /\ p.size = m.size
      /\ p = [arr |-> [m.arr EXCEPT ![c] = s], size |-> m.size]
  BY <1>1, <1>3 DEF Maps
<1>8. p \in Maps
  BY <1>1, <1>6, <1>7 DEF Maps
<1>9. \A b \in Buckets : p.arr[b] = IF b = c THEN s ELSE m.arr[b]
  BY <1>1, <1>7
<1>10. \A b \in Buckets : ChainLen(p, b) = ChainLen(m, b)
  BY <1>6, <1>9 DEF ChainLen
<1>11. \A b \in Buckets : \A i \in 1 .. ChainLen(m, b) : KeyAt(p, b, i) = KeyAt(m, b, i)
  BY <1>5, <1>9 DEF KeyAt
<1>12. ASSUME NEW b \in Buckets, NEW i \in 1 .. ChainLen(m, b)
       PROVE  p.arr[b][i].val = IF KeyAt(m, b, i) = k /\ b = c THEN v
                                ELSE m.arr[b][i].val
  BY <1>5, <1>9
<1> QED
  BY <1>8, <1>10, <1>11, <1>12 DEF p, c

\* hashmap_put of a key that is not there puts an item in front of its chain.
LEMMA PutNew ==
  ASSUME NEW m \in Maps, NEW k \in Key, NEW v \in Value, ~Exists(m, k)
  PROVE  /\ Put(m, k, v) \in Maps
         /\ \A b \in Buckets \ {Idx(k)} : Put(m, k, v).arr[b] = m.arr[b]
         /\ ChainLen(Put(m, k, v), Idx(k)) = ChainLen(m, Idx(k)) + 1
         /\ Put(m, k, v).arr[Idx(k)][1] = [key |-> k, val |-> v]
         /\ \A i \in 1 .. ChainLen(m, Idx(k)) :
              Put(m, k, v).arr[Idx(k)][i + 1] = m.arr[Idx(k)][i]
<1> DEFINE p == Put(m, k, v)
           c == Idx(k)
           x == [key |-> k, val |-> v]
           s == <<x>> \o m.arr[c]
<1>1. /\ c \in Buckets /\ m.arr \in [Buckets -> Seq(Item)] /\ m.size \in Int
      /\ m.arr[c] \in Seq(Item) /\ x \in Item
  BY IdxType DEF Maps, Item
<1>2. p = [m EXCEPT !.arr[c] = s, !.size = m.size + 1]
  BY DEF Put
<1>3. /\ s \in Seq(Item) /\ Len(s) = Len(m.arr[c]) + 1 /\ s[1] = x
      /\ \A i \in 1 .. Len(m.arr[c]) : s[i + 1] = m.arr[c][i]
  BY <1>1, InFront
<1> HIDE DEF s, c, p, x
<1>4. /\ p.arr = [m.arr EXCEPT ![c] = s]
      /\ p = [arr |-> [m.arr EXCEPT ![c] = s], size |-> m.size + 1]
  BY <1>1, <1>2 DEF Maps
<1>5. p \in Maps
  BY <1>1, <1>3, <1>4 DEF Maps
<1>6. \A b \in Buckets : p.arr[b] = IF b = c THEN s ELSE m.arr[b]
  BY <1>1, <1>4
<1> QED
  BY <1>1, <1>3, <1>5, <1>6 DEF p, c, x, ChainLen

\* hashmap_remove empties a chain of one item, or changes nothing.
LEMMA RemovedChain ==
  ASSUME NEW m \in Maps, NEW k \in Key, Removable(m, k)
  PROVE  /\ Removed(m, k) \in Maps
         /\ \A b \in Buckets :
              Removed(m, k).arr[b] = IF b = Idx(k) THEN << >> ELSE m.arr[b]
<1> DEFINE p == Removed(m, k)
           c == Idx(k)
<1>1. c \in Buckets /\ m.arr \in [Buckets -> Seq(Item)] /\ m.size \in Int
  BY IdxType DEF Maps
<1>2. p = [m EXCEPT !.arr[c] = << >>, !.size = m.size - 1]
  BY DEF Removed
<1> HIDE DEF c, p
<1>3. /\ p.arr = [m.arr EXCEPT ![c] = << >>]
      /\ p = [arr |-> [m.arr EXCEPT ![c] = << >>], size |-> m.size - 1]
  BY <1>1, <1>2 DEF Maps
<1>4. p \in Maps
  BY <1>1, <1>3 DEF Maps
<1>5. \A b \in Buckets : p.arr[b] = IF b = c THEN << >> ELSE m.arr[b]
  BY <1>1, <1>3
<1> QED
  BY <1>4, <1>5 DEF p, c

-----------------------------------------------------------------------------
(* What the operations do for the keys                                     *)

\* hashmap_get gives the value of the item with the key, or NULL.
LEMMA ValueOfKey ==
  ASSUME NEW m, Good(m), NEW k \in Key
  PROVE  /\ ~Exists(m, k) => ValueOf(m, k) = NoValue
         /\ \A i \in 1 .. ChainLen(m, Idx(k)) :
              KeyAt(m, Idx(k), i) = k => ValueOf(m, k) = m.arr[Idx(k)][i].val
         /\ Exists(m, k) => ValueOf(m, k) \in Value
<1>1. m \in Maps /\ Once(m)
  BY DEF Good
<1>2. ~Exists(m, k) => ValueOf(m, k) = NoValue
  BY DEF ValueOf, GotBy
<1>3. ASSUME NEW i \in 1 .. ChainLen(m, Idx(k)), KeyAt(m, Idx(k), i) = k
      PROVE  ValueOf(m, k) = m.arr[Idx(k)][i].val
  <2>1. Exists(m, k) /\ Places(m, k) = {i} /\ IsFirst(i, Places(m, k))
    BY <1>1, <1>3, PlaceOfKey
  <2>2. {j \in Places(m, k) : IsFirst(j, Places(m, k))} = {i}
    BY <2>1
  <2>3. GotBy(m, k) = {m.arr[Idx(k)][i].val}
    BY <2>1, <2>2 DEF GotBy
  <2> QED
    BY <2>3 DEF ValueOf
<1>4. Exists(m, k) => ValueOf(m, k) \in Value
  <2> SUFFICES ASSUME Exists(m, k) PROVE ValueOf(m, k) \in Value
    OBVIOUS
  <2>1. PICK i \in 1 .. ChainLen(m, Idx(k)) : KeyAt(m, Idx(k), i) = k
    BY <1>1, PlaceOfKey
  <2>2. m.arr[Idx(k)][i].val \in Value
    BY <1>1, IdxType, ChainType
  <2> QED
    BY <1>3, <2>1, <2>2
<1> QED
  BY <1>2, <1>3, <1>4

\* hashmap_put keeps the chains in order.
LEMMA PutGood ==
  ASSUME NEW m, Good(m), NEW k \in Key, NEW v \in Value
  PROVE  Good(Put(m, k, v))
<1> DEFINE p == Put(m, k, v)
           c == Idx(k)
<1>0. m \in Maps /\ Filed(m) /\ Once(m) /\ c \in Buckets
  BY IdxType DEF Good
<1>1. CASE Exists(m, k)
  <2>1. /\ p \in Maps
        /\ \A b \in Buckets : ChainLen(p, b) = ChainLen(m, b)
        /\ \A b \in Buckets : \A i \in 1 .. ChainLen(m, b) :
             KeyAt(p, b, i) = KeyAt(m, b, i)
    BY <1>0, <1>1, PutOld
  <2> HIDE DEF p
  <2>2. Filed(p)
    BY <1>0, <2>1 DEF Filed
  <2>3. Once(p)
    BY <1>0, <2>1 DEF Once
  <2> QED
    BY <2>1, <2>2, <2>3 DEF Good, p
<1>2. CASE ~Exists(m, k)
  <2>1. /\ p \in Maps
        /\ \A b \in Buckets \ {c} : p.arr[b] = m.arr[b]
        /\ ChainLen(p, c) = ChainLen(m, c) + 1
        /\ p.arr[c][1] = [key |-> k, val |-> v]
        /\ \A i \in 1 .. ChainLen(m, c) : p.arr[c][i + 1] = m.arr[c][i]
    BY <1>0, <1>2, PutNew
  <2>2. \A i \in 1 .. ChainLen(m, c) : KeyAt(m, c, i) # k
    BY <1>0, <1>2, PlaceOfKey
  <2>3. ChainLen(m, c) \in Nat
    BY <1>0, ChainType
  <2> HIDE DEF p, c
  <2>4. KeyAt(p, c, 1) = k
    BY <2>1 DEF KeyAt
  <2>5. ASSUME NEW i \in 1 .. ChainLen(p, c), i # 1
        PROVE  i - 1 \in 1 .. ChainLen(m, c) /\ KeyAt(p, c, i) = KeyAt(m, c, i - 1)
    <3>1. i - 1 \in 1 .. ChainLen(m, c) /\ (i - 1) + 1 = i
      BY <2>1, <2>3, <2>5
    <3> QED
      BY <2>1, <3>1 DEF KeyAt
  <2>6. ASSUME NEW b \in Buckets, b # c
        PROVE  ChainLen(p, b) = ChainLen(m, b)
               /\ \A i \in 1 .. ChainLen(m, b) : KeyAt(p, b, i) = KeyAt(m, b, i)
    BY <2>1, <2>6 DEF ChainLen, KeyAt
  <2>7. Filed(p)
    <3> SUFFICES ASSUME NEW b \in Buckets, NEW i \in 1 .. ChainLen(p, b)
                 PROVE  Idx(KeyAt(p, b, i)) = b
      BY DEF Filed
    <3>1. CASE b # c
      BY <1>0, <2>6, <3>1 DEF Filed
    <3>2. CASE b = c /\ i = 1
      BY <2>4, <3>2 DEF c
    <3>3. CASE b = c /\ i # 1
      BY <1>0, <2>5, <3>3 DEF Filed
    <3> QED
      BY <3>1, <3>2, <3>3
  <2>8. Once(p)
    <3> SUFFICES ASSUME NEW b \in Buckets, NEW i \in 1 .. ChainLen(p, b),
                        NEW j \in 1 .. ChainLen(p, b),
                        KeyAt(p, b, i) = KeyAt(p, b, j)
                 PROVE  i = j
      BY DEF Once
    <3>1. CASE b # c
      BY <1>0, <2>6, <3>1 DEF Once
    <3>2. CASE b = c /\ i # 1 /\ j # 1
      <4>1. i - 1 = j - 1
        BY <1>0, <2>5, <3>2 DEF Once
      <4>2. i \in Int /\ j \in Int
        BY <2>1, <2>3
      <4> QED
        BY <4>1, <4>2
    <3>3. CASE b = c /\ i = 1 /\ j # 1
      BY <2>2, <2>4, <2>5, <3>3
    <3>4. CASE b = c /\ i # 1 /\ j = 1
      BY <2>2, <2>4, <2>5, <3>4
    <3> QED
      BY <3>1, <3>2, <3>3, <3>4
  <2> QED
    BY <2>1, <2>7, <2>8 DEF Good, p
<1> QED
  BY <1>1, <1>2

\* hashmap_put adds its key and no other, and gives it its value and no other.
LEMMA PutKeys ==
  ASSUME NEW m, Good(m), NEW k \in Key, NEW v \in Value, NEW j \in Key
  PROVE  /\ Exists(Put(m, k, v), j) <=> Exists(m, j) \/ j = k
         /\ ValueOf(Put(m, k, v), j) = IF j = k THEN v ELSE ValueOf(m, j)
<1> DEFINE p == Put(m, k, v)
           c == Idx(k)
           d == Idx(j)
<1>0. /\ m \in Maps /\ Filed(m) /\ Once(m) /\ c \in Buckets /\ d \in Buckets
      /\ Good(p) /\ p \in Maps /\ Once(p)
      /\ ChainLen(m, d) \in Nat /\ ChainLen(m, c) \in Nat
  BY IdxType, ChainType, PutGood DEF Good
<1>1. CASE Exists(m, k)
  <2>1. /\ \A b \in Buckets : ChainLen(p, b) = ChainLen(m, b)
        /\ \A b \in Buckets : \A i \in 1 .. ChainLen(m, b) :
             KeyAt(p, b, i) = KeyAt(m, b, i)
        /\ \A b \in Buckets : \A i \in 1 .. ChainLen(m, b) :
             p.arr[b][i].val =
               IF KeyAt(m, b, i) = k /\ b = Idx(k) THEN v ELSE m.arr[b][i].val
    BY <1>0, <1>1, PutOld
  <2>2. Exists(p, j) <=> Exists(m, j)
    <3>1. Exists(p, j) <=> \E i \in 1 .. ChainLen(p, d) : KeyAt(p, d, i) = j
      BY <1>0, PlaceOfKey
    <3>2. Exists(m, j) <=> \E i \in 1 .. ChainLen(m, d) : KeyAt(m, d, i) = j
      BY <1>0, PlaceOfKey
    <3> HIDE DEF p, d
    <3> QED
      BY <1>0, <2>1, <3>1, <3>2
  <2>3. CASE Exists(m, j)
    <3>1. PICK i \in 1 .. ChainLen(m, d) : KeyAt(m, d, i) = j
      BY <1>0, <2>3, PlaceOfKey
    <3>2. i \in 1 .. ChainLen(p, d) /\ KeyAt(p, d, i) = j
      BY <1>0, <2>1, <3>1
    <3>3. ValueOf(p, j) = p.arr[d][i].val /\ ValueOf(m, j) = m.arr[d][i].val
      BY <1>0, <3>1, <3>2, ValueOfKey
    <3>4. p.arr[d][i].val = IF j = k /\ d = c THEN v ELSE m.arr[d][i].val
      BY <1>0, <2>1, <3>1
    <3> QED
      BY <1>1, <2>2, <2>3, <3>3, <3>4
  <2>4. CASE ~Exists(m, j)
    <3>1. ValueOf(p, j) = NoValue /\ ValueOf(m, j) = NoValue /\ j # k
      BY <1>0, <1>1, <2>2, <2>4, ValueOfKey
    <3> QED
      BY <2>2, <3>1
  <2> QED
    BY <2>3, <2>4
<1>2. CASE ~Exists(m, k)
  <2>1. /\ \A b \in Buckets \ {c} : p.arr[b] = m.arr[b]
        /\ ChainLen(p, c) = ChainLen(m, c) + 1
        /\ p.arr[c][1] = [key |-> k, val |-> v]
        /\ \A i \in 1 .. ChainLen(m, c) : p.arr[c][i + 1] = m.arr[c][i]
    BY <1>0, <1>2, PutNew
  <2> HIDE DEF p
  <2>2. CASE j = k
    <3>1. 1 \in 1 .. ChainLen(p, c) /\ KeyAt(p, c, 1) = k
      BY <1>0, <2>1 DEF KeyAt
    <3>2. Exists(p, k)
      BY <1>0, <3>1, PlaceOfKey
    <3>3. ValueOf(p, k) = p.arr[c][1].val
      BY <1>0, <3>1, ValueOfKey
    <3> QED
      BY <2>1, <2>2, <3>2, <3>3 DEF p
  <2>3. ASSUME j # k, NEW i \in 1 .. ChainLen(m, d), KeyAt(m, d, i) = j
        PROVE  Exists(p, j) /\ ValueOf(p, j) = ValueOf(m, j)
    <3>1. \E h \in 1 .. ChainLen(p, d) :
            KeyAt(p, d, h) = j /\ p.arr[d][h] = m.arr[d][i]
      <4>1. CASE d = c
        <5>1. i + 1 \in 1 .. ChainLen(p, d) /\ p.arr[d][i + 1] = m.arr[d][i]
          BY <1>0, <2>1, <4>1
        <5> QED
          BY <2>3, <5>1 DEF KeyAt
      <4>2. CASE d # c
        <5>1. p.arr[d] = m.arr[d] /\ ChainLen(p, d) = ChainLen(m, d)
          BY <1>0, <2>1, <4>2 DEF ChainLen
        <5> QED
          BY <2>3, <5>1 DEF KeyAt
      <4> QED
        BY <4>1, <4>2
    <3>2. PICK h \in 1 .. ChainLen(p, d) :
            KeyAt(p, d, h) = j /\ p.arr[d][h] = m.arr[d][i]
      BY <3>1
    <3>3. Exists(p, j)
      BY <1>0, <3>2, PlaceOfKey
    <3>4. ValueOf(p, j) = p.arr[d][h].val /\ ValueOf(m, j) = m.arr[d][i].val
      BY <1>0, <2>3, <3>2, ValueOfKey
    <3> QED
      BY <3>2, <3>3, <3>4
  <2>4. ASSUME j # k, NEW h \in 1 .. ChainLen(p, d), KeyAt(p, d, h) = j
        PROVE  Exists(m, j)
    <3>1. \E i \in 1 .. ChainLen(m, d) : KeyAt(m, d, i) = j
      <4>1. CASE d = c
        <5>1. h # 1
          BY <2>1, <2>4, <4>1 DEF KeyAt
        <5>2. h - 1 \in 1 .. ChainLen(m, d) /\ (h - 1) + 1 = h
          BY <1>0, <2>1, <4>1, <5>1
        <5> QED
          BY <2>1, <2>4, <4>1, <5>2 DEF KeyAt
      <4>2. CASE d # c
        <5>1. p.arr[d] = m.arr[d] /\ ChainLen(p, d) = ChainLen(m, d)
          BY <1>0, <2>1, <4>2 DEF ChainLen
        <5> QED
          BY <2>4, <5>1 DEF KeyAt
      <4> QED
        BY <4>1, <4>2
    <3> QED
      BY <1>0, <3>1, PlaceOfKey
  <2>5. CASE j # k /\ Exists(m, j)
    <3>1. PICK i \in 1 .. ChainLen(m, d) : KeyAt(m, d, i) = j
      BY <1>0, <2>5, PlaceOfKey
    <3> QED
      BY <2>3, <2>5, <3>1 DEF p
  <2>6. CASE j # k /\ ~Exists(m, j)
    <3>1. ~Exists(p, j)
      BY <1>0, <2>4, <2>6, PlaceOfKey
    <3> QED
      BY <1>0, <2>6, <3>1, ValueOfKey DEF p
  <2> QED
    BY <2>2, <2>5, <2>6
<1> QED
  BY <1>1, <1>2

\* hashmap_put leaves the rest of the walk as it was, and adds its key when it
\* is new and its bucket has not been reached.
LEMMA PutRest ==
  ASSUME NEW m, Good(m), NEW it, Fits(m, it),
         NEW k \in Key, NEW v \in Value
  PROVE  /\ Fits(Put(m, k, v), it)
         /\ Exists(m, k) => RestOf(Put(m, k, v), it) = RestOf(m, it)
         /\ RestOf(Put(m, k, v), it) \in {RestOf(m, it), RestOf(m, it) \cup {k}}
<1> DEFINE p == Put(m, k, v)
           c == Idx(k)
           e == it.next - 1
<1>0. /\ m \in Maps /\ Filed(m) /\ Once(m) /\ c \in Buckets
      /\ ChainLen(m, c) \in Nat /\ it \in Iterator
      /\ it.next \in 0 .. Cap /\ it.behind \in Nat /\ Cap \in Nat
  BY IdxType, ChainType DEF Good, Fits, Iterator
<1>1. it.behind > 0 => e \in Buckets /\ ChainLen(m, e) \in Nat
                       /\ it.behind < ChainLen(m, e)
  BY <1>0, IdxType, ChainType DEF Fits
<1>2. it.next # 0 => e \in Buckets /\ ChainLen(m, e) \in Nat
  BY <1>0, IdxType, ChainType
<1>3. ASSUME NEW b \in Buckets
      PROVE  /\ ChainLen(p, b) \in {ChainLen(m, b), ChainLen(m, b) + 1}
             /\ \A i \in 1 .. ChainLen(m, b) :
                  KeyAt(p, b, i + ChainLen(p, b) - ChainLen(m, b))
                    = KeyAt(m, b, i)
  <2>1. ChainLen(m, b) \in Nat
    BY <1>0, ChainType
  <2>2. CASE Exists(m, k)
    <3>1. /\ ChainLen(p, b) = ChainLen(m, b)
          /\ \A i \in 1 .. ChainLen(m, b) : KeyAt(p, b, i) = KeyAt(m, b, i)
      BY <1>0, <2>2, PutOld
    <3> HIDE DEF p
    <3>2. \A i \in 1 .. ChainLen(m, b) : i + ChainLen(p, b) - ChainLen(m, b) = i
      BY <2>1, <3>1
    <3> QED
      BY <3>1, <3>2
  <2>3. CASE ~Exists(m, k) /\ b = c
    <3>1. /\ ChainLen(p, b) = ChainLen(m, b) + 1
          /\ \A i \in 1 .. ChainLen(m, b) : p.arr[b][i + 1] = m.arr[b][i]
      BY <1>0, <2>3, PutNew
    <3> HIDE DEF p
    <3>2. \A i \in 1 .. ChainLen(m, b) :
            i + ChainLen(p, b) - ChainLen(m, b) = i + 1
      BY <2>1, <3>1
    <3>3. \A i \in 1 .. ChainLen(m, b) : KeyAt(p, b, i + 1) = KeyAt(m, b, i)
      BY <3>1 DEF KeyAt
    <3> QED
      BY <3>1, <3>2, <3>3
  <2>4. CASE ~Exists(m, k) /\ b # c
    <3>1. \A d \in Buckets \ {c} : p.arr[d] = m.arr[d]
      BY <1>0, <2>4, PutNew
    <3> HIDE DEF p, c
    <3>2. p.arr[b] = m.arr[b]
      BY <2>4, <3>1
    <3>3. ChainLen(p, b) = ChainLen(m, b)
          /\ \A i \in 1 .. ChainLen(m, b) : KeyAt(p, b, i) = KeyAt(m, b, i)
      BY <3>2 DEF ChainLen, KeyAt
    <3>4. \A i \in 1 .. ChainLen(m, b) : i + ChainLen(p, b) - ChainLen(m, b) = i
      BY <2>1, <3>3
    <3> QED
      BY <3>3, <3>4
  <2> QED
    BY <2>2, <2>3, <2>4
<1>4. ASSUME NEW j \in Key
      PROVE  Exists(p, j) <=> Exists(m, j) \/ j = k
  BY PutKeys
<1> HIDE DEF p, e, c
<1>5. Fits(p, it)
  <2>1. it.next # 0 => it.behind = 0 \/ it.behind < ChainLen(p, e)
    BY <1>0, <1>1, <1>2, <1>3 DEF Fits
  <2>2. it.next = 0 => it.behind = 0
    BY DEF Fits
  <2> QED
    BY <1>0, <2>1, <2>2 DEF Fits, e
<1>6. ASSUME NEW j \in Key
      PROVE  Behind(p, it, j) <=> Behind(m, it, j)
  <2>1. CASE it.behind = 0
    BY <2>1 DEF Behind
  <2>2. CASE it.behind > 0
    <3> DEFINE l == ChainLen(m, e)
               q == ChainLen(p, e)
    <3>1. /\ l \in Nat /\ q \in {l, l + 1} /\ it.behind < l
          /\ \A i \in 1 .. l : KeyAt(p, e, i + q - l) = KeyAt(m, e, i)
      BY <1>1, <1>3, <2>2
    <3> HIDE DEF l, q
    <3>2. ASSUME NEW i \in 1 .. l, i > l - it.behind, KeyAt(m, e, i) = j
          PROVE  \E h \in 1 .. q : h > q - it.behind /\ KeyAt(p, e, h) = j
      <4>1. i + q - l \in 1 .. q /\ i + q - l > q - it.behind
        BY <1>0, <3>1, <3>2
      <4> QED
        BY <3>1, <3>2, <4>1
    <3>3. ASSUME NEW h \in 1 .. q, h > q - it.behind, KeyAt(p, e, h) = j
          PROVE  \E i \in 1 .. l : i > l - it.behind /\ KeyAt(m, e, i) = j
      <4>1. /\ h - (q - l) \in 1 .. l /\ h - (q - l) > l - it.behind
            /\ (h - (q - l)) + q - l = h
        BY <1>0, <3>1, <3>3
      <4> QED
        BY <3>1, <3>3, <4>1
    <3>4. Behind(m, it, j) <=>
            \E i \in 1 .. l : i > l - it.behind /\ KeyAt(m, e, i) = j
      BY <2>2 DEF Behind, l, e
    <3>5. Behind(p, it, j) <=>
            \E h \in 1 .. q : h > q - it.behind /\ KeyAt(p, e, h) = j
      BY <2>2 DEF Behind, q, e
    <3> QED
      BY <3>2, <3>3, <3>4, <3>5
  <2> QED
    BY <1>0, <2>1, <2>2
<1>7. Exists(m, k) => RestOf(p, it) = RestOf(m, it)
  BY <1>4, <1>6 DEF RestOf, Later
<1>8. RestOf(p, it) \in {RestOf(m, it), RestOf(m, it) \cup {k}}
  <2>1. CASE Idx(k) >= it.next
    <3>1. RestOf(p, it) = RestOf(m, it) \cup {k}
      BY <1>4, <1>6, <2>1 DEF RestOf, Later
    <3> QED
      BY <3>1
  <2>2. CASE ~(Idx(k) >= it.next)
    <3>1. RestOf(p, it) = RestOf(m, it)
      BY <1>4, <1>6, <2>2 DEF RestOf, Later
    <3> QED
      BY <3>1
  <2> QED
    BY <2>1, <2>2
<1> QED
  BY <1>5, <1>7, <1>8 DEF p

\* hashmap_remove takes away its key and no other, when it finds it.
LEMMA RemoveKeys ==
  ASSUME NEW m, Good(m), NEW k \in Key, Removable(m, k)
  PROVE  /\ Good(Removed(m, k)) /\ Exists(m, k)
         /\ \A j \in Key :
              ValueOf(Removed(m, k), j) = IF j = k THEN NoValue ELSE ValueOf(m, j)
<1> DEFINE p == Removed(m, k)
           c == Idx(k)
<1>0. /\ m \in Maps /\ Filed(m) /\ Once(m) /\ c \in Buckets
      /\ ChainLen(m, c) = 1 /\ KeyAt(m, c, 1) = k
  BY IdxType DEF Good, Removable, ChainLen, KeyAt
<1>1. /\ p \in Maps
      /\ \A b \in Buckets : p.arr[b] = IF b = c THEN << >> ELSE m.arr[b]
  BY <1>0, RemovedChain
<1> HIDE DEF p, c
<1>2. ChainLen(p, c) = 0
  BY <1>0, <1>1 DEF ChainLen
<1>3. ASSUME NEW b \in Buckets, b # c
      PROVE  ChainLen(p, b) = ChainLen(m, b) /\ p.arr[b] = m.arr[b]
             /\ \A i : KeyAt(p, b, i) = KeyAt(m, b, i)
  BY <1>1, <1>3 DEF ChainLen, KeyAt
<1>4. Filed(p)
  <2> SUFFICES ASSUME NEW b \in Buckets, NEW i \in 1 .. ChainLen(p, b)
               PROVE  Idx(KeyAt(p, b, i)) = b
    BY DEF Filed
  <2>1. b # c
    BY <1>2
  <2> QED
    BY <1>0, <1>3, <2>1 DEF Filed
<1>5. Once(p)
  <2> SUFFICES ASSUME NEW b \in Buckets, NEW i \in 1 .. ChainLen(p, b),
                      NEW j \in 1 .. ChainLen(p, b),
                      KeyAt(p, b, i) = KeyAt(p, b, j)
               PROVE  i = j
    BY DEF Once
  <2>1. b # c
    BY <1>2
  <2> QED
    BY <1>0, <1>3, <2>1 DEF Once
<1>6. Good(p)
  BY <1>1, <1>4, <1>5 DEF Good
<1>7. Exists(m, k)
  <2>1. 1 \in 1 .. ChainLen(m, Idx(k)) /\ KeyAt(m, Idx(k), 1) = k
    BY <1>0 DEF c
  <2> QED
    BY <1>0, <2>1, PlaceOfKey
<1>8. ASSUME NEW j \in Key
      PROVE  ValueOf(p, j) = IF j = k THEN NoValue ELSE ValueOf(m, j)
  <2>0. Idx(j) \in Buckets
    BY IdxType
  <2>1. CASE Idx(j) = c
    <3>1. ~Exists(p, j)
      BY <1>1, <1>2, <1>5, <2>1, PlaceOfKey
    <3>2. j # k => ~Exists(m, j)
      BY <1>0, <2>1, PlaceOfKey
    <3> QED
      BY <1>6, <3>1, <3>2, ValueOfKey
  <2>2. CASE Idx(j) # c
    <3>1. j # k
      BY <2>2 DEF c
    <3>2. Exists(p, j) <=> Exists(m, j)
      BY <1>0, <1>1, <1>3, <1>5, <2>0, <2>2, PlaceOfKey
    <3>3. CASE Exists(m, j)
      <4>1. PICK i \in 1 .. ChainLen(m, Idx(j)) : KeyAt(m, Idx(j), i) = j
        BY <1>0, <3>3, PlaceOfKey
      <4>2. i \in 1 .. ChainLen(p, Idx(j)) /\ KeyAt(p, Idx(j), i) = j
            /\ p.arr[Idx(j)] = m.arr[Idx(j)]
        BY <1>3, <2>0, <2>2, <4>1
      <4> QED
        BY <1>6, <3>1, <4>1, <4>2, ValueOfKey
    <3>4. CASE ~Exists(m, j)
      BY <1>6, <3>1, <3>2, <3>4, ValueOfKey
    <3> QED
      BY <3>3, <3>4
  <2> QED
    BY <2>1, <2>2
<1> QED
  BY <1>6, <1>7, <1>8 DEF p

-----------------------------------------------------------------------------
(* The walk                                                                *)

\* hashmap_iteNext returns a key that was still to come, and no other is passed
\* over.
LEMMA NextVisits ==
  ASSUME NEW m, Good(m), NEW it, Fits(m, it), NEW n \in Advanced(m, it)
  PROVE  /\ Fits(m, n)
         /\ CurrentOf(m, n).key \in RestOf(m, it)
         /\ RestOf(m, n) = RestOf(m, it) \ {CurrentOf(m, n).key}
<1> DEFINE key == CurrentOf(m, n).key
<1>0. /\ m \in Maps /\ Filed(m) /\ Once(m) /\ it \in Iterator
      /\ it.next \in 0 .. Cap /\ it.behind \in Nat /\ Cap \in Nat \ {0}
      /\ Buckets = 0 .. (Cap - 1)
  BY IdxType DEF Good, Fits, Iterator
<1>1. ASSUME NEW j \in Key
      PROVE  /\ Idx(j) \in Buckets /\ Idx(j) \in Nat
             /\ Exists(m, j) <=>
                  \E i \in 1 .. ChainLen(m, Idx(j)) : KeyAt(m, Idx(j), i) = j
  BY <1>0, IdxType, PlaceOfKey
<1>2. CASE it.behind > 0
  <2> DEFINE e == it.next - 1
             l == ChainLen(m, e)
             h == l - it.behind + 1
  <2>1. /\ it.next # 0 /\ e \in Buckets /\ e \in Nat /\ it.behind < l /\ l \in Nat
    BY <1>0, <1>2, ChainType DEF Fits
  <2>2. /\ n = [it EXCEPT !.behind = it.behind - 1]
        /\ n.next = it.next /\ n.behind = it.behind - 1 /\ n \in Iterator
    BY <1>0, <1>2 DEF Advanced, Iterator
  <2>3. h \in 1 .. l /\ l - n.behind = h /\ n.behind < l
    BY <1>0, <1>2, <2>1, <2>2
  <2>4. key = KeyAt(m, e, h)
    BY <2>2, <2>3 DEF CurrentOf, KeyAt, ChainLen
  <2>5. key \in Key /\ Idx(key) = e
    BY <1>0, <2>1, <2>3, <2>4, ChainType DEF Filed
  <2>6. Fits(m, n)
    <3>1. n.behind < ChainLen(m, n.next - 1)
      BY <2>2, <2>3
    <3> QED
      BY <2>1, <2>2, <3>1 DEF Fits
  <2> HIDE DEF key
  <2>7. ASSUME NEW j \in Key
        PROVE  /\ Behind(m, it, j) <=>
                    \E i \in 1 .. l : i > l - it.behind /\ KeyAt(m, e, i) = j
               /\ Behind(m, n, j) <=>
                    \E i \in 1 .. l : i > h /\ KeyAt(m, e, i) = j
    <3>1. Behind(m, it, j) <=>
            \E i \in 1 .. l : i > l - it.behind /\ KeyAt(m, e, i) = j
      BY <1>2 DEF Behind
    <3>2. Behind(m, n, j) <=>
            n.behind > 0 /\ \E i \in 1 .. l : i > l - n.behind /\ KeyAt(m, e, i) = j
      BY <2>2 DEF Behind
    <3> HIDE DEF h
    <3>3. (\E i \in 1 .. l : i > h /\ KeyAt(m, e, i) = j) => n.behind > 0
      BY <1>0, <2>1, <2>2, <2>3
    <3> QED
      BY <2>3, <3>1, <3>2, <3>3
  <2>8. ASSUME NEW j \in Key
        PROVE  Later(m, n, j) <=> Later(m, it, j) /\ j # key
    <3>1. Later(m, n, j) <=> Later(m, it, j)
      BY <2>2 DEF Later
    <3>2. ~Later(m, it, key)
      BY <1>0, <2>1, <2>5 DEF Later
    <3> QED
      BY <3>1, <3>2
  <2>9. ASSUME NEW j \in Key
        PROVE  Behind(m, n, j) <=> Behind(m, it, j) /\ j # key
    <3>1. ASSUME NEW i \in 1 .. l
          PROVE  /\ i > l - it.behind <=> i > h \/ i = h
                 /\ KeyAt(m, e, i) = key <=> i = h
      <4>1. i > l - it.behind <=> i > h \/ i = h
        BY <1>0, <2>1
      <4>2. KeyAt(m, e, i) = key <=> i = h
        BY <1>0, <2>1, <2>3, <2>4 DEF Once
      <4> QED
        BY <4>1, <4>2
    <3>2. h \in Int
      BY <1>0, <2>1
    <3> HIDE DEF h
    <3>3. \A i \in 1 .. l : i > h => i # h
      BY <3>2
    <3> QED
      BY <2>7, <3>1, <3>3
  <2>10. Behind(m, it, key)
    <3>1. h > l - it.behind
      BY <1>0, <2>1
    <3> QED
      BY <2>3, <2>4, <2>5, <2>7, <3>1
  <2> HIDE DEF e, l, h
  <2>11. key \in RestOf(m, it) /\ RestOf(m, n) = RestOf(m, it) \ {key}
    BY <2>5, <2>8, <2>9, <2>10 DEF RestOf
  <2> QED
    BY <2>6, <2>11 DEF key
<1>3. CASE it.behind = 0
  <2>1. PICK b \in Buckets :
          /\ IsFirst(b, Ahead(m, it))
          /\ n = [next |-> b + 1, behind |-> Len(m.arr[b]) - 1]
    BY <1>3 DEF Advanced
  <2> DEFINE l == ChainLen(m, b)
  <2>2. /\ b \in Nat /\ b >= it.next /\ l \in Nat /\ l >= 1
        /\ \A d \in Buckets : d >= it.next /\ m.arr[d] # << >> => b <= d
    <3>1. /\ b >= it.next /\ m.arr[b] # << >>
          /\ \A d \in Buckets : d >= it.next /\ m.arr[d] # << >> => b <= d
      BY <2>1 DEF IsFirst, Ahead
    <3>2. m.arr[b] \in Seq(Item)
      BY <1>0, ChainType
    <3> QED
      BY <1>0, <3>1, <3>2 DEF ChainLen
  <2>3. n.next = b + 1 /\ n.behind = l - 1 /\ n.next - 1 = b /\ n \in Iterator
    <3>1. n.next = b + 1 /\ n.behind = l - 1
      BY <2>1 DEF ChainLen
    <3>2. n \in Iterator
      BY <1>0, <2>1, <2>2 DEF Iterator, ChainLen
    <3> QED
      BY <2>2, <3>1, <3>2
  <2>4. key = KeyAt(m, b, 1)
    <3>1. l - n.behind = 1
      BY <2>2, <2>3
    <3> QED
      BY <2>3, <3>1 DEF CurrentOf, KeyAt, ChainLen
  <2>5. key \in Key /\ Idx(key) = b /\ 1 \in 1 .. l
    BY <1>0, <2>2, <2>4, ChainType DEF Filed
  <2>6. Fits(m, n)
    <3>1. n.behind < ChainLen(m, n.next - 1) /\ n.next # 0
      BY <2>2, <2>3
    <3> QED
      BY <2>3, <3>1 DEF Fits
  <2> HIDE DEF key, l
  <2>7. ASSUME NEW j \in Key
        PROVE  Behind(m, n, j) <=> \E i \in 1 .. l : i > 1 /\ KeyAt(m, b, i) = j
    <3>1. l - n.behind = 1
      BY <2>2, <2>3
    <3>2. Behind(m, n, j) <=>
            n.behind > 0 /\ \E i \in 1 .. l : i > l - n.behind /\ KeyAt(m, b, i) = j
      BY <2>3 DEF Behind, l
    <3>3. (\E i \in 1 .. l : i > 1 /\ KeyAt(m, b, i) = j) => n.behind > 0
      BY <2>2, <2>3
    <3> QED
      BY <3>1, <3>2, <3>3
  <2>8. ASSUME NEW j \in Key PROVE ~Behind(m, it, j)
    BY <1>3 DEF Behind
  <2>9. ASSUME NEW j \in Key, Idx(j) = b
        PROVE  /\ Later(m, it, j) <=> j = key \/ Behind(m, n, j)
               /\ ~Later(m, n, j)
               /\ ~Behind(m, n, key)
    <3>1. ~Later(m, n, j)
      BY <2>2, <2>3, <2>9 DEF Later
    <3>2. Later(m, it, j) <=> \E i \in 1 .. l : KeyAt(m, b, i) = j
      BY <1>1, <2>2, <2>9 DEF Later, l
    <3>3. \A i \in 1 .. l : i > 1 \/ i = 1
      BY <2>2
    <3>4. \A i \in 1 .. l : KeyAt(m, b, i) = key => i = 1
      BY <1>0, <2>4, <2>5 DEF Once, l
    <3>5. ~Behind(m, n, key)
      BY <2>2, <2>5, <2>7, <3>4
    <3> QED
      BY <2>4, <2>5, <2>7, <3>1, <3>2, <3>3, <3>5
  <2>10. ASSUME NEW j \in Key, Idx(j) # b
         PROVE  /\ ~Behind(m, n, j)
                /\ Later(m, it, j) <=> Later(m, n, j)
                /\ j # key
    <3>1. j # key
      BY <2>5, <2>10
    <3>2. ~Behind(m, n, j)
      BY <1>0, <2>7, <2>10 DEF Filed, l
    <3>3. Later(m, it, j) => Idx(j) >= b + 1
      <4> SUFFICES ASSUME Later(m, it, j) PROVE Idx(j) >= b + 1
        OBVIOUS
      <4>1. m.arr[Idx(j)] # << >>
        <5>1. PICK i \in 1 .. ChainLen(m, Idx(j)) : TRUE
          BY <1>1 DEF Later
        <5> QED
          BY <5>1 DEF ChainLen
      <4>2. b <= Idx(j)
        BY <1>1, <2>2, <4>1 DEF Later
      <4> QED
        BY <1>1, <2>2, <2>10, <4>2
    <3>4. Later(m, n, j) => Later(m, it, j)
      BY <1>0, <1>1, <2>2, <2>3 DEF Later
    <3>5. Later(m, it, j) => Later(m, n, j)
      BY <2>3, <3>3 DEF Later
    <3> QED
      BY <3>1, <3>2, <3>4, <3>5
  <2>11. key \in RestOf(m, it)
    BY <2>5, <2>9 DEF RestOf
  <2>12. RestOf(m, n) = RestOf(m, it) \ {key}
    BY <2>8, <2>9, <2>10 DEF RestOf
  <2> QED
    BY <2>6, <2>11, <2>12 DEF key
<1> QED
  BY <1>0, <1>2, <1>3

\* hashmap_iteNext returns NULL when nothing is left, and not before.
LEMMA EndsEmpty ==
  ASSUME NEW m, Good(m), NEW it, Fits(m, it), AtEnd(m, it)
  PROVE  RestOf(m, it) = {}
<1>1. ASSUME NEW j \in Key PROVE ~Behind(m, it, j)
  BY DEF AtEnd, Behind
<1>2. ASSUME NEW j \in Key, Later(m, it, j) PROVE FALSE
  <2>1. m \in Maps /\ Once(m) /\ Idx(j) \in Buckets
    BY IdxType DEF Good
  <2>2. PICK i \in 1 .. ChainLen(m, Idx(j)) : TRUE
    BY <1>2, <2>1, PlaceOfKey DEF Later
  <2>3. m.arr[Idx(j)] # << >>
    BY <2>2 DEF ChainLen
  <2> QED
    BY <1>2, <2>1, <2>3 DEF AtEnd, Ahead, Later
<1> QED
  BY <1>1, <1>2 DEF RestOf

\* A fresh iterator has every key of the map in front of it.
LEMMA FreshHasAll ==
  ASSUME NEW m, Good(m)
  PROVE  Fits(m, Fresh) /\ RestOf(m, Fresh) = KeysOf(m)
<1>1. Fresh \in Iterator /\ Fresh.next = 0 /\ Fresh.behind = 0
  BY IdxType DEF Fresh, Iterator
<1>2. \A j \in Key : Idx(j) >= 0
  BY IdxType
<1> QED
  BY <1>1, <1>2 DEF Fits, RestOf, Behind, Later, KeysOf

-----------------------------------------------------------------------------
(* The invariant                                                           *)

\* The map is created without entries.
LEMMA InitIInv == MapInit => IInv
<1> SUFFICES ASSUME MapInit PROVE IInv
  OBVIOUS
<1>1. /\ map = [arr |-> [b \in Buckets |-> << >>], size |-> 0]
      /\ ite = Fresh /\ walking = FALSE /\ visited = << >> /\ due = {}
  BY DEF MapInit, Created
<1>2. map \in Maps
  BY <1>1 DEF Maps
<1>3. Filed(map) /\ Once(map)
  BY <1>1 DEF Filed, Once, ChainLen
<1>4. Good(map)
  BY <1>2, <1>3 DEF Good
<1>5. Fits(map, ite)
  BY <1>1, <1>4, FreshHasAll
<1>6. visited \in Seq(Key) /\ due \subseteq Key /\ AllMet
  BY <1>1 DEF AllMet
<1> QED
  BY <1>1, <1>4, <1>5, <1>6 DEF IInv

\* Every call keeps the invariant.
LEMMA NextIInv == IInv /\ [MapNext]_mapVars => IInv'
<1> SUFFICES ASSUME IInv, [MapNext]_mapVars PROVE IInv'
  OBVIOUS
<1>0. /\ Good(map) /\ Fits(map, ite) /\ walking \in BOOLEAN
      /\ ~walking => ite = Fresh
      /\ visited \in Seq(Key) /\ due \subseteq Key /\ AllMet
  BY DEF IInv
<1>1. ASSUME NEW k \in Key, NEW v \in Value, PutEntry(k, v) PROVE IInv'
  <2>1. map' = Put(map, k, v) /\ UNCHANGED <<ite, walking, visited, due>>
    BY <1>1 DEF PutEntry
  <2>2. Good(map') /\ Fits(map', ite)
        /\ RestOf(map, ite) \subseteq RestOf(map', ite)
    BY <1>0, <2>1, PutGood, PutRest
  <2>3. AllMet'
    BY <1>0, <2>1, <2>2 DEF AllMet
  <2> QED
    BY <1>0, <2>1, <2>2, <2>3 DEF IInv
<1>2. ASSUME NEW k \in Key, RemoveEntry(k) PROVE IInv'
  <2>1. ~walking /\ map' = Removed(map, k)
        /\ UNCHANGED <<ite, walking, visited, due>>
    BY <1>2 DEF RemoveEntry
  <2>2. Good(map')
    <3>1. CASE Removable(map, k)
      BY <1>0, <2>1, <3>1, RemoveKeys
    <3>2. CASE ~Removable(map, k)
      BY <1>0, <2>1, <3>2 DEF Removed
    <3> QED
      BY <3>1, <3>2
  <2>3. Fits(map', ite')
    BY <1>0, <2>1, <2>2, FreshHasAll
  <2>4. AllMet'
    BY <2>1 DEF AllMet
  <2> QED
    BY <1>0, <2>1, <2>2, <2>3, <2>4 DEF IInv
<1>3. CASE Begin
  <2>1. /\ ite = Fresh /\ walking' = TRUE /\ due' = KeysOf(map)
        /\ UNCHANGED <<map, ite, visited>>
    BY <1>0, <1>3 DEF Begin
  <2>2. RestOf(map', ite') = due' /\ due' \subseteq Key
    BY <1>0, <2>1, FreshHasAll DEF KeysOf
  <2>3. AllMet'
    BY <2>2 DEF AllMet
  <2> QED
    BY <1>0, <2>1, <2>2, <2>3 DEF IInv
<1>4. CASE IteNext
  <2>1. PICK n \in Advanced(map, ite) :
          ite' = n /\ visited' = Append(visited, CurrentOf(map, n).key)
    BY <1>4 DEF IteNext
  <2>2. walking /\ UNCHANGED <<map, walking, due>>
    BY <1>4 DEF IteNext
  <2> DEFINE key == CurrentOf(map, n).key
  <2>3. /\ Fits(map, n) /\ key \in RestOf(map, ite)
        /\ RestOf(map, n) = RestOf(map, ite) \ {key}
    BY <1>0, NextVisits
  <2> HIDE DEF key
  <2>4. key \in Key
    BY <2>3 DEF RestOf
  <2>5. visited' = Append(visited, key)
    BY <2>1 DEF key
  <2>6. visited' \in Seq(Key) /\ ToSet(visited') = ToSet(visited) \cup {key}
    <3>1. /\ visited' \in Seq(Key) /\ Len(visited') = Len(visited) + 1
          /\ Len(visited) \in Nat /\ visited'[Len(visited) + 1] = key
          /\ \A i \in 1 .. Len(visited) : visited'[i] = visited[i]
          /\ DOMAIN visited = 1 .. Len(visited)
          /\ DOMAIN visited' = 1 .. (Len(visited) + 1)
      BY <1>0, <2>4, <2>5
    <3>2. 1 .. (Len(visited) + 1) = 1 .. Len(visited) \cup {Len(visited) + 1}
      BY <3>1
    <3> QED
      BY <3>1, <3>2 DEF ToSet
  <2>7. AllMet'
    BY <1>0, <2>1, <2>2, <2>3, <2>6 DEF AllMet
  <2> QED
    BY <1>0, <2>1, <2>2, <2>3, <2>6, <2>7 DEF IInv
<1>5. CASE IteEnds
  <2>1. /\ walking' = FALSE /\ ite' = Fresh /\ visited' = << >> /\ due' = {}
        /\ map' = map
    BY <1>5 DEF IteEnds
  <2>2. Fits(map', ite')
    BY <1>0, <2>1, FreshHasAll
  <2>3. visited' \in Seq(Key) /\ due' \subseteq Key /\ AllMet'
    BY <2>1 DEF AllMet
  <2> QED
    BY <1>0, <2>1, <2>2, <2>3 DEF IInv
<1>6. CASE UNCHANGED mapVars
  BY <1>0, <1>6 DEF mapVars, IInv, AllMet
<1> QED
  BY <1>1, <1>2, <1>3, <1>4, <1>5, <1>6 DEF MapNext

\* The invariant holds of every behaviour.
THEOREM SpecIInv == MapSpec => []IInv
  BY InitIInv, NextIInv, PTL DEF MapSpec

\* Whatever is put during the walk, wherever the hash files it, hashmap_iteNext
\* has returned every entry that was there at the beginning when it returns
\* NULL.
THEOREM MapWalkComplete == MapSpec => []WalkComplete
<1>1. IInv => WalkComplete
  BY EndsEmpty DEF IInv, AllMet, WalkComplete
<1> QED
  BY <1>1, SpecIInv, PTL

-----------------------------------------------------------------------------
(* The map implements KeyedStore                                           *)

\* The items that are left in the iterator's chain and the later chains are the
\* rest of the walk.
LEMMA RestIsLeft ==
  ASSUME IInv
  PROVE  StillBehind \cup StillAhead = RestOf(map, ite)
<1>0. map \in Maps /\ Filed(map) /\ Fits(map, ite)
      /\ ite.next \in 0 .. Cap /\ ite.behind \in Nat
      /\ Buckets = 0 .. (Cap - 1) /\ Cap \in Nat
  BY IdxType DEF IInv, Good, Fits, Iterator
<1>1. StillBehind = {j \in Key : Behind(map, ite, j)}
  <2>1. CASE ite.behind = 0
    BY <2>1 DEF StillBehind, Behind
  <2>2. CASE ite.behind > 0
    <3>1. ite.next - 1 \in Buckets
      BY <1>0, <2>2 DEF Fits
    <3>2. /\ DOMAIN map.arr[ite.next - 1] = 1 .. ChainLen(map, ite.next - 1)
          /\ \A i \in 1 .. ChainLen(map, ite.next - 1) :
               KeyAt(map, ite.next - 1, i) \in Key
      BY <1>0, <3>1, ChainType
    <3> QED
      BY <1>0, <2>2, <3>2 DEF StillBehind, Behind, KeyAt, ChainLen
  <2> QED
    BY <1>0, <2>1, <2>2
<1>2. StillAhead = {j \in Key : Later(map, ite, j)}
  BY DEF StillAhead, KeysOf, Later
<1> QED
  BY <1>1, <1>2 DEF RestOf

\* What there is in the map and what is left of the walk.
Values == [k \in Key |-> ValueOf(map, k)]
Left == IF walking THEN RestOf(map, ite) ELSE {}

\* They are what KeyedStore is told of the map.
Mapped == Stored = Values /\ Rest = Left
LEMMA StoreIsMap ==
  ASSUME IInv
  PROVE  Mapped /\ Store!Present = KeysOf(map)
<1>1. Stored = Values
  BY DEF Stored, Values, ValueOf
<1>2. Rest = Left
  BY RestIsLeft DEF Rest, Left
<1>3. \A k \in Key : Values[k] # NoValue <=> Exists(map, k)
  BY ValueOfKey, HashMapAssumption DEF IInv, Values
<1>4. Store!Present = KeysOf(map)
  BY <1>1, <1>3 DEF Store!Present, KeysOf
<1> QED
  BY <1>1, <1>2, <1>4 DEF Mapped

\* hashmap_put is a Put of KeyedStore.
LEMMA PutIsPut ==
  ASSUME IInv, Mapped, Mapped', NEW k \in Key, NEW v \in Value, PutEntry(k, v)
  PROVE  Store!Put(k, v)
<1>0. Good(map) /\ Fits(map, ite)
  BY DEF IInv
<1>1. map' = Put(map, k, v) /\ gone' = {} /\ UNCHANGED <<ite, walking>>
  BY DEF PutEntry
<1>2. Values' = [Values EXCEPT ![k] = v]
  <2>1. \A j \in Key : ValueOf(map', j) = IF j = k THEN v ELSE ValueOf(map, j)
    BY <1>0, <1>1, PutKeys
  <2>2. Values' = [j \in Key |-> ValueOf(map', j)]
    BY DEF Values, ValueOf, GotBy, Exists, Places, IsFirst, Idx
  <2> QED
    BY <2>1, <2>2 DEF Values
<1>3. Left' = IF walking THEN RestOf(map', ite) ELSE {}
  BY <1>1 DEF Left, RestOf, Behind, Later, Exists, Places, Idx, ChainLen, KeyAt
<1>4. /\ Exists(map, k) => RestOf(map', ite) = RestOf(map, ite)
      /\ RestOf(map', ite) \in {RestOf(map, ite), RestOf(map, ite) \cup {k}}
  BY <1>0, <1>1, PutRest
<1>5. Left' \in IF Exists(map, k) THEN {Left} ELSE {Left, Left \cup {k}}
  BY <1>3, <1>4 DEF Left
<1>6. k \in Store!Present <=> Exists(map, k)
  BY StoreIsMap DEF KeysOf
<1>7. Stored = Values /\ Stored' = Values' /\ Rest = Left /\ Rest' = Left'
  BY DEF Mapped
<1> QED
  BY <1>1, <1>2, <1>5, <1>6, <1>7 DEF Store!Put

\* hashmap_remove is a Remove of KeyedStore.
LEMMA RemoveIsRemove ==
  ASSUME IInv, Mapped, Mapped', NEW k \in Key, RemoveEntry(k)
  PROVE  Store!Remove(k)
<1>0. Good(map)
  BY DEF IInv
<1>1. /\ ~walking /\ ~walking' /\ map' = Removed(map, k)
      /\ gone' = IF Removable(map, k) THEN {k} ELSE {}
  BY DEF RemoveEntry
<1>2. Stored = Values /\ Stored' = Values' /\ Rest = Left /\ Rest' = Left'
  BY DEF Mapped
<1>3. Left = {} /\ Left' = {}
  BY <1>1 DEF Left
<1>4. Values' = [j \in Key |-> ValueOf(map', j)]
  BY DEF Values, ValueOf, GotBy, Exists, Places, IsFirst, Idx
<1>5. CASE Removable(map, k)
  <2>1. /\ Exists(map, k)
        /\ \A j \in Key :
             ValueOf(map', j) = IF j = k THEN NoValue ELSE ValueOf(map, j)
    BY <1>0, <1>1, <1>5, RemoveKeys
  <2>2. k \in Store!Present
    BY <2>1, StoreIsMap DEF KeysOf
  <2>3. Values' = [Values EXCEPT ![k] = NoValue]
    BY <1>4, <2>1 DEF Values
  <2> QED
    BY <1>1, <1>2, <1>3, <1>5, <2>2, <2>3 DEF Store!Remove
<1>6. CASE ~Removable(map, k)
  <2>1. map' = map
    BY <1>1, <1>6 DEF Removed
  <2>2. Values' = Values
    BY <1>4, <2>1 DEF Values
  <2> QED
    BY <1>1, <1>2, <1>3, <1>6, <2>2 DEF Store!Remove
<1> QED
  BY <1>5, <1>6

\* Every step of the map is one of KeyedStore or changes nothing in it.
LEMMA NextIsStoreStep ==
  ASSUME IInv, Mapped, Mapped', [MapNext]_mapVars
  PROVE  [Store!Next]_(<<Stored, gone, Rest>>)
<1>0. /\ Good(map) /\ Fits(map, ite) /\ walking \in BOOLEAN
      /\ ~walking => ite = Fresh
  BY DEF IInv
<1>1. Stored = Values /\ Stored' = Values' /\ Rest = Left /\ Rest' = Left'
  BY DEF Mapped
<1>2. Values' = [j \in Key |-> ValueOf(map', j)]
  BY DEF Values, ValueOf, GotBy, Exists, Places, IsFirst, Idx
<1>3. Left' = IF walking' THEN RestOf(map', ite') ELSE {}
  BY DEF Left, RestOf, Behind, Later, Exists, Places, Idx, ChainLen, KeyAt
<1>4. map' = map => Stored' = Stored
  BY <1>1, <1>2 DEF Values
<1>5. ASSUME NEW k \in Key, NEW v \in Value, PutEntry(k, v) PROVE Store!Next
  BY <1>5, PutIsPut DEF Store!Next
<1>6. ASSUME NEW k \in Key, RemoveEntry(k) PROVE Store!Next
  BY <1>6, RemoveIsRemove DEF Store!Next
<1>7. CASE Begin
  <2>1. /\ ~walking /\ walking' /\ gone' = {} /\ map' = map /\ ite' = ite
    BY <1>7 DEF Begin
  <2>2. Left' = KeysOf(map)
    BY <1>0, <1>3, <2>1, FreshHasAll
  <2>3. Rest' = Store!Present
    BY <1>1, <2>2, StoreIsMap
  <2> QED
    BY <1>4, <2>1, <2>3 DEF Store!Next, Store!Begin
<1>8. CASE IteNext
  <2>1. PICK n \in Advanced(map, ite) : ite' = n
    BY <1>8 DEF IteNext
  <2>2. walking /\ walking' /\ map' = map /\ gone' = gone
    BY <1>8 DEF IteNext
  <2> DEFINE key == CurrentOf(map, n).key
  <2>3. key \in RestOf(map, ite) /\ RestOf(map, n) = RestOf(map, ite) \ {key}
    BY <1>0, NextVisits
  <2> HIDE DEF key
  <2>4. key \in Key
    BY <2>3 DEF RestOf
  <2>5. key \in Rest /\ Rest' = Rest \ {key}
    BY <1>1, <1>3, <2>1, <2>2, <2>3 DEF Left
  <2>6. Store!Visit(key)
    BY <1>4, <2>2, <2>5 DEF Store!Visit
  <2> QED
    BY <2>4, <2>6 DEF Store!Next
<1>9. CASE IteEnds
  <2>1. walking' = FALSE /\ map' = map /\ gone' = gone /\ AtEnd(map, ite)
    BY <1>9 DEF IteEnds
  <2>2. Left = {} /\ Left' = {}
    BY <1>0, <1>3, <2>1, EndsEmpty DEF Left
  <2> QED
    BY <1>1, <1>4, <2>1, <2>2
<1>10. CASE UNCHANGED mapVars
  <2>1. map' = map /\ ite' = ite /\ walking' = walking /\ gone' = gone
    BY <1>10 DEF mapVars
  <2>2. Left' = Left
    BY <1>3, <2>1 DEF Left
  <2> QED
    BY <1>1, <1>4, <2>1, <2>2
<1> QED
  BY <1>5, <1>6, <1>7, <1>8, <1>9, <1>10 DEF MapNext

\* For any hash and any capacity the chains are, to their callers, a partial
\* function: a key has the value put last, a removal that reports success has
\* removed its key and nothing else, and a walk meets each entry once.
THEOREM MapKeepsStore == MapSpec => KeepsStore
<1>1. MapInit => Store!Init
  <2> SUFFICES ASSUME MapInit PROVE Store!Init
    OBVIOUS
  <2>1. IInv
    BY InitIInv
  <2>2. Stored = Values /\ Rest = Left
    BY <2>1, StoreIsMap DEF Mapped
  <2>3. ASSUME NEW k \in Key PROVE ~Exists(map, k)
    <3>1. map.arr[Idx(k)] = << >>
      BY IdxType DEF MapInit, Created
    <3> QED
      BY <3>1 DEF Exists, Places
  <2>4. Values = [k \in Key |-> NoValue]
    BY <2>1, <2>3, ValueOfKey DEF IInv, Values
  <2> QED
    BY <2>2, <2>4 DEF MapInit, Store!Init, Store!None, Left
<1>2. IInv => Mapped
  BY StoreIsMap
<1>3. IInv /\ Mapped /\ Mapped' /\ [MapNext]_mapVars
        => [Store!Next]_(<<Stored, gone, Rest>>)
  BY NextIsStoreStep
<1> QED
  BY <1>1, <1>2, <1>3, SpecIInv, PTL DEF MapSpec, KeepsStore, Store!Spec

-----------------------------------------------------------------------------
(* The registry of functions.                                              *)

\* hashmap_get has one answer.
LEMMA GotIsValue ==
  ASSUME NEW m, Good(m), NEW k \in Key
  PROVE  GotBy(m, k) = {ValueOf(m, k)}
<1>1. CASE ~Exists(m, k)
  BY <1>1, ValueOfKey DEF GotBy
<1>2. CASE Exists(m, k)
  <2>1. m \in Maps /\ Once(m)
    BY DEF Good
  <2>2. PICK i \in 1 .. ChainLen(m, Idx(k)) : KeyAt(m, Idx(k), i) = k
    BY <1>2, <2>1, PlaceOfKey
  <2>3. /\ Places(m, k) = {i}
        /\ \A j \in 1 .. ChainLen(m, Idx(k)) : IsFirst(j, Places(m, k)) <=> j = i
    BY <2>1, <2>2, PlaceOfKey
  <2>4. {j \in Places(m, k) : IsFirst(j, Places(m, k))} = {i}
    BY <2>2, <2>3
  <2>5. GotBy(m, k) = {m.arr[Idx(k)][i].val}
    BY <1>2, <2>4 DEF GotBy
  <2> QED
    BY <2>2, <2>5, ValueOfKey
<1> QED
  BY <1>1, <1>2

\* A removal that is refused changes nothing; one that is not takes out the
\* key, and no other.
LEMMA RemovedGood ==
  ASSUME NEW m, Good(m), NEW k \in Key
  PROVE  /\ Good(Removed(m, k))
         /\ ~Removable(m, k) => Removed(m, k) = m
         /\ \A j \in Key : Exists(Removed(m, k), j) <=> Exists(m, j) /\ ~(Removable(m, k) /\ j = k)
         /\ \A j \in Key : Exists(Removed(m, k), j) => ValueOf(Removed(m, k), j) = ValueOf(m, j)
<1>1. CASE ~Removable(m, k)
  <2>1. Removed(m, k) = m
    BY <1>1 DEF Removed
  <2> QED
    BY <1>1, <2>1
<1>2. CASE Removable(m, k)
  <2> DEFINE n == Removed(m, k)
  <2>1. /\ Good(n)
        /\ \A j \in Key : ValueOf(n, j) = IF j = k THEN NoValue ELSE ValueOf(m, j)
    BY <1>2, RemoveKeys
  <2> HIDE DEF n
  <2>2. /\ \A j \in Key : Exists(n, j) <=> ValueOf(n, j) # NoValue
        /\ \A j \in Key : Exists(m, j) <=> ValueOf(m, j) # NoValue
    BY <2>1, ValueOfKey, HashMapAssumption
  <2>3. \A j \in Key : Exists(n, j) <=> Exists(m, j) /\ j # k
    BY <2>1, <2>2
  <2>4. \A j \in Key : Exists(n, j) => ValueOf(n, j) = ValueOf(m, j)
    BY <2>1, <2>3
  <2> QED
    BY <1>2, <2>1, <2>3, <2>4 DEF n
<1> QED
  BY <1>1, <1>2

(* What an entry stands for is live but for the names that were refused.    *)
(* Two names never have the same live object, because it has one name.      *)
Serves(n) ==
  /\ ValueOf(functionItems, n) \in allocated
  /\ object[ValueOf(functionItems, n)].name = n
EntriesServe ==
  /\ \A n \in refused : n \in Key /\ Exists(functionItems, n)
  /\ \A n \in Key : Exists(functionItems, n) /\ n \notin refused => Serves(n)
RegistryInv ==
  /\ Good(functionItems)
  /\ object \in [Value -> [name : Key \cup {NoValue}, given : Version \cup {0}]]
  /\ again \in BOOLEAN
  /\ ~again => EntriesServe

\* A map without entries.
LEMMA EmptyGood == Good(Created) /\ \A n \in Key : ~Exists(Created, n)
<1>1. Created.arr = [b \in Buckets |-> << >>] /\ Created.size = 0
  BY DEF Created
<1>2. \A b \in Buckets : Created.arr[b] = << >> /\ ChainLen(Created, b) = 0
  BY <1>1 DEF ChainLen
<1>3. Good(Created)
  BY <1>1, <1>2 DEF Good, Maps, Filed, Once, Created
<1>4. \A n \in Key : ~Exists(Created, n)
  BY <1>2, IdxType DEF Exists, Places
<1> QED
  BY <1>3, <1>4

\* The registry after ctrl_init, the first time or again.
LEMMA EmptyServes ==
  ASSUME functionItems' = Created, object' = [o \in Value |-> Blank], refused' = {}, again' = FALSE
  PROVE  RegistryInv'
<1>1. object' \in [Value -> [name : Key \cup {NoValue}, given : Version \cup {0}]]
  BY DEF Blank
<1>2. Good(functionItems') /\ \A n \in Key : ~Exists(functionItems', n)
  BY EmptyGood
<1>3. Good(functionItems)' /\ EntriesServe'
  BY <1>2 DEF EntriesServe, Good, Maps, Filed, Once, ChainLen, KeyAt, Exists, Places, Idx
<1> QED
  BY <1>1, <1>3 DEF RegistryInv

\* ctrl_registFun: the new object is nobody else's, whatever the chain holds.
LEMMA RegisterKeeps ==
  ASSUME RegistryInv, NEW n \in Key, NEW v \in Version, Register(n, v)
  PROVE  RegistryInv'
<1> DEFINE m == functionItems
<1>1. PICK o \in Value \ allocated :
        /\ object' = [object EXCEPT ![o] = [name |-> n, given |-> v]]
        /\ allocated' = allocated \cup {o}
        /\ functionItems' = Put(m, n, o)
  BY DEF Register
<1>2. ~Exists(m, n) /\ refused' = refused /\ again' = again
  BY DEF Register, Taken
<1>3. /\ Good(m) /\ again \in BOOLEAN /\ (~again => EntriesServe)
      /\ object \in [Value -> [name : Key \cup {NoValue}, given : Version \cup {0}]]
  BY DEF RegistryInv
<1>4. object' \in [Value -> [name : Key \cup {NoValue}, given : Version \cup {0}]]
  BY <1>1, <1>3
<1> DEFINE p == Put(m, n, o)
<1> HIDE DEF p, m
<1>5. Good(p)
  BY <1>1, <1>3, PutGood DEF p
<1>6. \A j \in Key : /\ Exists(p, j) <=> Exists(m, j) \/ j = n
                     /\ ValueOf(p, j) = IF j = n THEN o ELSE ValueOf(m, j)
  BY <1>1, <1>3, PutKeys DEF p
<1>7. ASSUME ~again PROVE EntriesServe'
  <2>1. /\ \A j \in refused : j \in Key /\ Exists(m, j)
        /\ \A j \in Key : Exists(m, j) /\ j \notin refused =>
             ValueOf(m, j) \in allocated /\ object[ValueOf(m, j)].name = j
    BY <1>3, <1>7 DEF EntriesServe, Serves, m
  <2>2. \A j \in refused' : j \in Key /\ Exists(p, j)
    BY <1>2, <1>6, <2>1
  <2>3. ASSUME NEW j \in Key, Exists(p, j), j \notin refused'
        PROVE  ValueOf(p, j) \in allocated' /\ object'[ValueOf(p, j)].name = j
    <3>1. CASE j = n
      BY <1>1, <1>3, <1>6, <3>1
    <3>2. CASE j # n
      <4>1. ValueOf(p, j) = ValueOf(m, j) /\ Exists(m, j)
        BY <1>6, <2>3, <3>2
      <4>2. ValueOf(m, j) \in allocated /\ object[ValueOf(m, j)].name = j /\ ValueOf(m, j) \in Value
        BY <1>2, <1>3, <2>1, <2>3, <4>1, ValueOfKey
      <4> QED
        BY <1>1, <1>3, <4>1, <4>2
    <3> QED
      BY <3>1, <3>2
  <2>4. functionItems' = p
    BY <1>1 DEF p
  <2>5. /\ \A j : Exists(functionItems, j)' <=> Exists(functionItems', j)
        /\ \A j : ValueOf(functionItems, j)' = ValueOf(functionItems', j)
    BY DEF Exists, Places, Idx, ValueOf, GotBy, IsFirst
  <2> QED
    BY <2>2, <2>3, <2>4, <2>5 DEF EntriesServe, Serves
<1>8. Good(functionItems)'
  <2>1. Good(functionItems')
    BY <1>1, <1>5 DEF p
  <2> QED
    BY <2>1 DEF Good, Maps, Filed, Once, ChainLen, KeyAt, Idx
<1> QED
  BY <1>2, <1>3, <1>4, <1>7, <1>8 DEF RegistryInv

\* ctrl_unregist: the object is gone, and the entry with it or the caller told.
LEMMA UnregisterKeeps ==
  ASSUME RegistryInv, NEW n \in Key, Unregister(n)
  PROVE  RegistryInv'
<1> DEFINE m == functionItems
           p == Removed(m, n)
<1>1. /\ allocated' = allocated \ GotBy(m, n)
      /\ functionItems' = p
      /\ refused' = IF Removable(m, n) THEN refused ELSE refused \cup {n}
      /\ again' = (again \/ n \in refused)
      /\ object' = object /\ Exists(m, n)
  BY DEF Unregister, Told
<1>2. /\ Good(m) /\ again \in BOOLEAN /\ (~again => EntriesServe)
      /\ object \in [Value -> [name : Key \cup {NoValue}, given : Version \cup {0}]]
  BY DEF RegistryInv
<1> HIDE DEF m, p
<1>3. /\ Good(p)
      /\ \A j \in Key : Exists(p, j) <=> Exists(m, j) /\ ~(Removable(m, n) /\ j = n)
      /\ \A j \in Key : Exists(p, j) => ValueOf(p, j) = ValueOf(m, j)
  BY <1>2, RemovedGood DEF p
<1>4. GotBy(m, n) = {ValueOf(m, n)}
  BY <1>2, GotIsValue
<1>5. ASSUME ~again' PROVE EntriesServe'
  <2>0. ~again /\ n \notin refused
    BY <1>1, <1>2, <1>5
  <2>1. /\ \A j \in refused : j \in Key /\ Exists(m, j)
        /\ \A j \in Key : Exists(m, j) /\ j \notin refused =>
             ValueOf(m, j) \in allocated /\ object[ValueOf(m, j)].name = j
    BY <1>2, <2>0 DEF EntriesServe, Serves, m
  <2>2. ASSUME NEW j \in refused' PROVE j \in Key /\ Exists(p, j)
    <3>1. CASE Removable(m, n)
      BY <1>1, <1>3, <2>0, <2>1, <2>2, <3>1
    <3>2. CASE ~Removable(m, n)
      BY <1>1, <1>3, <2>1, <2>2, <3>2
    <3> QED
      BY <3>1, <3>2
  <2>3. ASSUME NEW j \in Key, Exists(p, j), j \notin refused'
        PROVE  ValueOf(p, j) \in allocated' /\ object'[ValueOf(p, j)].name = j
    <3>1. j # n /\ j \notin refused
      BY <1>1, <1>3, <2>3
    <3>2. /\ Exists(m, j) /\ ValueOf(p, j) = ValueOf(m, j)
          /\ ValueOf(m, j) \in allocated /\ object[ValueOf(m, j)].name = j
      BY <1>3, <2>1, <2>3, <3>1
    <3>3. object[ValueOf(m, n)].name = n
      BY <1>1, <2>0, <2>1
    <3>4. ValueOf(m, j) # ValueOf(m, n)
      BY <3>1, <3>2, <3>3
    <3> QED
      BY <1>1, <1>4, <3>2, <3>4
  <2>4. /\ \A j : Exists(functionItems, j)' <=> Exists(functionItems', j)
        /\ \A j : ValueOf(functionItems, j)' = ValueOf(functionItems', j)
    BY DEF Exists, Places, Idx, ValueOf, GotBy, IsFirst
  <2> QED
    BY <1>1, <2>2, <2>3, <2>4 DEF EntriesServe, Serves
<1>6. Good(functionItems)'
  <2>1. Good(functionItems')
    BY <1>1, <1>3
  <2> QED
    BY <2>1 DEF Good, Maps, Filed, Once, ChainLen, KeyAt, Idx
<1>7. again' \in BOOLEAN
  BY <1>1, <1>2
<1> QED
  BY <1>1, <1>2, <1>5, <1>6, <1>7 DEF RegistryInv

\* Only these three change the registry.
LEMMA NextRegistryInv ==
  ASSUME RegistryInv, [Next]_vars
  PROVE  RegistryInv'
<1>1. CASE UNCHANGED registry
  <2>1. UNCHANGED <<functionItems, object, allocated, refused, again>>
    BY <1>1 DEF registry
  <2>2. Good(functionItems)'
    BY <2>1 DEF RegistryInv, Good, Maps, Filed, Once, ChainLen, KeyAt, Idx
  <2>3. /\ \A j : Exists(functionItems, j)' <=> Exists(functionItems', j)
        /\ \A j : ValueOf(functionItems, j)' = ValueOf(functionItems', j)
    BY DEF Exists, Places, Idx, ValueOf, GotBy, IsFirst
  <2>4. EntriesServe => EntriesServe'
    BY <2>1, <2>3 DEF EntriesServe, Serves
  <2> QED
    BY <2>1, <2>2, <2>4 DEF RegistryInv
<1>2. CASE \E n \in Key, v \in Version : Register(n, v)
  BY <1>2, RegisterKeeps
<1>3. CASE \E n \in Key : Unregister(n)
  BY <1>3, UnregisterKeeps
<1>4. CASE Breaks
  BY <1>4, EmptyServes DEF Breaks
<1> QED
  BY <1>1, <1>2, <1>3, <1>4
     DEF Next, vars, Ask, OnVersions,
         ServerReports, ServerSaves, Lose, HandleItem

LEMMA SpecRegistryInv == Spec => []RegistryInv
<1>1. Init => RegistryInv
  <2> SUFFICES ASSUME Init PROVE RegistryInv
    OBVIOUS
  <2>1. Good(functionItems) /\ \A n \in Key : ~Exists(functionItems, n)
    BY EmptyGood DEF Init
  <2>2. object \in [Value -> [name : Key \cup {NoValue}, given : Version \cup {0}]]
    BY DEF Init, Blank
  <2>3. EntriesServe
    BY <2>1 DEF Init, EntriesServe
  <2> QED
    BY <2>1, <2>2, <2>3 DEF Init, RegistryInv
<1>2. RegistryInv /\ [Next]_vars => RegistryInv'
  BY NextRegistryInv
<1> QED
  BY <1>1, <1>2, PTL DEF Spec

\* What the registry has of a name is an object of that name.
LEMMA GotIsOwn ==
  ASSUME RegistryInv, ~again, NEW n \in Key, n \notin refused, Exists(functionItems, n),
         NEW o \in GotBy(functionItems, n)
  PROVE  o \in allocated /\ object[o].name = n
<1>1. o = ValueOf(functionItems, n)
  BY GotIsValue DEF RegistryInv
<1> QED
  BY <1>1 DEF RegistryInv, EntriesServe, Serves

\* Whatever names share a bucket, every entry is an allocated object under its
\* own name, but for those that ctrl_unregist has refused to take out, and
\* until one of these is unregistered once more.
THEOREM CtrlEntriesLive == Spec => []EntriesLive
<1>1. RegistryInv => EntriesLive
  BY GotIsOwn DEF EntriesLive, Registered
<1> QED
  BY <1>1, SpecRegistryInv, PTL

\* An item is handled: what is called is what the registry has of the name.
LEMMA HandledByName ==
  ASSUME RegistryInv, NEW r \in Request, HandleItem(r)
  PROVE  CallsByName'
<1>1. /\ object' = object /\ allocated' = allocated /\ again' = again
      /\ refused' = refused
  BY DEF HandleItem, registry
<1>2. NoCall.ran = NoValue /\ NoCall.reply = NoReply
  BY DEF NoCall
<1>3. ASSUME NEW o, NEW code, Answer(r, o, code)
      PROVE  /\ last'.request = r /\ last'.ran = o
             /\ last'.reply.to = r.from
             /\ last'.reply.direct = r.udp
  BY <1>3 DEF Answer, Responded
<1>4. CASE last' = NoCall
  BY <1>2, <1>4 DEF CallsByName
<1>5. CASE \E code \in {"1", "2"} : Answer(r, NoValue, code)
  BY <1>3, <1>5 DEF CallsByName
<1>6. ASSUME r.data \in Key, NEW o \in GotBy(functionItems, r.data),
             \/ o = NoValue /\ Answer(r, o, "3")
             \/ o # NoValue /\ Answer(r, o, "result")
             \/ o # NoValue /\ last' = [request |-> r, ran |-> o, reply |-> NoReply]
      PROVE  CallsByName'
  <2>1. ASSUME o # NoValue, ~again, r.data \notin refused
        PROVE  o \in allocated /\ object[o].name = r.data
    <3>1. Exists(functionItems, r.data)
      BY <1>6, <2>1 DEF GotBy
    <3> QED
      BY <1>6, <2>1, <3>1, GotIsOwn
  <2>2. CASE Answer(r, o, "3") \/ Answer(r, o, "result")
    BY <1>1, <1>3, <2>1, <2>2 DEF CallsByName
  <2>3. CASE last' = [request |-> r, ran |-> o, reply |-> NoReply]
    BY <1>1, <2>1, <2>3 DEF CallsByName
  <2> QED
    BY <1>6, <2>2, <2>3
<1> QED
  BY <1>4, <1>5, <1>6 DEF HandleItem

\* An item calls the function it names, if there is one and ctrl_unregist has
\* not refused it, and the answer goes to whoever sent the item, the way the
\* item asked for.
THEOREM CtrlCallsByName == Spec => []CallsByName
<1>1. Init => CallsByName
  BY DEF Init, NoCall, CallsByName
<1>2. ASSUME RegistryInv, CallsByName, [Next]_vars
      PROVE  CallsByName'
  <2>1. CASE UNCHANGED vars
    BY <1>2, <2>1 DEF vars, registry, CallsByName
  <2>2. ASSUME NEW r \in Request, HandleItem(r)
        PROVE  CallsByName'
    BY <1>2, <2>2, HandledByName
  <2>3. CASE last' = NoCall
    BY <2>3 DEF NoCall, CallsByName
  <2> QED
    BY <1>2, <2>1, <2>2, <2>3
       DEF Next, Register, Unregister, Breaks, Ask, OnVersions, ServerReports, ServerSaves, Lose
<1> QED
  BY <1>1, <1>2, SpecRegistryInv, PTL DEF Spec

-----------------------------------------------------------------------------
(* The configuration.                                                      *)

(* The empty configuration is always one that may be saved: to unbind      *)
(* saves it.  What is about to be saved is what the request in hand asks   *)
(* for, and what is answered without an error has been saved.              *)
InHand ==
  /\ at = "saving" => request.op \in {2, 3} /\ sysCfg = Wanted(request) /\ sysCfg \in given
  /\ at = "answering" /\ request.op \in {2, 3} /\ ~answer.error => flash = Wanted(request)
ConfigInv == ConfigTyped /\ SavedTogether /\ Unbound \in given /\ InHand /\ AckedIsSaved

\* Every request asks for a configuration.
LEMMA WantedType == \A r \in BindRequest : Wanted(r) \in Config
BY DEF Wanted, BindRequest, Config, Unbound

\* A request records the pair it carries, if that is a good one.
LEMMA GivesKeeps ==
  ASSUME ConfigTyped, NEW r \in BindRequest, Gives(r)
  PROVE  given' \subseteq Config /\ given \subseteq given'
BY DEF ConfigTyped, Gives, BindRequest, Config

LEMMA InitConfigInv == ConfigInit => ConfigInv
BY DEF ConfigInit, ConfigInv, ConfigTyped, SavedTogether, InHand, AckedIsSaved, Underway,
       Accepted, Config, Unbound, Op, BindRequest

\* Nothing is under way while the function waits for a request.
LEMMA IdleRest ==
  ASSUME ConfigInv, at = "idle"
  PROVE  flash \in {acked} \cup unanswered
BY DEF ConfigInv, AckedIsSaved, Underway, Accepted

\* A request that changes nothing, or that is refused: the flash stays.
LEMMA AnsweredKeeps ==
  ASSUME ConfigInv, NEW r \in BindRequest, Received(r), at' = "answering",
         answer' \in [code : 0 .. 3, error : BOOLEAN], r.op \in {2, 3} => answer'.error,
         sysCfg' \in Config,
         given' \subseteq Config, given \subseteq given',
         UNCHANGED <<flash, acked, unanswered>>
  PROVE  ConfigInv'
<1>1. at = "idle" /\ request' = r
  BY DEF Received
<1>2. ConfigTyped'
  BY <1>1 DEF ConfigInv, ConfigTyped
<1>3. SavedTogether' /\ Unbound \in given'
  BY DEF ConfigInv, SavedTogether, Unbound
<1>4. InHand'
  BY <1>1 DEF InHand
<1>5. AckedIsSaved'
  BY IdleRest, <1>1 DEF AckedIsSaved
<1> QED
  BY <1>2, <1>3, <1>4, <1>5 DEF ConfigInv, Unbound

\* A request that is accepted: what it asks for is in memory, to be saved.
LEMMA AcceptedKeeps ==
  ASSUME ConfigInv, NEW r \in BindRequest, Received(r), r.op \in {2, 3},
         sysCfg' = Wanted(r), at' = "saving", Wanted(r) \in given',
         given' \subseteq Config, given \subseteq given',
         UNCHANGED <<flash, answer, acked, unanswered>>
  PROVE  ConfigInv'
<1>1. at = "idle" /\ request' = r
  BY DEF Received
<1>2. ConfigTyped'
  BY <1>1, WantedType DEF ConfigInv, ConfigTyped
<1>3. SavedTogether' /\ Unbound \in given'
  BY DEF ConfigInv, SavedTogether, Unbound
<1>4. InHand'
  <2>1. Wanted(request)' = Wanted(r)
    BY <1>1 DEF Wanted, Unbound
  <2> QED
    BY <1>1, <2>1 DEF InHand
<1>5. AckedIsSaved'
  BY IdleRest, <1>1 DEF AckedIsSaved
<1> QED
  BY <1>2, <1>3, <1>4, <1>5 DEF ConfigInv, Unbound

LEMMA BindKeeps ==
  ASSUME ConfigInv, NEW r \in BindRequest, Bind(r) PROVE ConfigInv'
<1>1. /\ given' \subseteq Config /\ given \subseteq given'
      /\ Received(r) /\ r.op = 3 /\ sysCfg \in Config
      /\ UNCHANGED <<flash, acked, unanswered>>
  BY GivesKeeps DEF Bind, ConfigInv, ConfigTyped
<1>2. CASE Answered(2, TRUE) /\ UNCHANGED sysCfg
  <2>1. /\ at' = "answering" /\ answer'.error /\ sysCfg' \in Config
        /\ answer' \in [code : 0 .. 3, error : BOOLEAN]
    BY <1>1, <1>2 DEF Answered
  <2> QED
    BY <1>1, <2>1, AnsweredKeeps
<1>3. CASE /\ GoodDevice(r.device) /\ sysCfg' = [sysCfg EXCEPT !.device = r.device]
           /\ Answered(3, TRUE)
  <2>1. sysCfg' \in Config
    BY <1>1, <1>3 DEF Config, GoodDevice
  <2>2. /\ at' = "answering" /\ answer'.error
        /\ answer' \in [code : 0 .. 3, error : BOOLEAN]
    BY <1>3 DEF Answered
  <2> QED
    BY <1>1, <2>1, <2>2, AnsweredKeeps
<1>4. CASE /\ GoodDevice(r.device) /\ r.actId > 0
           /\ sysCfg' = [device |-> r.device, actId |-> r.actId]
           /\ at' = "saving" /\ UNCHANGED answer
  <2>1. sysCfg' = Wanted(r) /\ Wanted(r) \in given'
    BY <1>1, <1>4 DEF Wanted, Bind, Gives
  <2> QED
    BY <1>1, <1>4, <2>1, AcceptedKeeps
<1> QED
  BY <1>2, <1>3, <1>4 DEF Bind

LEMMA UnbindKeeps ==
  ASSUME ConfigInv, NEW r \in BindRequest, Unbind(r) PROVE ConfigInv'
<1>1. /\ given' \subseteq Config /\ given \subseteq given' /\ Unbound \in given'
      /\ Received(r) /\ r.op = 2 /\ sysCfg \in Config
      /\ UNCHANGED <<flash, acked, unanswered>>
  BY DEF Unbind, ConfigInv, ConfigTyped
<1>2. CASE Answered(1, TRUE) /\ UNCHANGED sysCfg
  <2>1. /\ at' = "answering" /\ answer'.error /\ sysCfg' \in Config
        /\ answer' \in [code : 0 .. 3, error : BOOLEAN]
    BY <1>1, <1>2 DEF Answered
  <2> QED
    BY <1>1, <2>1, AnsweredKeeps
<1>3. CASE sysCfg' = Unbound /\ at' = "saving" /\ UNCHANGED answer
  <2>1. sysCfg' = Wanted(r) /\ Wanted(r) \in given'
    BY <1>1, <1>3 DEF Wanted
  <2> QED
    BY <1>1, <1>3, <2>1, AcceptedKeeps
<1> QED
  BY <1>2, <1>3 DEF Unbind

\* cfg_save: what the request in hand asks for is in the flash from now on.
LEMMA SaveKeeps ==
  ASSUME ConfigInv, Save PROVE ConfigInv'
<1>1. /\ at = "saving" /\ flash' = sysCfg /\ at' = "answering"
      /\ answer' = [code |-> 0, error |-> FALSE]
      /\ UNCHANGED <<sysCfg, request, given, acked, unanswered>>
      /\ request.op \in {2, 3} /\ sysCfg = Wanted(request) /\ sysCfg \in given
  BY DEF Save, Answered, ConfigInv, InHand
<1>2. ConfigTyped' /\ SavedTogether' /\ Unbound \in given'
  BY <1>1 DEF ConfigInv, ConfigTyped, SavedTogether
<1>3. Wanted(request)' = Wanted(request)
  BY <1>1 DEF Wanted, Unbound
<1>4. InHand' /\ AckedIsSaved'
  BY <1>1, <1>3 DEF InHand, AckedIsSaved, Underway, Accepted
<1> QED
  BY <1>2, <1>4 DEF ConfigInv, Unbound

\* The answer: what was asked for is acknowledged, and saved.
LEMMA RespondKeeps ==
  ASSUME ConfigInv, Respond PROVE ConfigInv'
<1>1. /\ at = "answering" /\ at' = "idle"
      /\ UNCHANGED <<sysCfg, flash, request, answer, given>>
      /\ ConfigTyped
  BY DEF Respond, ConfigInv
<1>2. SavedTogether' /\ Unbound \in given' /\ InHand'
  BY <1>1 DEF ConfigInv, SavedTogether, InHand, Unbound
<1>3. CASE Accepted
  <2>1. acked' = Wanted(request) /\ unanswered' = {} /\ flash = Wanted(request)
    BY <1>1, <1>3 DEF Respond, Accepted, ConfigInv, InHand
  <2>2. ConfigTyped'
    BY <1>1, <2>1 DEF ConfigTyped
  <2> QED
    BY <1>1, <1>2, <2>1, <2>2 DEF ConfigInv, AckedIsSaved, Unbound
<1>4. CASE ~Accepted
  <2>1. acked' = acked /\ unanswered' = unanswered /\ flash \in {acked} \cup unanswered
    BY <1>4 DEF Respond, ConfigInv, AckedIsSaved, Underway
  <2>2. ConfigTyped'
    BY <1>1, <2>1 DEF ConfigTyped
  <2> QED
    BY <1>1, <1>2, <2>1, <2>2 DEF ConfigInv, AckedIsSaved, Unbound
<1> QED
  BY <1>3, <1>4

\* A restart between any two steps.
LEMMA RestartKeeps ==
  ASSUME ConfigInv, Restart PROVE ConfigInv'
<1>1. /\ sysCfg' = flash /\ at' = "idle" /\ unanswered' = unanswered \cup Underway
      /\ UNCHANGED <<flash, request, answer, given, acked>>
      /\ ConfigTyped
  BY DEF Restart, ConfigInv
<1>2. Underway \subseteq Config
  BY <1>1, WantedType DEF Underway, ConfigTyped
<1>3. ConfigTyped'
  BY <1>1, <1>2 DEF ConfigTyped
<1>4. SavedTogether' /\ Unbound \in given' /\ InHand'
  BY <1>1 DEF ConfigInv, SavedTogether, InHand, Unbound
<1>5. AckedIsSaved'
  BY <1>1 DEF ConfigInv, AckedIsSaved
<1> QED
  BY <1>3, <1>4, <1>5 DEF ConfigInv, Unbound

LEMMA NextConfigInv == ConfigInv /\ [ConfigNext]_configVars => ConfigInv'
<1> SUFFICES ASSUME ConfigInv, [ConfigNext]_configVars PROVE ConfigInv'
  OBVIOUS
<1>0. ASSUME NEW r \in BindRequest, Query(r) PROVE ConfigInv'
  <2>1. Received(r) /\ UNCHANGED <<sysCfg, flash, given, acked, unanswered>>
    BY <1>0, Zenon DEF Query
  <2>2. ~(r.op \in {2, 3})
    BY <1>0 DEF Query
  <2>3. at' = "answering" /\ answer' \in [code : 0 .. 3, error : BOOLEAN]
    BY <1>0 DEF Query, Answered
  <2>4. sysCfg' \in Config /\ given' \subseteq Config /\ given \subseteq given'
    BY <2>1 DEF ConfigInv, ConfigTyped
  <2> QED
    BY <2>1, <2>2, <2>3, <2>4, AnsweredKeeps
<1>1. ASSUME NEW r \in BindRequest, InvalidOpCode(r) PROVE ConfigInv'
  <2>1. Received(r) /\ UNCHANGED <<sysCfg, flash, given, acked, unanswered>>
    BY <1>1, Zenon DEF InvalidOpCode
  <2>2. ~(r.op \in {2, 3})
    BY <1>1 DEF InvalidOpCode
  <2>3. at' = "answering" /\ answer' \in [code : 0 .. 3, error : BOOLEAN]
    BY <1>1 DEF InvalidOpCode, Answered
  <2>4. sysCfg' \in Config /\ given' \subseteq Config /\ given \subseteq given'
    BY <2>1 DEF ConfigInv, ConfigTyped
  <2> QED
    BY <2>1, <2>2, <2>3, <2>4, AnsweredKeeps
<1>2. ASSUME NEW r \in BindRequest, Bind(r) PROVE ConfigInv'
  BY <1>2, BindKeeps
<1>3. ASSUME NEW r \in BindRequest, Unbind(r) PROVE ConfigInv'
  BY <1>3, UnbindKeeps
<1>4. CASE Save \/ Respond \/ Restart
  BY <1>4, SaveKeeps, RespondKeeps, RestartKeeps
<1>5. CASE UNCHANGED configVars
  BY <1>5 DEF configVars, ConfigInv, ConfigTyped, SavedTogether, InHand, AckedIsSaved,
              Underway, Accepted, Wanted, Unbound
<1> QED
  BY <1>0, <1>1, <1>2, <1>3, <1>4, <1>5 DEF ConfigNext

LEMMA SpecConfigInv == ConfigSpec => []ConfigInv
BY InitConfigInv, NextConfigInv, PTL DEF ConfigSpec

(* The remote function keeps every variable in its type, restarts included. *)
THEOREM ConfigTypeOK == ConfigSpec => []ConfigTyped
<1>1. ConfigInv => ConfigTyped
  BY DEF ConfigInv
<1> QED
  BY <1>1, SpecConfigInv, PTL

(* Whatever device ids and accounts requests carry and wherever the device *)
(* restarts, the configuration in flash is one that a single request gave. *)
THEOREM ConfigSavedTogether == ConfigSpec => []SavedTogether
<1>1. ConfigInv => SavedTogether
  BY DEF ConfigInv
<1> QED
  BY <1>1, SpecConfigInv, PTL

(* Wherever the device restarts, the flash has what the last request asked  *)
(* for that was answered without an error, or one accepted since whose      *)
(* answer a restart took; never what a refused request asked for.           *)
THEOREM ConfigAckedIsSaved == ConfigSpec => []AckedIsSaved
<1>1. ConfigInv => AckedIsSaved
  BY DEF ConfigInv
<1> QED
  BY <1>1, SpecConfigInv, PTL

=============================================================================
