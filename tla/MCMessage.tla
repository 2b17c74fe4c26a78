------------------------------ MODULE MCMessage ------------------------------
(* Message for TLC: parameters, items and extras at the limits of their    *)
(* prefixes and buffers.                                                   *)
EXTENDS Message

Str(n) == <<>> \o [i \in 1..n |-> 97]
Elem(type, val) == Extra(Null, type, val)
Text(n) == Elem(PREFIX_TYPE_STRINGG, Str(n))

Small ==
  <<Text(0), Text(1), Text(3),
    Elem(PREFIX_TYPE_BYTE, -1), Elem(PREFIX_TYPE_SHORTT, -300),
    Elem(PREFIX_TYPE_INT, 70000), Elem(PREFIX_TYPE_LONG, -2),
    Elem(PREFIX_TYPE_CHAR, 65), Elem(PREFIX_TYPE_BOOLEAN, 1),
    Elem(PREFIX_TYPE_FLOAT, Null), Elem(PREFIX_TYPE_STRINGG, Null),
    Elem(PREFIX_TYPE_BYTEBUFFER, <<>>), Elem(PREFIX_TYPE_BYTEBUFFER, <<1, 2>>)>>
Long == [n \in 1..6 |-> Text(<<126, 127, 128, 255, 256, 300>>[n])]
(* F of all combinations of elements of s and t; the empty sequence in     *)
(* front makes TLC evaluate it once and for all.                           *)
Times(s, t, F(_, _)) == <<>> \o
  [n \in 1..(Len(s) * Len(t)) |-> F(s[1 + ((n - 1) \div Len(t))],
                                   t[1 + ((n - 1) % Len(t))])]
Lists ==
  <<<<>>>> \o [n \in DOMAIN Small |-> <<Small[n]>>]
    \o Times(Small, Small, LAMBDA a, b : <<a, b>>)
Pairs(k) ==
  Times(Small, Small, LAMBDA a, b : <<[a EXCEPT !.key = k],
                                      [b EXCEPT !.key = Str(1)]>>)
Maps == <<<<>>>> \o Pairs(<<>>) \o Pairs(Str(2))
(* Lists that end with a list whose type, or whose count, fills the buffer. *)
Nested(l) ==
  [n \in 1..12 |-> Elem(PREFIX_TYPE_LIST,
                        <<Elem(PREFIX_TYPE_LIST, l), Text(112 + n),
                          Elem(PREFIX_TYPE_LIST, l)>>)]
Single ==
  Small \o Long \o Nested(<<>>) \o Nested(<<Text(0)>>)
    \o Times(<<PREFIX_TYPE_LIST, PREFIX_TYPE_SET>>, Lists, Elem)
    \o Times(<<PREFIX_TYPE_MAP, PREFIX_TYPE_PROXY>>, Maps, Elem)
AllParams ==
  <<<<>>, <<Text(1), Elem(PREFIX_TYPE_INT, 5)>>>>
    \o [n \in DOMAIN Single |-> <<Single[n]>>]

SmallMap(n) ==
  <<Extra(Str(1), PREFIX_TYPE_STRINGG, Str(n)),
    Extra(Str(2), PREFIX_TYPE_MAP, <<Extra(<<>>, PREFIX_TYPE_INT, -3),
                                     Extra(Str(3), PREFIX_TYPE_LIST, <<>>)>>)>>
Item(n, topic, callback, cxt, type, data) ==
  [flag |-> type * 32, fr |-> 5, id |-> n, type |-> n, topic |-> topic,
   srcClientId |-> -n, to |-> n, callback |-> callback, cxt |-> cxt,
   data |-> data]
Strings == <<Null, <<>>, Str(2), Str(126), Str(127), Str(250)>>
DataOf ==
  [n \in DOMAIN Strings |-> <<FLAG_DATA_STRING, Strings[n]>>]
    \o <<<<FLAG_DATA_JSON, Str(127)>>, <<FLAG_DATA_BIN, <<>>>>,
         <<FLAG_DATA_BIN, <<9, 8>>>>, <<FLAG_DATA_EXTRA, SmallMap(0)>>,
         <<FLAG_DATA_EXTRA, SmallMap(127)>>, <<FLAG_DATA_EXTRA, SmallMap(128)>>>>
Froms == <<<<0, Str(1)>>, <<-1, Str(127)>>>>
Cxts == Times(<<Null, <<>>>>, <<<<>>, SmallMap(0)>>, LAMBDA c, l : <<c, l>>)
Heads == Times(Froms, Cxts, LAMBDA f, c : f \o c)
AllItems ==
  Times(Heads, DataOf,
        LAMBDA k, d : Item(k[1], k[2], k[3], k[4], d[1], d[2]))

UdpTo == <<Extra(EXTRA_KEY_UDP_ACK, PREFIX_TYPE_BOOLEAN, 1),
           IntExtra(EXTRA_KEY_UDP_PORT, 99),
           StrExtra(EXTRA_KEY_UDP_HOST, Str(9))>>
TopicArgs(n) == <<StrExtra(-113, Str(n)), Extra(-114, PREFIX_TYPE_BYTE, 3)>>
(* With the flags and no loginKey, Filled(107) fills the buffer of extras.  *)
Filled(n) == TopicArgs(127) \o
  <<StrExtra(-112, Str(127)), StrExtra(-107, Str(124)), StrExtra(-106, Str(n))>>
AllHeaders ==
  <<<<>>, UdpTo, TopicArgs(1), TopicArgs(127), Filled(106), Filled(107),
    Filled(108), Append(Filled(105), StrExtra(-105, <<>>))>>
SomeKeys == {Null, Str(8), Str(127), Str(128)}
OneSource == {[host |-> Str(7), port |-> 70]}
=============================================================================
