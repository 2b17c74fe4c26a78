---------------------------- MODULE ClientProofs ----------------------------
(***************************************************************************)
(* Theorems of the client's session (Session: who is logged in, the        *)
(* spacing of login requests, the calls of the login listeners), for any   *)
(* accounts, listeners, sizes and bounds; of its subscriptions (PubSub:    *)
(* their ids, the requests, the re-subscription after a login), for any    *)
(* topics, listeners, types and number of messages; and of the pools that  *)
(* its messages, items and extras come from (ObjectPools: their types and  *)
(* their safety), for every heap and any number of activities.             *)
(***************************************************************************)
EXTENDS Session, PubSub, ObjectPools, FiniteSetTheorems, WellFoundedInduction, TLAPS

-----------------------------------------------------------------------------
(* Session                                                                 *)

(* The inductive invariant.  lastLoginTime is no older than the last        *)
(* request; llCnt counts the slots in use; a listener that is owed a call   *)
(* is in a slot that the loop has still to come to.                         *)
Sizes ==
  /\ loginAge \in 0..Interval /\ sinceSent \in 0..Interval
  /\ inFlight \in [Accounts -> Nat]
  /\ atZero \in BOOLEAN
Spacing == loginAge <= sinceSent /\ (atZero => sinceSent = Interval)
Tainting == tainted \in BOOLEAN
Occupied == {i \in Slots : lises[i] # NULL}
Counted == lises \in [Slots -> Listeners \cup {NULL}] /\ llCnt = Cardinality(Occupied)
OwedAhead ==
  /\ turn \in 0..LLSIZE
  /\ turn = 0 => owed = {}
  /\ \A fn \in owed : fn # NULL /\ \E i \in turn..LLSIZE : lises[i] = fn

-----------------------------------------------------------------------------
(* The table.                                                               *)

\* A set of slots that is not empty has a first one.
LEMMA FirstIsIn ==
  ASSUME NEW S \in SUBSET Slots, S # {}
  PROVE  First(S) \in S
<1> DEFINE R == OpToRel(<, Nat)
<1>1. IsWellFoundedOn(R, Nat)
  BY NatLessThanWellFounded
<1>2. R = {r \in Nat \X Nat : r[1] < r[2]}
  BY DEF OpToRel
<1>3. S \subseteq Nat
  BY SizesAreNat DEF Slots
<1> HIDE DEF R
<1>4. PICK x \in S : \A y \in S : ~(<<y, x>> \in R)
  BY <1>1, <1>3, WFMin
<1>5. \A y \in S : x <= y
  <2> SUFFICES ASSUME NEW y \in S PROVE x <= y
    OBVIOUS
  <2>1. <<y, x>> \in Nat \X Nat /\ <<y, x>>[1] = y /\ <<y, x>>[2] = x
    BY <1>3
  <2> QED
    BY <1>2, <1>3, <1>4, <2>1
<1> QED
  BY <1>5 DEF First

\* The slots are LLSIZE.
LEMMA SlotsAreFinite ==
  IsFiniteSet(Slots) /\ Cardinality(Slots) = LLSIZE
BY FS_Interval, SizesAreNat DEF Slots

\* The slots in use are finite, and all of them when none is free.
LEMMA OccupiedIsFinite ==
  /\ IsFiniteSet(Occupied)
  /\ Cardinality(Occupied) \in Nat
  /\ Free = {} => Cardinality(Occupied) = LLSIZE
<1>1. Occupied \in SUBSET Slots
  BY DEF Occupied
<1>2. IsFiniteSet(Occupied)
  BY <1>1, SlotsAreFinite, FS_Subset
<1>3. Free = {} => Occupied = Slots
  BY DEF Free, Occupied
<1> QED
  BY <1>2, <1>3, SlotsAreFinite, FS_CardinalityType

\* client_registLoginListener keeps the count exact and fills no slot in use.
LEMMA RegistKeeps ==
  ASSUME Counted, NEW fn \in Listeners, Regist(fn)
  PROVE  Counted' /\ \A i \in Occupied : lises'[i] = lises[i]
<1>1. CASE llCnt = LLSIZE
  BY <1>1 DEF Regist, table, Counted, Occupied
<1>2. CASE llCnt # LLSIZE
  <2>1. Free # {} /\ Free \in SUBSET Slots
    BY <1>2, OccupiedIsFinite DEF Counted, Free
  <2> DEFINE s == First(Free)
  <2>2. s \in Slots /\ lises[s] = NULL
    BY <2>1, FirstIsIn DEF Free
  <2>3. lises' = [lises EXCEPT ![s] = fn] /\ llCnt' = llCnt + 1
    BY <1>2, <2>1 DEF Regist
  <2> HIDE DEF s
  <2>4. lises' \in [Slots -> Listeners \cup {NULL}]
    BY <2>2, <2>3 DEF Counted
  <2>5. Occupied' = Occupied \cup {s} /\ s \notin Occupied
    BY <2>2, <2>3, ListenersAreFunctions DEF Counted, Occupied
  <2>6. Cardinality(Occupied') = Cardinality(Occupied) + 1
    BY <2>5, OccupiedIsFinite, FS_AddElement
  <2>7. \A i \in Occupied : lises'[i] = lises[i]
    BY <2>3, <2>5 DEF Counted, Occupied
  <2> QED
    BY <2>3, <2>4, <2>6, <2>7 DEF Counted
<1> QED
  BY <1>1, <1>2

\* client_unregistLoginListener keeps it exact and empties no other's slot.
LEMMA UnregistKeeps ==
  ASSUME Counted, NEW fn \in Listeners, Unregist(fn)
  PROVE  Counted' /\ \A i \in Slots : lises[i] # fn => lises'[i] = lises[i]
<1>1. CASE SlotsOf(fn) = {}
  BY <1>1 DEF Unregist, table, Counted, Occupied
<1>2. CASE SlotsOf(fn) # {}
  <2> DEFINE s == First(SlotsOf(fn))
  <2>1. s \in Slots /\ lises[s] = fn
    BY <1>2, FirstIsIn DEF SlotsOf
  <2>2. lises' = [lises EXCEPT ![s] = NULL] /\ llCnt' = llCnt - 1
    BY <1>2 DEF Unregist
  <2> HIDE DEF s
  <2>3. lises' \in [Slots -> Listeners \cup {NULL}]
    BY <2>1, <2>2 DEF Counted
  <2>4. Occupied' = Occupied \ {s} /\ s \in Occupied
    BY <2>1, <2>2, ListenersAreFunctions DEF Counted, Occupied
  <2>5. Cardinality(Occupied') = Cardinality(Occupied) - 1
    BY <2>4, OccupiedIsFinite, FS_RemoveElement
  <2>6. \A i \in Slots : lises[i] # fn => lises'[i] = lises[i]
    BY <2>1, <2>2 DEF Counted
  <2> QED
    BY <2>2, <2>3, <2>5, <2>6 DEF Counted
<1> QED
  BY <1>1, <1>2

\* The table stays exact: only three handlers change it.
LEMMA CountedKept ==
  ASSUME Counted, [Next]_vars
  PROVE  Counted'
<1>1. CASE UNCHANGED table
  BY <1>1 DEF table, Counted, Occupied
<1>2. ASSUME NEW fn \in Listeners, AddListener(fn)
      PROVE  Counted'
  BY <1>2, RegistKeeps DEF AddListener
<1>3. ASSUME NEW fn \in Listeners, RemoveListener(fn)
      PROVE  Counted'
  BY <1>3, UnregistKeeps DEF RemoveListener
<1>4. ASSUME NEW aid \in Accounts, ClientInit(aid)
      PROVE  Counted'
  BY <1>4, RegistKeeps, ListenersAreFunctions DEF ClientInit
<1>5. CASE UNCHANGED vars
  BY <1>1, <1>5 DEF vars, table
<1>6. ASSUME NEW aid \in Accounts, AppLogin(aid) \/ LoseAnswer(aid)
      PROVE  UNCHANGED table
  BY <1>6 DEF AppLogin, LoseAnswer
<1>7. ASSUME NEW aid \in Accounts,
             LoginFails(aid) \/ LoginWithoutData(aid)
               \/ \E hasKey \in BOOLEAN : LoginSucceeds(aid, hasKey)
      PROVE  UNCHANGED table
  BY <1>7 DEF LoginFails, LoginWithoutData, LoginSucceeds, Answered
<1>8. CASE SocketConed \/ Logout \/ CallListener \/ LosePing \/ OtherMessage
             \/ TimerNoConnection \/ Tick
  BY <1>1, <1>8 DEF SocketConed, Logout, CallListener, LosePing, OtherMessage,
                    TimerNoConnection, Tick
<1>9. ASSUME NEW beat \in BOOLEAN, TimerLogin(beat)
      PROVE  UNCHANGED table
  BY <1>9 DEF TimerLogin
<1> QED
  BY <1>1, <1>2, <1>3, <1>4, <1>5, <1>6, <1>7, <1>8, <1>9 DEF Next

-----------------------------------------------------------------------------
(* The listeners that are owed a call.                                      *)

\* What changes neither the table nor the loop keeps what is owed.
LEMMA OwedKeptIdle ==
  ASSUME OwedAhead, UNCHANGED table, UNCHANGED loop
  PROVE  OwedAhead'
BY DEF OwedAhead, table, loop

\* An owed listener is owed until its call, or until it is removed.
LEMMA OwedKept ==
  ASSUME Counted, OwedAhead, [Next]_vars
  PROVE  OwedAhead'
<1>0. LLSIZE \in Nat /\ LLSIZE >= 2
  BY SizesAreNat
<1>1. ASSUME NEW fn \in Listeners, Regist(fn), UNCHANGED loop
      PROVE  OwedAhead'
  <2>1. \A i \in Occupied : lises'[i] = lises[i]
    BY <1>1, RegistKeeps
  <2>2. ASSUME NEW g \in owed
        PROVE  g # NULL /\ \E i \in turn..LLSIZE : lises'[i] = g
    <3>1. PICK i \in turn..LLSIZE : lises[i] = g
      BY DEF OwedAhead
    <3>2. turn # 0 /\ turn \in 0..LLSIZE /\ g # NULL
      BY DEF OwedAhead
    <3>3. i \in Occupied
      BY <1>0, <3>1, <3>2 DEF Occupied, Slots
    <3> QED
      BY <2>1, <3>1, <3>2, <3>3
  <2> QED
    BY <1>1, <2>2 DEF OwedAhead, loop
<1>2. ASSUME NEW fn \in Listeners, RemoveListener(fn)
      PROVE  OwedAhead'
  <2>1. \A i \in Slots : lises[i] # fn => lises'[i] = lises[i]
    BY <1>2, UnregistKeeps DEF RemoveListener
  <2>2. owed' = owed \ {fn} /\ turn' = turn
    BY <1>2 DEF RemoveListener
  <2>3. ASSUME NEW g \in owed'
        PROVE  g # NULL /\ \E i \in turn'..LLSIZE : lises'[i] = g
    <3>1. PICK i \in turn..LLSIZE : lises[i] = g
      BY <2>2 DEF OwedAhead
    <3>2. turn # 0 /\ turn \in 0..LLSIZE /\ g # NULL /\ g # fn
      BY <2>2 DEF OwedAhead
    <3>3. i \in Slots
      BY <1>0, <3>1, <3>2 DEF Slots
    <3> QED
      BY <2>1, <2>2, <3>1, <3>2, <3>3
  <2> QED
    BY <2>2, <2>3 DEF OwedAhead
<1>3. ASSUME NEW aid \in Accounts, NEW hasKey \in BOOLEAN, LoginSucceeds(aid, hasKey)
      PROVE  OwedAhead'
  <2>1. /\ turn' = IF llCnt > 0 THEN 1 ELSE 0
        /\ owed' = {lises[i] : i \in Slots} \ {NULL}
        /\ lises' = lises
    BY <1>3 DEF LoginSucceeds, Answered, table
  <2>2. CASE llCnt > 0
    BY <1>0, <2>1, <2>2 DEF OwedAhead, Slots
  <2>3. CASE ~(llCnt > 0)
    <3>1. Cardinality(Occupied) = 0
      BY <2>3, OccupiedIsFinite DEF Counted
    <3>2. Occupied = {}
      BY <3>1, OccupiedIsFinite, FS_EmptySet
    <3>3. owed' = {}
      BY <2>1, <3>2 DEF Occupied
    <3> QED
      BY <1>0, <2>1, <2>3, <3>3 DEF OwedAhead
  <2> QED
    BY <2>2, <2>3
<1>4. CASE CallListener
  <2>1. /\ turn \in 0..LLSIZE /\ turn # 0
        /\ turn' = IF turn = LLSIZE THEN 0 ELSE turn + 1
        /\ owed' = owed \ {lises[turn]}
        /\ lises' = lises
    BY <1>4 DEF CallListener, OwedAhead, table
  <2>2. ASSUME NEW g \in owed'
        PROVE  g # NULL /\ \E i \in (turn + 1)..LLSIZE : lises[i] = g
    <3>1. PICK i \in turn..LLSIZE : lises[i] = g
      BY <2>1 DEF OwedAhead
    <3>2. i # turn /\ g # NULL
      BY <2>1, <3>1 DEF OwedAhead
    <3> QED
      BY <1>0, <2>1, <3>1, <3>2
  <2>3. CASE turn = LLSIZE
    <3>1. owed' = {}
      BY <1>0, <2>2, <2>3
    <3> QED
      BY <1>0, <2>1, <2>3, <3>1 DEF OwedAhead
  <2>4. CASE turn # LLSIZE
    <3>1. turn' = turn + 1 /\ turn' \in 0..LLSIZE /\ turn' # 0
      BY <1>0, <2>1, <2>4
    <3> QED
      BY <2>1, <2>2, <3>1 DEF OwedAhead
  <2> QED
    BY <2>3, <2>4
<1>5. ASSUME NEW aid \in Accounts, ClientInit(aid)
      PROVE  OwedAhead'
  BY <1>1, <1>5, ListenersAreFunctions DEF ClientInit
<1>6. ASSUME NEW fn \in Listeners, AddListener(fn)
      PROVE  OwedAhead'
  BY <1>1, <1>6 DEF AddListener
<1>7. CASE UNCHANGED vars
  BY <1>7, OwedKeptIdle DEF vars, table, loop
<1>8. ASSUME NEW aid \in Accounts,
             AppLogin(aid) \/ LoseAnswer(aid) \/ LoginFails(aid) \/ LoginWithoutData(aid)
      PROVE  OwedAhead'
  BY <1>8, OwedKeptIdle DEF AppLogin, LoseAnswer, LoginFails, LoginWithoutData, Answered
<1>9. CASE SocketConed \/ Logout \/ LosePing \/ OtherMessage \/ TimerNoConnection \/ Tick
  BY <1>9, OwedKeptIdle DEF SocketConed, Logout, LosePing, OtherMessage,
                            TimerNoConnection, Tick
<1>10. ASSUME NEW beat \in BOOLEAN, TimerLogin(beat)
       PROVE  OwedAhead'
  BY <1>10, OwedKeptIdle DEF TimerLogin
<1> QED
  BY <1>2, <1>3, <1>4, <1>5, <1>6, <1>7, <1>8, <1>9, <1>10 DEF Next

-----------------------------------------------------------------------------
(* The spacing of login requests.                                           *)

SpacedStep == \A a \in Accounts : inFlight'[a] > inFlight[a] => sinceSent = Interval

\* client_login sends only when the last request is an Interval old.
LEMMA LoginSpaces ==
  ASSUME Sizes, Spacing, NEW aid, Login(aid), atZero' = atZero
  PROVE  Sizes' /\ Spacing' /\ SpacedStep
<1>0. Interval \in Nat /\ Interval # 0
  BY SizesAreNat
<1>1. CASE UNCHANGED request
  BY <1>1 DEF request, Sizes, Spacing, SpacedStep
<1>2. CASE ~Busy /\ Stamp /\ NotSent
  BY <1>0, <1>2 DEF Busy, Stamp, NotSent, Sizes, Spacing, SpacedStep
<1>3. CASE ~Busy /\ Stamp /\ Sent(aid) /\ aid \in Accounts
  <2>1. sinceSent = Interval
    BY <1>0, <1>3 DEF Busy, Sizes, Spacing
  <2>2. /\ loginAge' = IF atZero THEN Interval ELSE 0
        /\ sinceSent' = IF atZero THEN Interval ELSE 0
    BY <1>3 DEF Stamp, Sent
  <2>3. inFlight' \in [Accounts -> Nat]
    BY <1>3 DEF Sent, Sizes
  <2>4. Sizes'
    BY <1>0, <2>2, <2>3 DEF Sizes
  <2>5. Spacing'
    BY <1>0, <2>2 DEF Spacing
  <2> QED
    BY <2>1, <2>4, <2>5 DEF SpacedStep
<1> QED
  BY <1>1, <1>2, <1>3 DEF Login

\* What leaves the times alone and answers or loses a request at most.
LEMMA QuietSpaces ==
  ASSUME Sizes, Spacing, UNCHANGED <<loginAge, sinceSent, atZero>>,
         \/ UNCHANGED inFlight
         \/ \E aid \in Accounts :
              inFlight[aid] > 0 /\ inFlight' = [inFlight EXCEPT ![aid] = @ - 1]
  PROVE  Sizes' /\ Spacing' /\ SpacedStep
<1>1. CASE UNCHANGED inFlight
  BY <1>1 DEF Sizes, Spacing, SpacedStep
<1>2. ASSUME NEW aid \in Accounts, inFlight[aid] > 0,
             inFlight' = [inFlight EXCEPT ![aid] = @ - 1]
      PROVE  Sizes' /\ Spacing' /\ SpacedStep
  <2>1. inFlight' \in [Accounts -> Nat] /\ \A a \in Accounts : ~(inFlight'[a] > inFlight[a])
    BY <1>2 DEF Sizes
  <2> QED
    BY <2>1 DEF Sizes, Spacing, SpacedStep
<1> QED
  BY <1>1, <1>2

LEMMA SpacingKept ==
  ASSUME Sizes, Spacing, [Next]_vars
  PROVE  Sizes' /\ Spacing' /\ SpacedStep
<1>1. ASSUME NEW aid \in Accounts, AppLogin(aid)
      PROVE  Sizes' /\ Spacing' /\ SpacedStep
  BY <1>1, LoginSpaces DEF AppLogin
<1>2. CASE SocketConed
  BY <1>2, LoginSpaces DEF SocketConed
<1>3. ASSUME NEW beat \in BOOLEAN, TimerLogin(beat)
      PROVE  Sizes' /\ Spacing' /\ SpacedStep
  BY <1>3, LoginSpaces DEF TimerLogin
<1>4. CASE Tick
  <2>0. Interval \in Nat
    BY SizesAreNat
  <2>1. /\ atZero' = FALSE /\ UNCHANGED inFlight
        /\ loginAge' = Older(loginAge) /\ sinceSent' = Older(sinceSent)
    BY <1>4 DEF Tick
  <2>2. Older(loginAge) \in 0..Interval /\ Older(sinceSent) \in 0..Interval
          /\ Older(loginAge) <= Older(sinceSent)
    BY <2>0 DEF Older, Sizes, Spacing
  <2>3. Sizes' /\ Spacing'
    BY <2>1, <2>2 DEF Sizes, Spacing
  <2> QED
    BY <2>1, <2>3 DEF Sizes, SpacedStep
<1>5. ASSUME NEW aid \in Accounts,
             \/ LoginFails(aid) \/ LoginWithoutData(aid)
             \/ \E hasKey \in BOOLEAN : LoginSucceeds(aid, hasKey)
             \/ LoseAnswer(aid)
      PROVE  Sizes' /\ Spacing' /\ SpacedStep
  BY <1>5, QuietSpaces DEF LoginFails, LoginWithoutData, LoginSucceeds, Answered, LoseAnswer
<1>6. ASSUME NEW aid \in Accounts, ClientInit(aid)
      PROVE  Sizes' /\ Spacing' /\ SpacedStep
  BY <1>6, QuietSpaces DEF ClientInit
<1>7. ASSUME NEW fn \in Listeners, AddListener(fn) \/ RemoveListener(fn)
      PROVE  Sizes' /\ Spacing' /\ SpacedStep
  BY <1>7, QuietSpaces DEF AddListener, RemoveListener, request
<1>8. CASE Logout \/ CallListener \/ LosePing \/ OtherMessage \/ TimerNoConnection
  BY <1>8, QuietSpaces DEF Logout, CallListener, LosePing, OtherMessage,
                           TimerNoConnection, request
<1>9. CASE UNCHANGED vars
  BY <1>9, QuietSpaces DEF vars
<1> QED
  BY <1>1, <1>2, <1>3, <1>4, <1>5, <1>6, <1>7, <1>8, <1>9 DEF Next

-----------------------------------------------------------------------------
(* The key.                                                                 *)

LEMMA KeyKept ==
  ASSUME Tainting, KeyOfAccount, [Next]_vars
  PROVE  Tainting' /\ KeyOfAccount'
<1>1. ASSUME NEW aid, Login(aid), UNCHANGED <<session, tainted>>
      PROVE  Tainting' /\ KeyOfAccount'
  <2>1. LoggedIn => actId' = actId
    BY <1>1 DEF Login, request
  <2> QED
    BY <1>1, <2>1 DEF Tainting, KeyOfAccount, LoggedIn, session
<1>2. CASE UNCHANGED <<session, actId, tainted>>
  BY <1>2 DEF Tainting, KeyOfAccount, LoggedIn, session
<1>3. ASSUME NEW aid \in Accounts, AppLogin(aid)
      PROVE  Tainting' /\ KeyOfAccount'
  BY <1>1, <1>3 DEF AppLogin
<1>4. CASE SocketConed
  BY <1>1, <1>4 DEF SocketConed
<1>5. ASSUME NEW beat \in BOOLEAN, TimerLogin(beat)
      PROVE  Tainting' /\ KeyOfAccount'
  BY <1>1, <1>5 DEF TimerLogin
<1>6. CASE Logout
  BY <1>6 DEF Logout, Tainting, KeyOfAccount, LoggedIn
<1>7. ASSUME NEW aid \in Accounts, ClientInit(aid)
      PROVE  Tainting' /\ KeyOfAccount'
  <2>1. tainted' = (tainted \/ actId' # actId) /\ UNCHANGED session
    BY <1>7 DEF ClientInit
  <2> QED
    BY <2>1 DEF Tainting, KeyOfAccount, LoggedIn, session
<1>8. ASSUME NEW aid \in Accounts, LoginFails(aid)
      PROVE  Tainting' /\ KeyOfAccount'
  BY <1>8 DEF LoginFails, Tainting, KeyOfAccount, LoggedIn
<1>9. ASSUME NEW aid \in Accounts, LoginWithoutData(aid)
      PROVE  Tainting' /\ KeyOfAccount'
  BY <1>9 DEF LoginWithoutData, Tainting, KeyOfAccount
<1>10. ASSUME NEW aid \in Accounts, NEW hasKey \in BOOLEAN, LoginSucceeds(aid, hasKey)
       PROVE  Tainting' /\ KeyOfAccount'
  <2>1. /\ tainted' = (~hasKey \/ aid # actId) /\ actId' = actId
        /\ loginKey' = IF hasKey THEN aid ELSE loginKey
    BY <1>10 DEF LoginSucceeds, Answered
  <2> QED
    BY <2>1 DEF Tainting, KeyOfAccount
<1>11. ASSUME NEW fn \in Listeners, AddListener(fn) \/ RemoveListener(fn)
       PROVE  Tainting' /\ KeyOfAccount'
  BY <1>2, <1>11 DEF AddListener, RemoveListener, request
<1>12. CASE \/ CallListener \/ LosePing \/ OtherMessage \/ TimerNoConnection \/ Tick
            \/ \E aid \in Accounts : LoseAnswer(aid)
            \/ UNCHANGED vars
  BY <1>2, <1>12 DEF CallListener, LosePing, OtherMessage, TimerNoConnection, Tick,
                     LoseAnswer, request, session, vars
<1> QED
  BY <1>3, <1>4, <1>5, <1>6, <1>7, <1>8, <1>9, <1>10, <1>11, <1>12 DEF Next

-----------------------------------------------------------------------------
(* The types of the rest.                                                   *)

Rest ==
  /\ loginCode \in {"LSUCCESS", "LOGOUT", "failed"}
  /\ loginKey \in Accounts \cup {NoAccount} /\ actId \in Accounts \cup {NoAccount}
  /\ inited \in BOOLEAN /\ pinged \in BOOLEAN
  /\ activeAge \in 0..Interval /\ heartAge \in 0..Interval
  /\ inFlight \in [Accounts -> 0..MaxInFlight]
  /\ events \in 0..MaxEvents
  /\ owed \subseteq Listeners

\* client_login keeps the types of what it changes.
LEMMA LoginKeepsTypes ==
  ASSUME Rest, NEW aid, Login(aid)
  PROVE  actId' \in Accounts \cup {NoAccount} /\ inFlight' \in [Accounts -> 0..MaxInFlight]
<1>1. CASE UNCHANGED <<actId, inFlight>>
  BY <1>1 DEF Rest
<1>2. CASE aid \in Accounts /\ actId' = aid /\ UNCHANGED inFlight
  BY <1>2 DEF Rest
<1>3. CASE aid \in Accounts /\ actId' = aid /\ Sent(aid)
  <2>1. inFlight[aid] < MaxInFlight /\ inFlight' = [inFlight EXCEPT ![aid] = @ + 1]
    BY <1>3 DEF Sent, HasRoom
  <2>2. inFlight' \in [Accounts -> 0..MaxInFlight]
    BY <2>1, <1>3, SizesAreNat DEF Rest
  <2> QED
    BY <1>3, <2>2
<1> QED
  BY <1>1, <1>2, <1>3 DEF Login, request, NotSent

\* A request that is answered or lost leaves the counts.
LEMMA FewerInFlight ==
  ASSUME Rest, NEW aid \in Accounts, inFlight[aid] > 0,
         inFlight' = [inFlight EXCEPT ![aid] = @ - 1]
  PROVE  inFlight' \in [Accounts -> 0..MaxInFlight]
BY SizesAreNat DEF Rest

LEMMA RestKept ==
  ASSUME Rest, Counted, [Next]_vars
  PROVE  Rest'
<1>0. /\ Interval \in Nat /\ 0 \in 0..Interval /\ MaxEvents \in Nat
      /\ Event => events' \in 0..MaxEvents
  BY SizesAreNat DEF Rest, Event
<1>1. ASSUME NEW aid \in Accounts, AppLogin(aid)
      PROVE  Rest'
  BY <1>0, <1>1, LoginKeepsTypes DEF AppLogin, session, clock, loop, Rest
<1>2. CASE SocketConed
  BY <1>0, <1>2, LoginKeepsTypes DEF SocketConed, session, clock, loop, Rest
<1>3. ASSUME NEW beat \in BOOLEAN, TimerLogin(beat)
      PROVE  Rest'
  <2>1. UNCHANGED clock \/ (heartAge' = 0 /\ pinged' = TRUE /\ activeAge' = activeAge)
    BY <1>3 DEF TimerLogin, Heartbeat
  <2> QED
    BY <1>0, <1>3, <2>1, LoginKeepsTypes DEF TimerLogin, session, clock, loop, Rest
<1>4. CASE Logout
  BY <1>0, <1>4 DEF Logout, clock, loop, Rest
<1>5. ASSUME NEW aid \in Accounts, ClientInit(aid)
      PROVE  Rest'
  BY <1>0, <1>5 DEF ClientInit, session, clock, loop, Rest
<1>6. ASSUME NEW fn \in Listeners, AddListener(fn)
      PROVE  Rest'
  BY <1>0, <1>6 DEF AddListener, session, request, clock, loop, Rest
<1>7. ASSUME NEW fn \in Listeners, RemoveListener(fn)
      PROVE  Rest'
  BY <1>0, <1>7 DEF RemoveListener, session, request, clock, Rest
<1>8. ASSUME NEW aid \in Accounts, LoginFails(aid) \/ LoginWithoutData(aid)
      PROVE  Rest'
  BY <1>0, <1>8, FewerInFlight DEF LoginFails, LoginWithoutData, Answered, loop, Rest
<1>9. ASSUME NEW aid \in Accounts, NEW hasKey \in BOOLEAN, LoginSucceeds(aid, hasKey)
      PROVE  Rest'
  <2>1. owed' \subseteq Listeners
    BY <1>9 DEF LoginSucceeds, Counted
  <2> QED
    BY <1>0, <1>9, <2>1, FewerInFlight DEF LoginSucceeds, Answered, Rest
<1>10. CASE CallListener
  BY <1>10 DEF CallListener, session, request, clock, Rest
<1>11. ASSUME NEW aid \in Accounts, LoseAnswer(aid)
       PROVE  Rest'
  BY <1>11, FewerInFlight DEF LoseAnswer, session, clock, loop, Rest
<1>12. CASE LosePing \/ OtherMessage
  BY <1>0, <1>12 DEF LosePing, OtherMessage, session, request, loop, Rest
<1>13. CASE TimerNoConnection
  BY <1>0, <1>13 DEF TimerNoConnection, Heartbeat, session, request, clock, loop, Rest
<1>14. CASE Tick
  BY <1>0, <1>14 DEF Tick, Older, session, loop, Rest
<1>15. CASE UNCHANGED vars
  BY <1>15 DEF vars, Rest
<1> QED
  BY <1>1, <1>2, <1>3, <1>4, <1>5, <1>6, <1>7, <1>8, <1>9, <1>10, <1>11, <1>12,
     <1>13, <1>14, <1>15 DEF Next

-----------------------------------------------------------------------------
(* The theorems.                                                            *)

IInv == Sizes /\ Spacing /\ Tainting /\ KeyOfAccount /\ Counted /\ OwedAhead /\ Rest

LEMMA SpecKeeps == Spec => []IInv
<1>1. Init => IInv
  <2> SUFFICES ASSUME Init PROVE IInv
    OBVIOUS
  <2>1. Sizes /\ Spacing
    BY SizesAreNat DEF Init, Sizes, Spacing
  <2>2. Tainting /\ KeyOfAccount
    BY DEF Init, Tainting, KeyOfAccount, LoggedIn
  <2>3. OwedAhead
    BY SizesAreNat DEF Init, OwedAhead
  <2>4. Counted
    <3>1. \A i \in Slots : lises[i] = IF i = 1 THEN SubListener
                                      ELSE IF i = 2 THEN CtrlListener ELSE NULL
      BY DEF Init
    <3>2. lises \in [Slots -> Listeners \cup {NULL}]
      BY ListenersAreFunctions, Zenon DEF Init
    <3>3. Occupied = {1} \cup {2}
      BY <3>1, ListenersAreFunctions, SizesAreNat DEF Occupied, Slots
    <3>4. Cardinality(Occupied) = 2
      <4>1. IsFiniteSet({1}) /\ Cardinality({1}) = 1 /\ 2 \notin {1}
        BY FS_Singleton
      <4>2. Cardinality({1} \cup {2}) = Cardinality({1}) + 1
        BY <4>1, FS_AddElement
      <4> QED
        BY <3>3, <4>1, <4>2
    <3> QED
      BY <3>2, <3>4 DEF Init, Counted
  <2>5. Rest
    <3>1. 0 \in 0..Interval /\ 0 \in 0..MaxInFlight /\ 0 \in 0..MaxEvents
      BY SizesAreNat
    <3>2. inFlight \in [Accounts -> 0..MaxInFlight]
      BY <3>1 DEF Init
    <3> QED
      BY <3>1, <3>2 DEF Init, Rest
  <2> QED
    BY <2>1, <2>2, <2>3, <2>4, <2>5 DEF IInv
<1>2. IInv /\ [Next]_vars => IInv'
  <2> SUFFICES ASSUME IInv, [Next]_vars PROVE IInv'
    OBVIOUS
  <2>1. Sizes' /\ Spacing'
    BY SpacingKept DEF IInv
  <2>2. Tainting' /\ KeyOfAccount'
    BY KeyKept DEF IInv
  <2>3. Counted'
    BY CountedKept DEF IInv
  <2>4. OwedAhead'
    BY OwedKept DEF IInv
  <2>5. Rest'
    BY RestKept DEF IInv
  <2> QED
    BY <2>1, <2>2, <2>3, <2>4, <2>5 DEF IInv
<1> QED
  BY <1>1, <1>2, PTL DEF Spec

\* Every variable of Session keeps its type; the count of listeners stays in
\* the table.
THEOREM SessionTypeOK == Spec => []TypeOK
<1>1. IInv => TypeOK
  <2> SUFFICES ASSUME IInv PROVE TypeOK
    OBVIOUS
  <2>1. Occupied \in SUBSET Slots
    BY DEF Occupied
  <2>2. llCnt \in 0..LLSIZE
    BY <2>1, SlotsAreFinite, OccupiedIsFinite, FS_Subset, SizesAreNat DEF IInv, Counted
  <2> QED
    BY <2>2 DEF IInv, Sizes, Tainting, Counted, OwedAhead, Rest, TypeOK
<1> QED
  BY <1>1, SpecKeeps, PTL

\* A client that is logged in holds the key of the account it reports, for any
\* answers, logouts and calls of client_init; _c_loginResult.
THEOREM SessionKeyOfAccount == Spec => []KeyOfAccount
<1>1. IInv => KeyOfAccount
  BY DEF IInv
<1> QED
  BY <1>1, SpecKeeps, PTL

\* Every listener that was registered when the answer came, and not removed, is
\* called, whatever the listeners do to the table; _c_loginResult.
THEOREM SessionListenersHeard == Spec => []ListenersHeard
<1>1. IInv => ListenersHeard
  BY DEF IInv, OwedAhead, ListenersHeard
<1> QED
  BY <1>1, SpecKeeps, PTL

\* Whoever calls client_login, two requests are an Interval apart.
THEOREM SessionLoginSpacing == Spec => LoginSpacing
<1>1. IInv /\ [Next]_vars => [SpacedStep]_vars
  BY SpacingKept DEF IInv
<1>2. [][SpacedStep]_vars => LoginSpacing
  BY PTL DEF SpacedStep, LoginSpacing
<1> QED
  BY <1>1, <1>2, SpecKeeps, PTL DEF Spec

-----------------------------------------------------------------------------
(* PubSub                                                                  *)

(* The inductive invariant.  The requests for a topic are older than, or    *)
(* are, the one its map remembers; a map that was given a subId has the id  *)
(* of that request; the topics that are asked for are remote.               *)
RequestsFit ==
  \A r \in requests :
    maps[r.topic].known /\ maps[r.topic].rm /\ r.id <= maps[r.topic].subMsgId
MapsFit ==
  \A t \in Topics :
    /\ maps[t].subMsgId <= lastId
    /\ maps[t].subId # 0 =>
         /\ maps[t].subId = maps[t].subMsgId
         /\ [id |-> maps[t].subId, topic |-> t] \in requests
TodoFits == \A t \in todo : maps[t].known /\ maps[t].rm
Asked(t) == \E r \in requests : r.topic = t /\ r.id > mark
SinceLogin == loginState = "in" => \A t \in Resub \ (missed \cup todo) : Asked(t)
SubsInv == SubsTyped /\ RequestsFit /\ MapsFit /\ TodoFits /\ SinceLogin

-----------------------------------------------------------------------------
(* The operations on one map.                                               *)

(* n is m but for the listeners.                                            *)
SameBut(n, m) ==
  /\ n \in Map
  /\ n.known = m.known /\ n.rm = m.rm
  /\ n.subMsgId = m.subMsgId /\ n.subId = m.subId

\* _c_addListenerItem changes listeners only.
LEMMA WithListenerIs ==
  ASSUME NEW m \in Map, NEW fn \in Fns, NEW type \in Types
  PROVE  SameBut(WithListener(m, fn, type), m)
<1> DEFINE s == m.listeners
           new == IF \E i \in DOMAIN s : s[i].fn = fn
                  THEN [i \in DOMAIN s |->
                          IF s[i].fn = fn THEN [s[i] EXCEPT !.type = type] ELSE s[i]]
                  ELSE <<[fn |-> fn, type |-> type]>> \o s
<1>1. s \in Seq(Listener) /\ [fn |-> fn, type |-> type] \in Listener
  BY DEF Map, Listener
<1>2. \A i \in DOMAIN s : s[i] \in Listener /\ [s[i] EXCEPT !.type = type] \in Listener
  <2> HIDE DEF s
  <2> SUFFICES ASSUME NEW i \in DOMAIN s
               PROVE  s[i] \in Listener /\ [s[i] EXCEPT !.type = type] \in Listener
    OBVIOUS
  <2>1. s[i] \in Listener
    BY <1>1
  <2> QED
    BY <2>1 DEF Listener
<1>3. new \in Seq(Listener)
  <2>1. CASE \E i \in DOMAIN s : s[i].fn = fn
    <3> DEFINE t == [i \in DOMAIN s |->
                       IF s[i].fn = fn THEN [s[i] EXCEPT !.type = type] ELSE s[i]]
    <3>1. Len(s) \in Nat /\ DOMAIN s = 1 .. Len(s)
      BY <1>1
    <3>2. t \in [1 .. Len(s) -> Listener]
      BY <1>2, <3>1, Zenon
    <3>3. new = t
      BY <2>1
    <3> HIDE DEF t, new, s
    <3> QED
      BY <3>1, <3>2, <3>3
  <2>2. CASE ~\E i \in DOMAIN s : s[i].fn = fn
    <3>1. new = <<[fn |-> fn, type |-> type]>> \o s
      BY <2>2
    <3> HIDE DEF new
    <3> QED
      BY <1>1, <3>1
  <2> QED
    BY <2>1, <2>2
<1>4. WithListener(m, fn, type) = [m EXCEPT !.listeners = new]
  BY DEF WithListener
<1> HIDE DEF new
<1> QED
  BY <1>3, <1>4 DEF SameBut, Map

\* What may become the map of topic t without asking the server: a known map
\* keeps what it knows of the server, a new one knows nothing.
Renews(n, t) ==
  /\ n \in Map /\ n.known
  /\ maps[t].known => n.rm = maps[t].rm /\ n.subMsgId = maps[t].subMsgId
                        /\ n.subId = maps[t].subId
  /\ ~maps[t].known => n.subMsgId = 0 /\ n.subId = 0

\* _c_createPubsubListenerMap.
LEMMA MapForIs ==
  ASSUME SubsTyped, NEW t \in Topics, NEW rm \in BOOLEAN
  PROVE  Renews(MapFor(t, rm), t) /\ (~maps[t].known => MapFor(t, rm).rm = rm)
<1>1. maps[t] \in Map
  BY DEF SubsTyped
<1>2. NoMap \in Map
  <2>1. << >> \in Seq(Listener)
    OBVIOUS
  <2> QED
    BY <2>1 DEF Map, NoMap
<1> QED
  BY <1>1, <1>2 DEF MapFor, Renews, Map, NoMap

\* Both, as in client_subscribe.
LEMMA RenewedIs ==
  ASSUME SubsTyped, NEW t \in Topics, NEW rm \in BOOLEAN, NEW fn \in Fns, NEW type \in Types
  PROVE  /\ Renews(WithListener(MapFor(t, rm), fn, type), t)
         /\ ~maps[t].known => WithListener(MapFor(t, rm), fn, type).rm = rm
<1>1. Renews(MapFor(t, rm), t) /\ (~maps[t].known => MapFor(t, rm).rm = rm)
  BY MapForIs
<1>2. SameBut(WithListener(MapFor(t, rm), fn, type), MapFor(t, rm))
  BY <1>1, WithListenerIs DEF Renews
<1> QED
  BY <1>1, <1>2 DEF Renews, SameBut

-----------------------------------------------------------------------------
(* The steps.                                                               *)

\* The map of a topic is renewed and nobody is asked: when the client is logged
\* in, the topic is no new remote one, or the failure is noted.
LEMMA RenewKeeps ==
  ASSUME SubsInv, NEW t \in Topics, NEW m, Renews(m, t), maps' = [maps EXCEPT ![t] = m],
         UNCHANGED <<loginState, todo, lastId, requests, mark>>,
         missed \subseteq missed', missed' \subseteq Topics,
         t \notin missed' /\ ~maps[t].known /\ loginState = "in" => ~m.rm \/ t = P2P,
         wanted' \in [Topics -> [Fns -> SUBSET Types]]
  PROVE  SubsInv'
<1>1. /\ \A u \in Topics : maps'[u] = IF u = t THEN m ELSE maps[u]
      /\ maps' \in [Topics -> Map]
  BY DEF SubsInv, SubsTyped, Renews
<1>2. SubsTyped'
  BY <1>1 DEF SubsInv, SubsTyped
<1>3. \A r \in requests : r.topic \in Topics /\ r.id \in Nat /\ r.id # 0
  BY DEF SubsInv, SubsTyped
<1>4. RequestsFit'
  BY <1>1, <1>3 DEF SubsInv, RequestsFit, Renews
<1>5. MapsFit'
  BY <1>1 DEF SubsInv, SubsTyped, MapsFit, Renews
<1>6. TodoFits'
  BY <1>1 DEF SubsInv, SubsTyped, TodoFits, Renews
<1>7. SinceLogin'
  <2> SUFFICES ASSUME loginState = "in", NEW u \in Resub', u \notin missed', u \notin todo
               PROVE  Asked(u)
    BY DEF SinceLogin, Asked
  <2>1. u \in Resub
    BY <1>1 DEF Resub, Renews
  <2> QED
    BY <2>1 DEF SubsInv, SinceLogin
<1> QED
  BY <1>2, <1>4, <1>5, <1>6, <1>7 DEF SubsInv

\* A remote topic is asked for, or the attempt fails and is noted.
LEMMA DoSubscribeKeeps ==
  ASSUME SubsInv, NEW t \in Topics, NEW m, Renews(m, t), m.rm, DoSubscribe(t, m),
         todo' \in SUBSET todo, todo \ todo' \subseteq {t},
         UNCHANGED <<loginState, mark>>,
         wanted' \in [Topics -> [Fns -> SUBSET Types]]
  PROVE  SubsInv'
<1>0. lastId \in Nat /\ mark \in Nat /\ mark <= lastId /\ MaxMsgs \in Nat
  BY BoundsAreNat DEF SubsInv, SubsTyped
<1>1. CASE /\ maps' = [maps EXCEPT ![t] = m]
           /\ missed' = missed \cup {t}
           /\ UNCHANGED <<lastId, requests>>
  <2>1. /\ \A u \in Topics : maps'[u] = IF u = t THEN m ELSE maps[u]
        /\ maps' \in [Topics -> Map]
    BY <1>1 DEF SubsInv, SubsTyped, Renews
  <2>2. SubsTyped'
    BY <1>1, <2>1 DEF SubsInv, SubsTyped
  <2>3. \A r \in requests : r.topic \in Topics /\ r.id \in Nat /\ r.id # 0
    BY DEF SubsInv, SubsTyped
  <2>4. RequestsFit'
    BY <1>1, <2>1, <2>3 DEF SubsInv, RequestsFit, Renews
  <2>5. MapsFit'
    <3> SUFFICES ASSUME NEW u \in Topics
                 PROVE  /\ maps'[u].subMsgId <= lastId
                        /\ maps'[u].subId # 0 =>
                             /\ maps'[u].subId = maps'[u].subMsgId
                             /\ [id |-> maps'[u].subId, topic |-> u] \in requests
      BY <1>1 DEF MapsFit
    <3>1. CASE u = t /\ ~maps[t].known
      BY <1>0, <2>1, <3>1 DEF Renews
    <3>2. CASE u # t \/ maps[t].known
      BY <2>1, <3>2 DEF SubsInv, MapsFit, Renews
    <3> QED
      BY <3>1, <3>2
  <2>6. TodoFits'
    BY <2>1 DEF SubsInv, SubsTyped, TodoFits, Renews
  <2>7. SinceLogin'
    BY <1>1, <2>1 DEF SubsInv, SinceLogin, Asked, Resub
  <2> QED
    BY <2>2, <2>4, <2>5, <2>6, <2>7 DEF SubsInv
<1>2. CASE /\ lastId < MaxMsgs
           /\ lastId' = NextId
           /\ maps' = [maps EXCEPT ![t] = AskedMap(m)]
           /\ \/ requests' = requests \cup {[id |-> NextId, topic |-> t]}
                 /\ missed' = missed \ {t}
              \/ UNCHANGED requests /\ missed' = missed \cup {t}
  <2> DEFINE n == AskedMap(m)
  <2>0. m \in Map /\ m.known /\ NextId \in Nat /\ 0 \in Nat
    BY <1>0 DEF Renews, NextId
  <2>1. /\ n \in Map /\ n.known /\ n.rm
        /\ n.subMsgId = lastId + 1 /\ n.subId = 0
    <3>1. n \in Map
      BY <2>0 DEF AskedMap, Map
    <3>2. n.known /\ n.rm /\ n.subMsgId = NextId /\ n.subId = 0
      BY <2>0 DEF AskedMap, Map
    <3> QED
      BY <3>1, <3>2 DEF NextId
  <2> HIDE DEF n
  <2>2. /\ \A u \in Topics : maps'[u] = IF u = t THEN n ELSE maps[u]
        /\ maps' \in [Topics -> Map]
    BY <1>2, <2>1 DEF SubsInv, SubsTyped, n
  <2>3. lastId' \in 0 .. MaxMsgs /\ lastId' = lastId + 1 /\ mark \in 0 .. lastId'
    BY <1>0, <1>2 DEF NextId
  <2>4. requests' \subseteq [id : 1 .. MaxMsgs, topic : Topics]
    BY <1>0, <1>2 DEF SubsInv, SubsTyped, NextId
  <2>5. SubsTyped'
    BY <1>2, <2>2, <2>3, <2>4 DEF SubsInv, SubsTyped
  <2>6. \A r \in requests : r.topic \in Topics /\ r.id \in Nat /\ r.id <= lastId
    <3> SUFFICES ASSUME NEW r \in requests
                 PROVE  r.topic \in Topics /\ r.id \in Nat /\ r.id <= lastId
      OBVIOUS
    <3>1. r.topic \in Topics /\ r.id \in Nat
      BY DEF SubsInv, SubsTyped
    <3>2. maps[r.topic].subMsgId \in Nat
      BY <3>1 DEF SubsInv, SubsTyped, Map
    <3>3. r.id <= maps[r.topic].subMsgId
      BY DEF SubsInv, RequestsFit
    <3>4. maps[r.topic].subMsgId <= lastId
      BY <3>1 DEF SubsInv, MapsFit
    <3> QED
      BY <1>0, <3>1, <3>2, <3>3, <3>4
  <2>7. RequestsFit'
    <3> SUFFICES ASSUME NEW r \in requests'
                 PROVE  maps'[r.topic].known /\ maps'[r.topic].rm /\ r.id <= maps'[r.topic].subMsgId
      BY DEF RequestsFit
    <3>1. CASE r \in requests
      BY <1>0, <2>1, <2>2, <2>6, <3>1 DEF SubsInv, RequestsFit
    <3>2. CASE r = [id |-> NextId, topic |-> t]
      BY <1>0, <2>1, <2>2, <3>2 DEF NextId
    <3> QED
      BY <1>2, <3>1, <3>2
  <2>8. MapsFit'
    <3> SUFFICES ASSUME NEW u \in Topics
                 PROVE  /\ maps'[u].subMsgId <= lastId'
                        /\ maps'[u].subId # 0 =>
                             /\ maps'[u].subId = maps'[u].subMsgId
                             /\ [id |-> maps'[u].subId, topic |-> u] \in requests'
      BY DEF MapsFit
    <3>1. CASE u = t
      BY <1>0, <2>1, <2>2, <2>3, <3>1
    <3>2. CASE u # t
      <4>1. maps[u].subMsgId \in Nat
        BY DEF SubsInv, SubsTyped, Map
      <4> QED
        BY <1>0, <1>2, <2>2, <2>3, <3>2, <4>1 DEF SubsInv, MapsFit
    <3> QED
      BY <3>1, <3>2
  <2>9. TodoFits'
    BY <2>1, <2>2 DEF SubsInv, SubsTyped, TodoFits
  <2>10. SinceLogin'
    <3> SUFFICES ASSUME loginState = "in", NEW u \in Resub', u \notin missed', u \notin todo'
                 PROVE  \E r \in requests' : r.topic = u /\ r.id > mark
      BY DEF SinceLogin, Asked
    <3>1. CASE u = t
      <4> DEFINE q == [id |-> NextId, topic |-> t]
      <4>1. q \in requests'
        BY <1>2, <3>1
      <4>2. q.topic = u /\ q.id > mark
        BY <1>0, <3>1 DEF NextId
      <4> QED
        BY <4>1, <4>2
    <3>2. CASE u # t
      <4>1. u \in Resub /\ u \notin missed /\ u \notin todo
        BY <1>2, <2>2, <3>2 DEF Resub
      <4> QED
        BY <1>2, <4>1 DEF SubsInv, SinceLogin, Asked
    <3> QED
      BY <3>1, <3>2
  <2> QED
    BY <2>5, <2>7, <2>8, <2>9, <2>10 DEF SubsInv
<1> QED
  BY <1>1, <1>2 DEF DoSubscribe

\* client_subscribe.
LEMMA SubscribeKeeps ==
  ASSUME SubsInv, NEW t \in Topics, NEW fn \in Fns, NEW type \in Types, NEW rm \in BOOLEAN,
         Subscribe(t, fn, type, rm)
  PROVE  SubsInv'
<1> DEFINE m == WithListener(MapFor(t, rm), fn, type)
<1>1. Renews(m, t) /\ (~maps[t].known => m.rm = rm)
  BY RenewedIs DEF SubsInv
<1>2. wanted' \in [Topics -> [Fns -> SUBSET Types]]
  BY DEF Subscribe, SubsInv, SubsTyped
<1>3. CASE AsksNow(t, rm)
  <2>1. DoSubscribe(t, m) /\ UNCHANGED <<loginState, todo, mark>>
    BY <1>3 DEF Subscribe
  <2>2. m.rm
    BY <1>1, <1>3 DEF AsksNow
  <2> HIDE DEF m
  <2> QED
    BY <1>1, <1>2, <2>1, <2>2, DoSubscribeKeeps
<1>4. CASE ~AsksNow(t, rm)
  <2>1. maps' = [maps EXCEPT ![t] = m] /\ UNCHANGED <<lastId, requests, missed, loginState, todo, mark>>
    BY <1>4 DEF Subscribe
  <2>2. ~maps[t].known /\ loginState = "in" => ~m.rm
    BY <1>1, <1>4 DEF AsksNow, isLogin
  <2>3. missed \subseteq missed' /\ missed' \subseteq Topics
    BY <2>1 DEF SubsInv, SubsTyped
  <2> HIDE DEF m
  <2> QED
    BY <1>1, <1>2, <2>1, <2>2, <2>3, RenewKeeps
<1> QED
  BY <1>3, <1>4

\* client_unsubscribe.
LEMMA UnsubscribeKeeps ==
  ASSUME SubsInv, NEW t \in Topics, NEW fn \in Fns, Unsubscribe(t, fn)
  PROVE  SubsInv'
<1>1. /\ UNCHANGED <<loginState, todo, requests, mark, missed>>
      /\ wanted' \in [Topics -> [Fns -> SUBSET Types]]
  BY DEF Unsubscribe, SubsInv, SubsTyped
<1>2. lastId' \in 0 .. MaxMsgs /\ lastId <= lastId' /\ lastId \in Nat /\ lastId' \in Nat
  BY BoundsAreNat DEF Unsubscribe, Unlink, SubsInv, SubsTyped, NextId
<1>3. /\ maps' \in [Topics -> Map]
      /\ \A u \in Topics : SameBut(maps'[u], maps[u])
  <2>1. maps \in [Topics -> Map]
    BY DEF SubsInv, SubsTyped
  <2>2. CASE maps' = maps
    BY <2>1, <2>2 DEF SameBut
  <2>3. ASSUME NEW s \in Seq(Listener), maps' = [maps EXCEPT ![t].listeners = s]
        PROVE  /\ maps' \in [Topics -> Map]
               /\ \A u \in Topics : SameBut(maps'[u], maps[u])
    <3>1. [maps[t] EXCEPT !.listeners = s] \in Map /\ SameBut([maps[t] EXCEPT !.listeners = s], maps[t])
      BY <2>1 DEF Map, SameBut
    <3>2. maps' = [maps EXCEPT ![t] = [maps[t] EXCEPT !.listeners = s]]
      BY <2>1, <2>3
    <3> QED
      BY <2>1, <3>1, <3>2 DEF SameBut
  <2>4. CASE \E i \in DOMAIN maps[t].listeners : Unlink(t, i)
    <3>1. PICK i \in DOMAIN maps[t].listeners : Unlink(t, i)
      BY <2>4
    <3>2. maps[t].listeners \in Seq(Listener)
      BY <2>1 DEF Map
    <3>3. RemoveAt(maps[t].listeners, i) \in Seq(Listener) /\ << >> \in Seq(Listener)
      BY <3>2 DEF RemoveAt
    <3>4. CASE i = 1
      <4>1. maps' = [maps EXCEPT ![t].listeners = << >>]
        BY <3>1, <3>4 DEF Unlink
      <4> QED
        BY <2>3, <3>3, <4>1
    <3>5. CASE i # 1
      <4>1. maps' = [maps EXCEPT ![t].listeners = RemoveAt(maps[t].listeners, i)]
        BY <2>1, <3>1, <3>5 DEF Unlink
      <4> QED
        BY <2>3, <3>3, <4>1
    <3> QED
      BY <3>4, <3>5
  <2> QED
    BY <2>2, <2>4 DEF Unsubscribe
<1>4. SubsTyped'
  BY <1>1, <1>2, <1>3, BoundsAreNat DEF SubsInv, SubsTyped
<1>5. RequestsFit'
  <2>1. \A r \in requests : r.topic \in Topics
    BY DEF SubsInv, SubsTyped
  <2> QED
    BY <1>1, <1>3, <2>1 DEF SubsInv, RequestsFit, SameBut
<1>6. MapsFit'
  <2>1. \A u \in Topics : maps[u].subMsgId \in Nat
    BY DEF SubsInv, SubsTyped, Map
  <2> QED
    BY <1>1, <1>2, <1>3, <2>1 DEF SubsInv, MapsFit, SameBut
<1>7. TodoFits' /\ SinceLogin'
  BY <1>1, <1>3 DEF SubsInv, SubsTyped, TodoFits, SinceLogin, Asked, Resub, SameBut
<1> QED
  BY <1>4, <1>5, <1>6, <1>7 DEF SubsInv

\* _c_pubsubOpMsgHandle: only the answer to the latest request is taken.
LEMMA OpMsgKeeps ==
  ASSUME SubsInv, NEW r \in requests, OpMsg(r)
  PROVE  SubsInv'
<1>1. r.topic \in Topics /\ r.id \in Nat /\ r = [id |-> r.id, topic |-> r.topic]
  BY DEF SubsInv, SubsTyped
<1> DEFINE t == r.topic
           n == [maps[t] EXCEPT !.subId = r.id]
<1>2. maps[t] \in Map /\ maps[t].subMsgId = r.id
  BY <1>1 DEF OpMsg, SubsInv, SubsTyped
<1>3. n \in Map /\ n.known = maps[t].known /\ n.rm = maps[t].rm
        /\ n.subMsgId = maps[t].subMsgId /\ n.subId = r.id
  BY <1>1, <1>2 DEF Map
<1>4. maps' = [maps EXCEPT ![t] = n] /\ UNCHANGED <<loginState, todo, lastId, requests, mark, missed, wanted>>
  BY <1>1 DEF OpMsg, Given, SubsInv, SubsTyped
<1> HIDE DEF n
<1>5. /\ \A u \in Topics : maps'[u] = IF u = t THEN n ELSE maps[u]
      /\ maps' \in [Topics -> Map]
  BY <1>1, <1>3, <1>4 DEF SubsInv, SubsTyped
<1>6. SubsTyped'
  BY <1>4, <1>5 DEF SubsInv, SubsTyped
<1>7. RequestsFit'
  <2>1. \A q \in requests : q.topic \in Topics
    BY DEF SubsInv, SubsTyped
  <2> QED
    BY <1>3, <1>4, <1>5, <2>1 DEF SubsInv, RequestsFit
<1>8. MapsFit'
  BY <1>1, <1>2, <1>3, <1>4, <1>5 DEF SubsInv, MapsFit
<1>9. TodoFits' /\ SinceLogin'
  BY <1>3, <1>4, <1>5 DEF SubsInv, SubsTyped, TodoFits, SinceLogin, Asked, Resub
<1> QED
  BY <1>6, <1>7, <1>8, <1>9 DEF SubsInv

\* Every step keeps the invariant.
LEMMA NextKeeps ==
  ASSUME SubsInv, [SubsNext]_subsVars
  PROVE  SubsInv'
<1>0. SubsTyped /\ wanted \in [Topics -> [Fns -> SUBSET Types]] /\ lastId \in Nat
  BY BoundsAreNat DEF SubsInv, SubsTyped
<1>1. CASE UNCHANGED subsVars
  BY <1>1 DEF SubsInv, SubsTyped, RequestsFit, MapsFit, TodoFits, SinceLogin, Asked, Resub, subsVars
<1>2. ASSUME NEW t \in Topics, NEW fn \in Fns, NEW type \in Types, NEW rm \in BOOLEAN,
             Subscribe(t, fn, type, rm)
      PROVE  SubsInv'
  BY <1>2, SubscribeKeeps
<1>3. ASSUME NEW t \in Topics, NEW fn \in Fns, NEW rm \in BOOLEAN, SubscribeNoItem(t, fn, rm)
      PROVE  SubsInv'
  <2>1. Renews(MapFor(t, rm), t)
    BY <1>0, MapForIs
  <2>2. /\ maps' = [maps EXCEPT ![t] = MapFor(t, rm)]
        /\ UNCHANGED <<loginState, todo, lastId, requests, mark>> /\ wanted' = wanted
        /\ missed' = missed \cup {t}
    BY <1>3 DEF SubscribeNoItem
  <2>3. missed \subseteq missed' /\ missed' \subseteq Topics /\ t \in missed'
    BY <1>0, <2>2 DEF SubsTyped
  <2> QED
    BY <1>0, <2>1, <2>2, <2>3, RenewKeeps
<1>4. ASSUME NEW fn \in Fns, NEW type \in Types, SubscribeP2P(fn, type)
      PROVE  SubsInv'
  <2> DEFINE m == WithListener(MapFor(P2P, FALSE), fn, type)
  <2>1. Renews(m, P2P)
    BY <1>0, RenewedIs, P2PIsTopic
  <2>2. /\ maps' = [maps EXCEPT ![P2P] = m]
        /\ UNCHANGED <<loginState, todo, lastId, requests, mark>> /\ missed' = missed
        /\ wanted' = [wanted EXCEPT ![P2P][fn] = {type}]
    BY <1>4 DEF SubscribeP2P
  <2>3. wanted' \in [Topics -> [Fns -> SUBSET Types]] /\ missed' \subseteq Topics
    BY <1>0, <2>2 DEF SubsTyped
  <2> HIDE DEF m
  <2> QED
    BY <2>1, <2>2, <2>3, RenewKeeps, P2PIsTopic
<1>5. ASSUME NEW t \in Topics, NEW fn \in Fns, Unsubscribe(t, fn)
      PROVE  SubsInv'
  BY <1>5, UnsubscribeKeeps
<1>6. CASE AfterLogin
  <2>1. SubsTyped'
    BY <1>0, <1>6 DEF AfterLogin, SubsTyped, Resub
  <2>2. RequestsFit' /\ MapsFit'
    BY <1>6 DEF AfterLogin, SubsInv, RequestsFit, MapsFit
  <2>3. TodoFits' /\ SinceLogin'
    BY <1>6 DEF AfterLogin, TodoFits, SinceLogin, Resub
  <2> QED
    BY <2>1, <2>2, <2>3 DEF SubsInv
<1>7. ASSUME NEW t \in Topics, Resubscribe(t)
      PROVE  SubsInv'
  <2>1. Renews(maps[t], t) /\ maps[t].rm
    BY <1>0, <1>7 DEF Resubscribe, SubsInv, TodoFits, Renews, SubsTyped
  <2>2. /\ DoSubscribe(t, maps[t]) /\ todo' = todo \ {t}
        /\ UNCHANGED <<loginState, mark>> /\ wanted' = wanted
    BY <1>7 DEF Resubscribe
  <2>3. todo' \in SUBSET todo /\ todo \ todo' \subseteq {t}
    BY <2>2
  <2> QED
    BY <1>0, <2>1, <2>2, <2>3, DoSubscribeKeeps
<1>8. ASSUME NEW code \in {"bare", "out"}, LoginChanges(code)
      PROVE  SubsInv'
  BY <1>8 DEF LoginChanges, SubsInv, SubsTyped, RequestsFit, MapsFit, TodoFits, SinceLogin
<1>9. ASSUME NEW r \in requests, OpMsg(r)
      PROVE  SubsInv'
  BY <1>9, OpMsgKeeps
<1> QED
  BY <1>1, <1>2, <1>3, <1>4, <1>5, <1>6, <1>7, <1>8, <1>9 DEF SubsNext

LEMMA SubsKeeps == SubsSpec => []SubsInv
<1>1. SubsInit => SubsInv
  <2> SUFFICES ASSUME SubsInit PROVE SubsInv
    OBVIOUS
  <2>1. NoMap \in Map /\ ~NoMap.known /\ NoMap.subMsgId = 0 /\ NoMap.subId = 0
    BY DEF NoMap, Map
  <2>2. \A t \in Topics : maps[t] = NoMap
    BY DEF SubsInit
  <2>3. SubsTyped
    BY <2>1, BoundsAreNat DEF SubsInit, SubsTyped
  <2>4. RequestsFit /\ TodoFits /\ SinceLogin
    BY DEF SubsInit, RequestsFit, TodoFits, SinceLogin
  <2>5. MapsFit
    BY <2>1, <2>2 DEF SubsInit, MapsFit
  <2> QED
    BY <2>3, <2>4, <2>5 DEF SubsInv
<1>2. SubsInv /\ [SubsNext]_subsVars => SubsInv'
  BY NextKeeps
<1> QED
  BY <1>1, <1>2, PTL DEF SubsSpec

-----------------------------------------------------------------------------
(* The theorems.                                                            *)

\* Every variable of PubSub keeps its type.
THEOREM SubsTypeOK == SubsSpec => []SubsTyped
<1>1. SubsInv => SubsTyped
  BY DEF SubsInv
<1> QED
  BY <1>1, SubsKeeps, PTL

\* The subId of a map is the one given to the latest request for its topic,
\* however late, often and out of order the answers come.
THEOREM SubsSubIdIsLatest == SubsSpec => []SubIdIsLatest
<1>1. SubsInv => SubIdIsLatest
  <2> SUFFICES ASSUME SubsInv, NEW t \in Topics, maps[t].subId # 0
               PROVE  \E r \in Latest(t) : maps[t].subId = Given(r)
    BY DEF SubIdIsLatest
  <2> DEFINE r == [id |-> maps[t].subId, topic |-> t]
  <2>1. r \in requests /\ r.id = maps[t].subMsgId
    BY DEF SubsInv, MapsFit
  <2>2. \A q \in requests : q.topic = t => q.id <= r.id
    BY <2>1 DEF SubsInv, RequestsFit
  <2>3. r \in Latest(t) /\ maps[t].subId = Given(r)
    BY <2>1, <2>2 DEF Latest, Given
  <2> QED
    BY <2>3
<1> QED
  BY <1>1, SubsKeeps, PTL

\* The server is asked for remote topics only, and while the client is logged
\* in for every one of them since the login, or the failure to do so is known.
THEOREM SubsAskedSinceLogin == SubsSpec => []AskedSinceLogin
<1>1. SubsInv => AskedSinceLogin
  <2>1. SubsInv => LocalNeverAsked
    BY DEF SubsInv, RequestsFit, LocalNeverAsked
  <2>2. SubsInv => (loginState = "in" /\ todo = {} => \A t \in Resub \ missed : Asked(t))
    BY DEF SubsInv, SinceLogin
  <2> QED
    BY <2>1, <2>2 DEF Asked, AskedSinceLogin
<1> QED
  BY <1>1, SubsKeeps, PTL

-----------------------------------------------------------------------------
(* The listeners.                                                           *)

(* A list has each listener once, with the type it last asked for.          *)
Suits(s, w) ==
  /\ \A i, j \in DOMAIN s : s[i].fn = s[j].fn => i = j
  /\ \A i \in DOMAIN s : w[s[i].fn] = {s[i].type}
ListsFit == \A t \in Topics : Suits(maps[t].listeners, wanted[t])

\* A listener gets its new type where it stands, or the head of the list.
LEMMA AddedSuits ==
  ASSUME NEW m \in Map, NEW w \in [Fns -> SUBSET Types], Suits(m.listeners, w),
         NEW fn \in Fns, NEW type \in Types
  PROVE  Suits(WithListener(m, fn, type).listeners, [w EXCEPT ![fn] = {type}])
<1> DEFINE s == m.listeners
           l == [fn |-> fn, type |-> type]
           n == WithListener(m, fn, type)
           v == [w EXCEPT ![fn] = {type}]
<1>1. /\ s \in Seq(Listener) /\ Len(s) \in Nat /\ DOMAIN s = 1 .. Len(s)
      /\ \A i \in DOMAIN s : s[i] \in Listener
  BY DEF Map
<1>2. \A f \in Fns : v[f] = IF f = fn THEN {type} ELSE w[f]
  OBVIOUS
<1>3. CASE \E i \in DOMAIN s : s[i].fn = fn
  <2>1. n.listeners = [i \in DOMAIN s |->
                         IF s[i].fn = fn THEN [s[i] EXCEPT !.type = type] ELSE s[i]]
    BY <1>3 DEF WithListener, Map
  <2>2. /\ DOMAIN n.listeners = DOMAIN s
        /\ \A i \in DOMAIN s :
             /\ n.listeners[i].fn = s[i].fn
             /\ n.listeners[i].type = IF s[i].fn = fn THEN type ELSE s[i].type
    <3> HIDE DEF n, s
    <3>1. DOMAIN n.listeners = DOMAIN s
      BY <2>1
    <3> SUFFICES ASSUME NEW i \in DOMAIN s
                 PROVE  /\ n.listeners[i].fn = s[i].fn
                        /\ n.listeners[i].type = IF s[i].fn = fn THEN type ELSE s[i].type
      BY <3>1
    <3>2. s[i] \in Listener
      BY <1>1
    <3>3. n.listeners[i] = IF s[i].fn = fn THEN [s[i] EXCEPT !.type = type] ELSE s[i]
      BY <2>1
    <3> QED
      BY <3>2, <3>3 DEF Listener
  <2>3. \A i \in DOMAIN s : s[i].fn \in Fns
    BY <1>1 DEF Listener
  <2> HIDE DEF n, s, v
  <2>4. Suits(n.listeners, v)
    BY <1>2, <2>2, <2>3 DEF Suits, s
  <2> QED
    BY <2>4 DEF n, v
<1>4. CASE \A i \in DOMAIN s : s[i].fn # fn
  <2>1. n.listeners = <<l>> \o s
    BY <1>4 DEF WithListener, Map
  <2>2. /\ DOMAIN n.listeners = 1 .. (Len(s) + 1)
        /\ n.listeners[1] = l
        /\ \A i \in 1 .. (Len(s) + 1) : i # 1 => n.listeners[i] = s[i - 1] /\ i - 1 \in DOMAIN s
    <3> HIDE DEF n, s, l
    <3>1. l \in Listener
      BY DEF l, Listener
    <3> QED
      BY <1>1, <2>1, <3>1
  <2>3. \A i \in DOMAIN s : s[i].fn \in Fns
    BY <1>1 DEF Listener
  <2>4. l.fn = fn /\ l.type = type
    OBVIOUS
  <2> HIDE DEF n, s, v, l
  <2>5. ASSUME NEW i \in DOMAIN n.listeners, NEW j \in DOMAIN n.listeners,
               n.listeners[i].fn = n.listeners[j].fn
        PROVE  i = j
    <3>1. CASE i = 1 /\ j = 1
      BY <3>1
    <3>2. CASE i = 1 /\ j # 1
      BY <1>4, <2>2, <2>4, <2>5, <3>2
    <3>3. CASE i # 1 /\ j = 1
      BY <1>4, <2>2, <2>4, <2>5, <3>3
    <3>4. CASE i # 1 /\ j # 1
      <4>1. i - 1 = j - 1
        BY <2>2, <2>5, <3>4 DEF Suits, s
      <4> QED
        BY <1>1, <2>2, <4>1
    <3> QED
      BY <3>1, <3>2, <3>3, <3>4
  <2>6. ASSUME NEW i \in DOMAIN n.listeners
        PROVE  v[n.listeners[i].fn] = {n.listeners[i].type}
    <3>1. CASE i = 1
      BY <1>2, <2>2, <2>4, <3>1
    <3>2. CASE i # 1
      BY <1>2, <1>4, <2>2, <2>3, <3>2 DEF Suits, s
    <3> QED
      BY <3>1, <3>2
  <2> QED
    BY <2>5, <2>6 DEF Suits, n, v
<1>5. (\E i \in DOMAIN s : s[i].fn = fn) \/ (\A i \in DOMAIN s : s[i].fn # fn)
  <2> HIDE DEF s
  <2> QED
    OBVIOUS
<1> HIDE DEF s, n, v
<1>6. Suits(n.listeners, v)
  BY <1>3, <1>4, <1>5 DEF n, v
<1> QED
  BY <1>6 DEF n, v

\* What stands where in two lists put together.
LEMMA ConcatIs ==
  ASSUME NEW S, NEW a \in Seq(S), NEW b \in Seq(S)
  PROVE  /\ a \o b \in Seq(S) /\ Len(a \o b) = Len(a) + Len(b)
         /\ \A k \in 1 .. Len(a) + Len(b) :
              (a \o b)[k] = IF k <= Len(a) THEN a[k] ELSE b[k - Len(a)]
  OBVIOUS

\* client_unsubscribe unlinks the one item of the listener.
LEMMA RemovedSuits ==
  ASSUME NEW s \in Seq(Listener), NEW w \in [Fns -> SUBSET Types], Suits(s, w),
         NEW i \in DOMAIN s
  PROVE  Suits(RemoveAt(s, i), [w EXCEPT ![s[i].fn] = {}])
<1> DEFINE r == RemoveAt(s, i)
           v == [w EXCEPT ![s[i].fn] = {}]
           From(k) == IF k < i THEN k ELSE k + 1
<1>1. /\ Len(s) \in Nat /\ DOMAIN s = 1 .. Len(s)
      /\ \A k \in DOMAIN s : s[k] \in Listener
  OBVIOUS
<1>2. /\ DOMAIN r = 1 .. (Len(s) - 1)
      /\ \A k \in 1 .. (Len(s) - 1) : r[k] = s[From(k)]
  <2>1. r = SubSeq(s, 1, i - 1) \o SubSeq(s, i + 1, Len(s))
    BY DEF RemoveAt
  <2> DEFINE a == SubSeq(s, 1, i - 1)
             b == SubSeq(s, i + 1, Len(s))
  <2>2. /\ a \in Seq(Listener) /\ Len(a) = i - 1
        /\ \A k \in 1 .. (i - 1) : a[k] = s[k]
    BY <1>1
  <2>3. /\ b \in Seq(Listener) /\ Len(b) = Len(s) - i
        /\ \A k \in 1 .. (Len(s) - i) : b[k] = s[i + k]
    BY <1>1
  <2> HIDE DEF r, a, b
  <2>4. r = a \o b
    BY <2>1 DEF a, b
  <2>5. /\ Len(r) = Len(s) - 1 /\ r \in Seq(Listener)
        /\ \A k \in 1 .. (Len(s) - 1) :
             r[k] = IF k <= i - 1 THEN a[k] ELSE b[k - (i - 1)]
    <3>1. /\ a \o b \in Seq(Listener) /\ Len(a \o b) = Len(a) + Len(b)
          /\ \A k \in 1 .. Len(a) + Len(b) :
               (a \o b)[k] = IF k <= Len(a) THEN a[k] ELSE b[k - Len(a)]
      BY <2>2, <2>3, ConcatIs
    <3>2. i \in 1 .. Len(s) /\ Len(a) + Len(b) = Len(s) - 1
      BY <1>1, <2>2, <2>3
    <3> QED
      BY <2>2, <2>4, <3>1, <3>2
  <2>6. i \in 1 .. Len(s) /\ Len(s) \in Nat /\ DOMAIN r = 1 .. (Len(s) - 1)
    BY <1>1, <2>5
  <2>7. ASSUME NEW k \in 1 .. (Len(s) - 1)
        PROVE  r[k] = s[From(k)]
    <3>1. CASE k < i
      <4>1. k \in 1 .. (i - 1) /\ k <= i - 1
        BY <2>6, <3>1
      <4> QED
        BY <2>2, <2>5, <3>1, <4>1
    <3>2. CASE ~(k < i)
      <4>1. /\ k - (i - 1) \in 1 .. (Len(s) - i) /\ ~(k <= i - 1)
            /\ i + (k - (i - 1)) = k + 1
        BY <2>6, <3>2
      <4> QED
        BY <2>3, <2>5, <3>2, <4>1
    <3> QED
      BY <3>1, <3>2
  <2> QED
    BY <2>6, <2>7
<1>3. \A k \in 1 .. (Len(s) - 1) : From(k) \in DOMAIN s /\ From(k) # i
  BY <1>1
<1>4. \A k, j \in 1 .. (Len(s) - 1) : From(k) = From(j) => k = j
  BY <1>1
<1>5. \A k \in DOMAIN s : s[k].fn \in Fns
  BY <1>1 DEF Listener
<1>6. \A f \in Fns : v[f] = IF f = s[i].fn THEN {} ELSE w[f]
  BY <1>5
<1> HIDE DEF r, v, From
<1>7. \A k, j \in DOMAIN r : r[k].fn = r[j].fn => k = j
  BY <1>2, <1>3, <1>4 DEF Suits
<1>8. \A k \in DOMAIN r : v[r[k].fn] = {r[k].type}
  BY <1>2, <1>3, <1>5, <1>6 DEF Suits
<1> QED
  BY <1>7, <1>8 DEF Suits, r, v

\* A step that changes the list and the wish of one topic only.
LEMMA OneListFits ==
  ASSUME SubsTyped, ListsFit, NEW t \in Topics, maps' \in [Topics -> Map],
         \A u \in Topics \ {t} : maps'[u] = maps[u] /\ wanted'[u] = wanted[u],
         Suits(maps'[t].listeners, wanted'[t])
  PROVE  ListsFit'
  BY DEF ListsFit

\* DoSubscribe makes m the map of the topic, but for what the server gave.
LEMMA DoSubscribeLists ==
  ASSUME SubsTyped, NEW t \in Topics, NEW m \in Map, DoSubscribe(t, m)
  PROVE  /\ maps'[t].listeners = m.listeners
         /\ \A u \in Topics \ {t} : maps'[u] = maps[u]
<1>1. AskedMap(m).listeners = m.listeners
  BY DEF AskedMap, Map
<1>2. maps' = [maps EXCEPT ![t] = m] \/ maps' = [maps EXCEPT ![t] = AskedMap(m)]
  BY DEF DoSubscribe
<1> QED
  BY <1>1, <1>2 DEF SubsTyped

\* The list of the map of a topic that is subscribed.
LEMMA MapForLists ==
  ASSUME SubsTyped, ListsFit, NEW t \in Topics, NEW rm \in BOOLEAN, NEW fn \in Fns,
         NEW type \in Types
  PROVE  /\ MapFor(t, rm) \in Map
         /\ Suits(MapFor(t, rm).listeners, wanted[t])
         /\ WithListener(MapFor(t, rm), fn, type) \in Map
         /\ Suits(WithListener(MapFor(t, rm), fn, type).listeners,
                  [wanted[t] EXCEPT ![fn] = {type}])
<1>1. MapFor(t, rm) \in Map
  BY MapForIs DEF Renews
<1>2. MapFor(t, rm).listeners \in {maps[t].listeners, << >>}
  BY DEF MapFor, NoMap
<1>3. Suits(MapFor(t, rm).listeners, wanted[t])
  <2>1. Suits(<< >>, wanted[t])
    BY DEF Suits
  <2> QED
    BY <1>2, <2>1 DEF ListsFit
<1>4. WithListener(MapFor(t, rm), fn, type) \in Map
  BY <1>1, WithListenerIs DEF SameBut
<1>5. wanted[t] \in [Fns -> SUBSET Types]
  BY DEF SubsTyped
<1> QED
  BY <1>1, <1>3, <1>4, <1>5, AddedSuits

\* Every step keeps each list as its listeners want it.
LEMMA NextListsFit ==
  ASSUME SubsInv, SubsInv', ListsFit, [SubsNext]_subsVars
  PROVE  ListsFit'
<1>0. /\ SubsTyped /\ maps' \in [Topics -> Map]
      /\ wanted \in [Topics -> [Fns -> SUBSET Types]]
      /\ maps \in [Topics -> Map]
  BY DEF SubsInv, SubsTyped
<1>1. CASE UNCHANGED <<maps, wanted>>
  BY <1>1 DEF ListsFit
<1>2. ASSUME NEW t \in Topics, NEW fn \in Fns, NEW type \in Types, NEW rm \in BOOLEAN,
             Subscribe(t, fn, type, rm)
      PROVE  ListsFit'
  <2> DEFINE m == WithListener(MapFor(t, rm), fn, type)
             v == [wanted[t] EXCEPT ![fn] = {type}]
  <2>1. m \in Map /\ Suits(m.listeners, v)
    BY <1>0, MapForLists
  <2>2. wanted' = [wanted EXCEPT ![t] = v]
    BY <1>0, <1>2 DEF Subscribe
  <2>3. DoSubscribe(t, m) \/ maps' = [maps EXCEPT ![t] = m]
    BY <1>2 DEF Subscribe
  <2> HIDE DEF m, v
  <2>4. maps'[t].listeners = m.listeners /\ \A u \in Topics \ {t} : maps'[u] = maps[u]
    BY <1>0, <2>1, <2>3, DoSubscribeLists
  <2>5. wanted'[t] = v /\ \A u \in Topics \ {t} : wanted'[u] = wanted[u]
    BY <1>0, <2>2
  <2> QED
    BY <1>0, <2>1, <2>4, <2>5, OneListFits
<1>3. ASSUME NEW t \in Topics, NEW fn \in Fns, NEW rm \in BOOLEAN, SubscribeNoItem(t, fn, rm)
      PROVE  ListsFit'
  <2>1. maps' = [maps EXCEPT ![t] = MapFor(t, rm)] /\ wanted' = wanted
    BY <1>3 DEF SubscribeNoItem
  <2>2. MapFor(t, rm).listeners \in {maps[t].listeners, << >>}
    BY DEF MapFor, NoMap
  <2>3. Suits(MapFor(t, rm).listeners, wanted[t])
    <3>1. Suits(<< >>, wanted[t])
      BY DEF Suits
    <3> QED
      BY <2>2, <3>1 DEF ListsFit
  <2> QED
    BY <1>0, <2>1, <2>3, OneListFits
<1>4. ASSUME NEW fn \in Fns, NEW type \in Types, SubscribeP2P(fn, type)
      PROVE  ListsFit'
  <2> DEFINE m == WithListener(MapFor(P2P, FALSE), fn, type)
             v == [wanted[P2P] EXCEPT ![fn] = {type}]
  <2>1. m \in Map /\ Suits(m.listeners, v)
    BY <1>0, MapForLists, P2PIsTopic
  <2>2. maps' = [maps EXCEPT ![P2P] = m] /\ wanted' = [wanted EXCEPT ![P2P] = v]
    BY <1>0, <1>4, P2PIsTopic DEF SubscribeP2P
  <2> HIDE DEF m, v
  <2> QED
    BY <1>0, <2>1, <2>2, OneListFits, P2PIsTopic
<1>5. ASSUME NEW t \in Topics, NEW fn \in Fns, Unsubscribe(t, fn)
      PROVE  ListsFit'
  <2> DEFINE s == maps[t].listeners
             at == {i \in DOMAIN s : s[i].fn = fn}
             v == [wanted[t] EXCEPT ![fn] = {}]
  <2>1. s \in Seq(Listener) /\ Suits(s, wanted[t]) /\ wanted[t] \in [Fns -> SUBSET Types]
    BY <1>0 DEF Map, ListsFit
  <2>2. wanted' = [wanted EXCEPT ![t] = v]
    BY <1>0, <1>5 DEF Unsubscribe
  <2>3. CASE at = {} /\ UNCHANGED maps
    <3>0. \A i \in DOMAIN s : s[i].fn # fn
      BY <2>3
    <3>1. \A i \in DOMAIN s : s[i].fn # fn /\ s[i].fn \in Fns
      <4> HIDE DEF s
      <4>1. \A i \in DOMAIN s : s[i] \in Listener
        BY <2>1
      <4> QED
        BY <3>0, <4>1 DEF Listener
    <3> HIDE DEF s
    <3>2. Suits(s, v)
      BY <2>1, <3>1 DEF Suits
    <3> QED
      BY <1>0, <2>2, <2>3, <3>2, OneListFits DEF s
  <2>4. CASE \E i \in at : Unlink(t, i)
    <3>1. PICK i \in DOMAIN s : s[i].fn = fn /\ Unlink(t, i)
      BY <2>4
    <3>2. CASE i = 1
      <4>1. maps' = [maps EXCEPT ![t].listeners = << >>]
        BY <3>1, <3>2 DEF Unlink
      <4>2. maps'[t].listeners = << >> /\ \A u \in Topics \ {t} : maps'[u] = maps[u]
        BY <1>0, <4>1 DEF Map
      <4>3. Suits(<< >>, v)
        BY DEF Suits
      <4> QED
        BY <1>0, <2>2, <4>2, <4>3, OneListFits
    <3>3. CASE i # 1
      <4>1. maps' = [maps EXCEPT ![t].listeners = RemoveAt(s, i)]
        BY <1>0, <3>1, <3>3 DEF Unlink
      <4>2. maps'[t].listeners = RemoveAt(s, i) /\ \A u \in Topics \ {t} : maps'[u] = maps[u]
        BY <1>0, <4>1 DEF Map
      <4>3. Suits(RemoveAt(s, i), v)
        BY <2>1, <3>1, RemovedSuits
      <4> QED
        BY <1>0, <2>2, <4>2, <4>3, OneListFits
    <3> QED
      BY <3>2, <3>3
  <2> QED
    BY <1>5, <2>3, <2>4 DEF Unsubscribe
<1>6. ASSUME NEW t \in Topics, Resubscribe(t)
      PROVE  ListsFit'
  <2>1. DoSubscribe(t, maps[t]) /\ wanted' = wanted
    BY <1>6 DEF Resubscribe
  <2>2. maps'[t].listeners = maps[t].listeners /\ \A u \in Topics \ {t} : maps'[u] = maps[u]
    BY <1>0, <2>1, DoSubscribeLists
  <2> QED
    BY <1>0, <2>1, <2>2, OneListFits DEF ListsFit
<1>7. ASSUME NEW r \in requests, OpMsg(r)
      PROVE  ListsFit'
  <2>1. r.topic \in Topics
    BY <1>0 DEF SubsTyped
  <2>2. /\ maps' = [maps EXCEPT ![r.topic].subId = Given(r)]
        /\ wanted' = wanted
    BY <1>7 DEF OpMsg
  <2>3. /\ maps'[r.topic].listeners = maps[r.topic].listeners
        /\ \A u \in Topics \ {r.topic} : maps'[u] = maps[u]
    BY <1>0, <2>1, <2>2 DEF Map
  <2> QED
    BY <1>0, <2>1, <2>2, <2>3, OneListFits DEF ListsFit
<1> QED
  BY <1>1, <1>2, <1>3, <1>4, <1>5, <1>6, <1>7
     DEF SubsNext, subsVars, AfterLogin, LoginChanges

\* An item reaches a listener at most once, and only one whose latest call
\* asked for its topic and type and that has not unsubscribed since, for any
\* number of listeners and any order of their calls.
THEOREM SubsOnlyWantedServed == SubsSpec => []OnlyWantedServed
<1>1. SubsInit => ListsFit
  <2> SUFFICES ASSUME SubsInit, NEW t \in Topics PROVE Suits(maps[t].listeners, wanted[t])
    BY DEF ListsFit
  <2>1. maps[t].listeners = << >>
    BY DEF SubsInit, NoMap
  <2> QED
    BY <2>1 DEF Suits
<1>2. SubsInv /\ SubsInv' /\ ListsFit /\ [SubsNext]_subsVars => ListsFit'
  BY NextListsFit
<1>3. SubsInv /\ ListsFit => OnlyWantedServed
  <2> SUFFICES ASSUME SubsInv, ListsFit, NEW t \in Topics, NEW type \in Types,
                      NEW i \in Served(t, type)
               PROVE  /\ \A j \in Served(t, type) :
                           maps[t].listeners[j].fn = maps[t].listeners[i].fn => i = j
                      /\ wanted[t][maps[t].listeners[i].fn] \cap {0, type} # {}
    BY DEF OnlyWantedServed
  <2>1. Suits(maps[t].listeners, wanted[t])
    BY DEF ListsFit
  <2> QED
    BY <2>1 DEF Suits, Served, Serves
<1> QED
  BY <1>1, <1>2, <1>3, SubsKeeps, PTL DEF SubsSpec

-----------------------------------------------------------------------------
(* Object pools                                                            *)

(* What holds of a memory m when the blocks of O are in use.                *)
Memory == [heap : [Block -> Use], pool : [Pool -> Seq(Node)]]

IdleKept(m, O) ==
  \A p \in Pool : \A i \in Idle(m, p) :
    m.heap[m.pool[p][i].item] = p /\ m.pool[p][i].item \notin O
IdleApart(m) ==
  \A p \in Pool : \A i, j \in Idle(m, p) :
    m.pool[p][i].item = m.pool[p][j].item => i = j
Sound(m, O) ==
  /\ m \in Memory
  /\ O \subseteq Block
  /\ \A b \in O : m.heap[b] \notin {"free", "other"}
  /\ IdleKept(m, O)
  /\ IdleApart(m)

-----------------------------------------------------------------------------
(* The operations on the pools keep a memory sound.                         *)

(* n is m but for the marks of the nodes of one pool; the nodes that became  *)
(* idle are among those in S, those that are idle no longer are in T.        *)
MarksOnly(m, n, p, S, T) ==
  /\ n \in Memory
  /\ n.heap = m.heap
  /\ \A q \in Pool \ {p} : n.pool[q] = m.pool[q] /\ Idle(n, q) = Idle(m, q)
  /\ DOMAIN n.pool[p] = DOMAIN m.pool[p]
  /\ \A j \in DOMAIN m.pool[p] : n.pool[p][j].item = m.pool[p][j].item
  /\ Idle(n, p) = (Idle(m, p) \cup S) \ T

\* The nodes of a list that a walk in search of S stops at: at most one.
Firsts(m, p, S) == {i \in DOMAIN m.pool[p] : IsFirst(i, S)}

\* Marking changes the mark of the first node and nothing else.
LEMMA MarkedIsMemory ==
  ASSUME NEW m \in Memory, NEW p \in Pool, NEW S, NEW u \in BOOLEAN
  PROVE  MarksOnly(m, Marked(m, p, S, u), p, IF u THEN {} ELSE Firsts(m, p, S),
                                             IF u THEN Firsts(m, p, S) ELSE {})
<1> DEFINE s == m.pool[p]
           t == [i \in DOMAIN s |-> IF IsFirst(i, S) THEN [s[i] EXCEPT !.used = u] ELSE s[i]]
           n == Marked(m, p, S, u)
<1>1. m.pool \in [Pool -> Seq(Node)] /\ m.heap \in [Block -> Use] /\ s \in Seq(Node)
  BY DEF Memory
<1>2. \A i \in DOMAIN s : s[i] \in Node
  BY <1>1
<1>3. \A i \in DOMAIN s : [s[i] EXCEPT !.used = u] \in Node
  BY <1>2 DEF Node
<1>4. t \in Seq(Node)
  <2>0. DOMAIN s = 1..Len(s)
    BY <1>1
  <2>1. t \in [1..Len(s) -> Node]
    BY <1>2, <1>3, <2>0, Zenon
  <2>2. Len(s) \in Nat
    BY <1>1
  <2> HIDE DEF t, s
  <2> QED
    BY <2>1, <2>2
<1>5. \A j \in DOMAIN s :
        /\ t[j].item = s[j].item
        /\ IsFirst(j, S) => t[j].used = u
        /\ ~IsFirst(j, S) => t[j].used = s[j].used
  BY <1>2 DEF Node
<1>6. n = [m EXCEPT !.pool[p] = t]
  BY DEF Marked
<1> HIDE DEF t
<1>7. n.heap = m.heap /\ n.pool = [m.pool EXCEPT ![p] = t] /\ n \in Memory
  BY <1>1, <1>4, <1>6 DEF Memory
<1>8. n.pool[p] = t /\ \A q \in Pool \ {p} : n.pool[q] = m.pool[q]
  BY <1>1, <1>7
<1>9. DOMAIN t = DOMAIN s
  BY DEF t
<1> HIDE DEF n
<1>10. Idle(n, p) = (Idle(m, p) \cup (IF u THEN {} ELSE Firsts(m, p, S)))
                      \ (IF u THEN Firsts(m, p, S) ELSE {})
  <2>1. CASE u = TRUE
    BY <1>5, <1>8, <1>9, <2>1 DEF Idle, Firsts
  <2>2. CASE u = FALSE
    BY <1>5, <1>8, <1>9, <2>2 DEF Idle, Firsts
  <2> QED
    BY <2>1, <2>2
<1>11. \A q \in Pool \ {p} : Idle(n, q) = Idle(m, q)
  BY <1>8 DEF Idle
<1> QED
  BY <1>5, <1>7, <1>8, <1>9, <1>10, <1>11 DEF MarksOnly, n

\* Fewer blocks in use: what was sound stays sound.
LEMMA SoundFewer ==
  ASSUME NEW m, NEW O, NEW P \in SUBSET O, Sound(m, O)
  PROVE  Sound(m, P)
BY DEF Sound, IdleKept

\* os_zalloc returns memory that no pool will hand out.
LEMMA AllocatedSound ==
  ASSUME NEW m, NEW O, Sound(m, O), NEW b \in Block, m.heap[b] = "free",
         NEW use \in Use \ {"free", "other"}
  PROVE  /\ Sound(Allocated(m, b, use), O \cup {b})
         /\ b \notin O
         /\ Allocated(m, b, use).heap = [m.heap EXCEPT ![b] = use]
<1> DEFINE n == Allocated(m, b, use)
<1>1. /\ n \in Memory
      /\ n.pool = m.pool
      /\ n.heap = [m.heap EXCEPT ![b] = use]
      /\ m.heap \in [Block -> Use]
  BY DEF Allocated, Sound, Memory
<1>2. \A p \in Pool : Idle(n, p) = Idle(m, p)
  BY <1>1 DEF Idle
<1>3. \A p \in Pool : \A i \in Idle(m, p) : m.pool[p][i].item # b
  BY DEF Sound, IdleKept, Pool
<1>4. IdleKept(n, O \cup {b})
  BY <1>1, <1>2, <1>3 DEF Sound, IdleKept
<1>5. IdleApart(n)
  BY <1>1, <1>2 DEF Sound, IdleApart
<1> QED
  BY <1>1, <1>4, <1>5 DEF Sound

\* Memory of the rest of the program comes and goes.
LEMMA OtherSound ==
  ASSUME NEW m, NEW O, Sound(m, O), NEW b \in Block, m.heap[b] \in {"free", "other"},
         NEW use \in {"free", "other"}
  PROVE  /\ Sound([m EXCEPT !.heap[b] = use], O)
         /\ b \notin O
<1> DEFINE n == [m EXCEPT !.heap[b] = use]
<1>1. /\ n \in Memory
      /\ n.pool = m.pool
      /\ n.heap = [m.heap EXCEPT ![b] = use]
      /\ m.heap \in [Block -> Use]
  BY DEF Sound, Memory, Use
<1>2. \A p \in Pool : Idle(n, p) = Idle(m, p)
  BY <1>1 DEF Idle
<1>3. \A p \in Pool : \A i \in Idle(m, p) : m.pool[p][i].item # b
  BY DEF Sound, IdleKept, Pool
<1>4. IdleKept(n, O)
  BY <1>1, <1>2, <1>3 DEF Sound, IdleKept
<1>5. IdleApart(n)
  BY <1>1, <1>2 DEF Sound, IdleApart
<1> QED
  BY <1>1, <1>4, <1>5 DEF Sound

\* os_free of a block in use.
LEMMA FreedSound ==
  ASSUME NEW m, NEW O, NEW b \in O, Sound(m, O)
  PROVE  /\ Sound(Freed(m, b), O \ {b})
         /\ Freed(m, b).heap = [m.heap EXCEPT ![b] = "free"]
<1> DEFINE n == Freed(m, b)
<1>1. /\ n \in Memory
      /\ n.pool = m.pool
      /\ n.heap = [m.heap EXCEPT ![b] = "free"]
      /\ m.heap \in [Block -> Use]
      /\ b \in Block
  BY DEF Freed, Sound, Memory, Use
<1>2. \A p \in Pool : Idle(n, p) = Idle(m, p)
  BY <1>1 DEF Idle
<1>3. \A p \in Pool : \A i \in Idle(m, p) : m.pool[p][i].item # b
  BY DEF Sound, IdleKept
<1>4. IdleKept(n, O \ {b})
  BY <1>1, <1>2, <1>3 DEF Sound, IdleKept
<1>5. IdleApart(n)
  BY <1>1, <1>2 DEF Sound, IdleApart
<1> QED
  BY <1>1, <1>4, <1>5 DEF Sound

\* What cache_get returns was nobody's, and no other cache_get returns it
\* until it is given back.
LEMMA CacheGotSound ==
  ASSUME NEW m, NEW O, Sound(m, O), NEW p \in Pool, NEW b \in CacheGet(m, p)
  PROVE  /\ Sound(CacheGot(m, p, b), O \cup {b})
         /\ b \in Block \ O
         /\ CacheGot(m, p, b).heap = [m.heap EXCEPT ![b] = p]
<1> DEFINE n == CacheGot(m, p, b)
           s == m.pool[p]
<1>0. m \in Memory /\ s \in Seq(Node) /\ Idle(m, p) \subseteq DOMAIN s
  BY DEF Sound, Memory, Idle
<1>1. CASE Idle(m, p) # {}
  <2>1. PICK first \in DOMAIN s : IsFirst(first, Idle(m, p)) /\ b = s[first].item
    BY <1>1 DEF CacheGet
  <2>2. n = Marked(m, p, Idle(m, p), TRUE)
    BY <1>1 DEF CacheGot
  <2>3. first \in Idle(m, p) /\ \A j \in DOMAIN s : IsFirst(j, Idle(m, p)) => j = first
    BY <1>0, <2>1 DEF IsFirst
  <2>4. b \in Block /\ b \notin O /\ m.heap[b] = p
    <3>1. s[first] \in Node
      BY <1>0
    <3> QED
      BY <2>1, <2>3, <3>1 DEF Sound, IdleKept, Node
  <2>5. MarksOnly(m, n, p, {}, Firsts(m, p, Idle(m, p)))
    BY <1>0, <2>2, MarkedIsMemory
  <2> HIDE DEF n
  <2>6. /\ Idle(n, p) = Idle(m, p) \ {first}
        /\ \A q \in Pool \ {p} : Idle(n, q) = Idle(m, q)
        /\ n \in Memory /\ n.heap = m.heap
    BY <2>1, <2>3, <2>5 DEF MarksOnly, Firsts
  <2>7. \A q \in Pool : /\ Idle(n, q) \subseteq Idle(m, q)
                        /\ \A j \in Idle(n, q) : n.pool[q][j].item = m.pool[q][j].item
    BY <1>0, <2>5, <2>6 DEF MarksOnly
  <2>8. \A q \in Pool : \A j \in Idle(n, q) : m.pool[q][j].item # b
    <3> SUFFICES ASSUME NEW q \in Pool, NEW j \in Idle(n, q), m.pool[q][j].item = b
                 PROVE  FALSE
      OBVIOUS
    <3>1. m.heap[b] = q
      BY <2>7 DEF Sound, IdleKept
    <3>2. q = p /\ j # first
      BY <2>4, <2>6, <3>1
    <3> QED
      BY <2>1, <2>3, <2>7, <3>2 DEF Sound, IdleApart
  <2>9. IdleKept(n, O \cup {b})
    BY <2>6, <2>7, <2>8 DEF Sound, IdleKept
  <2>10. IdleApart(n)
    BY <2>7 DEF Sound, IdleApart
  <2>11. n.heap = [m.heap EXCEPT ![b] = p]
    BY <1>0, <2>4, <2>6 DEF Memory
  <2>12. Sound(n, O \cup {b})
    BY <2>4, <2>6, <2>9, <2>10 DEF Sound, Pool
  <2> QED
    BY <2>4, <2>11, <2>12 DEF n
<1>2. CASE Idle(m, p) = {}
  <2>1. b \in Block /\ m.heap[b] = "free"
    BY <1>2 DEF CacheGet
  <2> DEFINE t == <<[item |-> b, used |-> TRUE]>> \o s
  <2>2. n = [m EXCEPT !.heap[b] = p, !.pool[p] = t]
    BY <1>2 DEF CacheGot
  <2>3. /\ t \in Seq(Node)
        /\ \A j \in DOMAIN t : t[j].used
    <3>1. \A j \in DOMAIN s : s[j].used
      BY <1>0, <1>2 DEF Idle, Node
    <3>2. [item |-> b, used |-> TRUE] \in Node
      BY <2>1 DEF Node
    <3> QED
      BY <1>0, <3>1, <3>2
  <2> HIDE DEF t, n
  <2>4. /\ n \in Memory
        /\ n.heap = [m.heap EXCEPT ![b] = p]
        /\ n.pool = [m.pool EXCEPT ![p] = t]
    <3>1. m.heap \in [Block -> Use] /\ m.pool \in [Pool -> Seq(Node)]
      BY <1>0 DEF Memory
    <3>2. [m.heap EXCEPT ![b] = p] \in [Block -> Use] /\ [m.pool EXCEPT ![p] = t] \in [Pool -> Seq(Node)]
      BY <2>3, <3>1 DEF Use
    <3>3. n = [heap |-> [m.heap EXCEPT ![b] = p], pool |-> [m.pool EXCEPT ![p] = t]]
      BY <1>0, <2>2 DEF Memory
    <3> QED
      BY <3>2, <3>3 DEF Memory
  <2>5. Idle(n, p) = {} /\ \A q \in Pool \ {p} : Idle(n, q) = Idle(m, q) /\ n.pool[q] = m.pool[q]
    BY <1>0, <2>3, <2>4 DEF Idle, Memory
  <2>6. \A q \in Pool : \A j \in Idle(m, q) : m.pool[q][j].item # b
    BY <2>1 DEF Sound, IdleKept, Pool
  <2>7. IdleKept(n, O \cup {b})
    BY <1>0, <2>1, <2>4, <2>5, <2>6 DEF Sound, IdleKept, Memory
  <2>8. IdleApart(n)
    BY <2>5 DEF Sound, IdleApart
  <2>9. b \notin O
    BY <2>1 DEF Sound
  <2> QED
    BY <1>0, <2>1, <2>4, <2>7, <2>8, <2>9 DEF Sound, Pool, Memory, n
<1> QED
  BY <1>1, <1>2

\* What is given back to the pool it came from may be handed out again.
LEMMA CacheBackSound ==
  ASSUME NEW m, NEW O, Sound(m, O), NEW p \in Pool, NEW b \in O, m.heap[b] = p
  PROVE  /\ Sound(CacheBack(m, p, b), O \ {b})
         /\ CacheBack(m, p, b).heap = m.heap
<1> DEFINE n == CacheBack(m, p, b)
           s == m.pool[p]
           at == NodesOf(m, p, b)
<1>0. m \in Memory /\ s \in Seq(Node) /\ b \in Block
  BY DEF Sound, Memory
<1>1. MarksOnly(m, n, p, Firsts(m, p, at), {})
  BY <1>0, MarkedIsMemory DEF CacheBack
<1>2. \A j \in Firsts(m, p, at) : j \in DOMAIN s /\ s[j].item = b
  BY DEF IsFirst, NodesOf, Firsts
<1>3. \A i, j \in Firsts(m, p, at) : i = j
  BY <1>0 DEF IsFirst, Firsts
<1> HIDE DEF n, at
<1>4. /\ Idle(n, p) = Idle(m, p) \cup Firsts(m, p, at)
      /\ Idle(m, p) \subseteq DOMAIN s
      /\ n \in Memory /\ n.heap = m.heap
      /\ \A j \in DOMAIN s : n.pool[p][j].item = s[j].item
  BY <1>1 DEF Idle, MarksOnly
<1>5. \A q \in Pool \ {p} : n.pool[q] = m.pool[q] /\ Idle(n, q) = Idle(m, q)
  BY <1>1 DEF MarksOnly
<1>6. \A q \in Pool : \A j \in Idle(m, q) : m.pool[q][j].item # b
  BY DEF Sound, IdleKept
<1>7. IdleKept(n, O \ {b})
  <2>1. ASSUME NEW j \in Idle(n, p)
        PROVE  n.heap[n.pool[p][j].item] = p /\ n.pool[p][j].item \notin O \ {b}
    BY <1>2, <1>4 DEF Sound, IdleKept
  <2>2. ASSUME NEW q \in Pool \ {p}, NEW j \in Idle(n, q)
        PROVE  n.heap[n.pool[q][j].item] = q /\ n.pool[q][j].item \notin O \ {b}
    BY <1>4, <1>5 DEF Sound, IdleKept
  <2> QED
    BY <2>1, <2>2 DEF IdleKept
<1>8. IdleApart(n)
  <2>1. ASSUME NEW i \in Idle(n, p), NEW j \in Idle(n, p), n.pool[p][i].item = n.pool[p][j].item
        PROVE  i = j
    <3>1. s[i].item = s[j].item
      BY <1>2, <1>4, <2>1
    <3> QED
      BY <1>2, <1>3, <1>4, <1>6, <3>1 DEF Sound, IdleApart
  <2>2. ASSUME NEW q \in Pool \ {p}, NEW i \in Idle(n, q), NEW j \in Idle(n, q),
               n.pool[q][i].item = n.pool[q][j].item
        PROVE  i = j
    BY <1>5, <2>2 DEF Sound, IdleApart
  <2> QED
    BY <2>1, <2>2 DEF IdleApart
<1>9. Sound(n, O \ {b})
  BY <1>4, <1>7, <1>8 DEF Sound
<1> QED
  BY <1>4, <1>9 DEF n

-----------------------------------------------------------------------------
(* Memory m, what the paths hold and what is lost fit together: nobody holds *)
(* what another holds, and every object comes from the pool it will go to.  *)
InUse(h, l) == ({h[r] : r \in Role} \ {NoBlock}) \cup l
Apart(h, l) ==
  /\ h \in [Role -> Block \cup {NoBlock}]
  /\ l \subseteq Block
  /\ \A r, s \in Role : h[r] = h[s] /\ h[r] # NoBlock => r = s
  /\ \A r \in Role : h[r] \notin l
FromPools(m, h) ==
  \A r \in Role : h[r] # NoBlock /\ r # "data" => m.heap[h[r]] = PoolOf(r)
Kept(m, h, l) ==
  Sound(m, InUse(h, l)) /\ Apart(h, l) /\ FromPools(m, h)

\* A path takes a block that nobody uses.
LEMMA TakeApart ==
  ASSUME NEW h, NEW l, Apart(h, l), NEW r \in Role, h[r] = NoBlock,
         NEW b \in Block, b \notin InUse(h, l)
  PROVE  /\ Apart([h EXCEPT ![r] = b], l)
         /\ InUse([h EXCEPT ![r] = b], l) = InUse(h, l) \cup {b}
BY PoolsAssumption DEF Apart, InUse

\* A path lets go of what it holds.
LEMMA DropApart ==
  ASSUME NEW h, NEW l, Apart(h, l), NEW r \in Role, h[r] # NoBlock
  PROVE  /\ Apart([h EXCEPT ![r] = NoBlock], l)
         /\ InUse([h EXCEPT ![r] = NoBlock], l) = InUse(h, l) \ {h[r]}
         /\ h[r] \in InUse(h, l)
         /\ h[r] \in Block
<1>1. h \in [Role -> Block \cup {NoBlock}] /\ l \subseteq Block /\ NoBlock \notin l
  BY PoolsAssumption DEF Apart
<1>2. \A s \in Role : [h EXCEPT ![r] = NoBlock][s] = (IF s = r THEN NoBlock ELSE h[s])
  BY <1>1
<1>3. InUse([h EXCEPT ![r] = NoBlock], l) = InUse(h, l) \ {h[r]}
  BY <1>1, <1>2 DEF InUse, Apart
<1>4. Apart([h EXCEPT ![r] = NoBlock], l)
  BY <1>1, <1>2 DEF Apart
<1> QED
  BY <1>1, <1>3, <1>4 DEF InUse

\* cache_get for a path.
LEMMA KeptTake ==
  ASSUME NEW m, NEW h, NEW l, Kept(m, h, l), NEW r \in Role, h[r] = NoBlock,
         NEW p \in Pool, r # "data" => p = PoolOf(r), NEW b \in CacheGet(m, p)
  PROVE  Kept(CacheGot(m, p, b), [h EXCEPT ![r] = b], l)
<1> DEFINE n == CacheGot(m, p, b)
           k == [h EXCEPT ![r] = b]
<1>1. /\ Sound(n, InUse(h, l) \cup {b})
      /\ b \in Block \ InUse(h, l)
      /\ n.heap = [m.heap EXCEPT ![b] = p]
  BY CacheGotSound DEF Kept
<1>2. Apart(k, l) /\ InUse(k, l) = InUse(h, l) \cup {b}
  <2>1. Apart(h, l) /\ b \in Block /\ b \notin InUse(h, l)
    BY <1>1 DEF Kept
  <2>2. Apart(k, l)
    BY <2>1, TakeApart
  <2>3. InUse(k, l) = InUse(h, l) \cup {b}
    BY <2>1, TakeApart
  <2> QED
    BY <2>2, <2>3
<1>3. Sound(n, InUse(k, l))
  BY <1>1, <1>2
<1> HIDE DEF n
<1>4. FromPools(n, k)
  BY <1>1 DEF Kept, FromPools, Apart, InUse, Sound, Memory
<1> QED
  BY <1>2, <1>3, <1>4 DEF Kept, n

\* os_zalloc for the data of an item.
LEMMA KeptAlloc ==
  ASSUME NEW m, NEW h, NEW l, Kept(m, h, l), h["data"] = NoBlock,
         NEW b \in Block, m.heap[b] = "free", NEW use \in {"buffer", "text"}
  PROVE  Kept(Allocated(m, b, use), [h EXCEPT !["data"] = b], l)
<1> DEFINE n == Allocated(m, b, use)
           k == [h EXCEPT !["data"] = b]
<1>1. /\ Sound(n, InUse(h, l) \cup {b})
      /\ b \in Block \ InUse(h, l)
      /\ n.heap = [m.heap EXCEPT ![b] = use]
  BY AllocatedSound DEF Kept, Use
<1>2. Apart(k, l) /\ InUse(k, l) = InUse(h, l) \cup {b}
  <2>1. Apart(h, l) /\ b \in Block /\ b \notin InUse(h, l)
    BY <1>1 DEF Kept
  <2>2. "data" \in Role
    BY DEF Role, Holder
  <2>3. Apart(k, l)
    BY <2>1, <2>2, TakeApart
  <2>4. InUse(k, l) = InUse(h, l) \cup {b}
    BY <2>1, <2>2, TakeApart
  <2> QED
    BY <2>3, <2>4
<1>3. Sound(n, InUse(k, l))
  BY <1>1, <1>2
<1> HIDE DEF n
<1>4. FromPools(n, k)
  BY <1>1 DEF Kept, FromPools, Apart, InUse, Sound, Memory
<1> QED
  BY <1>2, <1>3, <1>4 DEF Kept, n

\* cache_back of what a path holds.
LEMMA KeptBack ==
  ASSUME NEW m, NEW h, NEW l, Kept(m, h, l), NEW r \in Role \ {"data"},
         h[r] # NoBlock, NEW p, p = PoolOf(r)
  PROVE  Kept(CacheBack(m, p, h[r]), [h EXCEPT ![r] = NoBlock], l)
<1> DEFINE n == CacheBack(m, p, h[r])
           k == [h EXCEPT ![r] = NoBlock]
<1>1. /\ Apart(k, l)
      /\ InUse(k, l) = InUse(h, l) \ {h[r]}
      /\ h[r] \in InUse(h, l)
  BY DropApart DEF Kept
<1>2. p \in Pool /\ m.heap[h[r]] = p
  BY DEF PoolOf, Pool, Kept, FromPools
<1>3. Sound(n, InUse(k, l)) /\ n.heap = m.heap
  <2>1. Sound(n, InUse(h, l) \ {h[r]}) /\ n.heap = m.heap
    BY <1>1, <1>2, CacheBackSound DEF Kept
  <2> QED
    BY <1>1, <2>1
<1> HIDE DEF n
<1>4. FromPools(n, k)
  BY <1>3 DEF Kept, FromPools, Apart
<1> QED
  BY <1>1, <1>3, <1>4 DEF Kept, n

\* os_free of what a path holds.
LEMMA KeptFree ==
  ASSUME NEW m, NEW h, NEW l, Kept(m, h, l), NEW r \in Role, h[r] # NoBlock
  PROVE  Kept(Freed(m, h[r]), [h EXCEPT ![r] = NoBlock], l)
<1> DEFINE n == Freed(m, h[r])
           k == [h EXCEPT ![r] = NoBlock]
<1>1. /\ Apart(k, l)
      /\ InUse(k, l) = InUse(h, l) \ {h[r]}
      /\ h[r] \in InUse(h, l)
  BY DropApart DEF Kept
<1>2. Sound(n, InUse(k, l)) /\ n.heap = [m.heap EXCEPT ![h[r]] = "free"]
  <2>1. /\ Sound(n, InUse(h, l) \ {h[r]})
        /\ n.heap = [m.heap EXCEPT ![h[r]] = "free"]
    BY <1>1, FreedSound DEF Kept
  <2> QED
    BY <1>1, <2>1
<1> HIDE DEF n
<1>3. FromPools(n, k)
  BY <1>2 DEF Kept, FromPools, Apart, Sound, Memory
<1> QED
  BY <1>1, <1>2, <1>3 DEF Kept, n

\* A path forgets what it holds.
LEMMA KeptForget ==
  ASSUME NEW m, NEW h, NEW l, Kept(m, h, l), NEW r \in Role, h[r] # NoBlock
  PROVE  Kept(m, [h EXCEPT ![r] = NoBlock], l \cup {h[r]})
<1> DEFINE k == [h EXCEPT ![r] = NoBlock]
<1>1. /\ Apart(k, l)
      /\ InUse(k, l) = InUse(h, l) \ {h[r]}
      /\ h[r] \in InUse(h, l) /\ h[r] \in Block
  BY DropApart DEF Kept
<1>2. Apart(k, l \cup {h[r]})
  BY <1>1 DEF Kept, Apart
<1>3. InUse(k, l \cup {h[r]}) = InUse(h, l)
  BY <1>1 DEF InUse
<1>4. FromPools(m, k)
  BY DEF Kept, FromPools, Apart
<1> QED
  BY <1>2, <1>3, <1>4 DEF Kept

\* cache_get whose result is dropped at once.
LEMMA KeptLose ==
  ASSUME NEW m, NEW h, NEW l, Kept(m, h, l), NEW p \in Pool, NEW b \in CacheGet(m, p)
  PROVE  /\ Kept(CacheGot(m, p, b), h, l \cup {b})
         /\ Kept(Freed(CacheGot(m, p, b), b), h, l)
<1> DEFINE n == CacheGot(m, p, b)
<1>1. /\ Sound(n, InUse(h, l) \cup {b})
      /\ b \in Block \ InUse(h, l)
      /\ n.heap = [m.heap EXCEPT ![b] = p]
  BY CacheGotSound DEF Kept
<1>2. /\ Sound(Freed(n, b), (InUse(h, l) \cup {b}) \ {b})
      /\ Freed(n, b).heap = [n.heap EXCEPT ![b] = "free"]
  BY <1>1, FreedSound
<1>3. (InUse(h, l) \cup {b}) \ {b} = InUse(h, l)
  BY <1>1
<1> HIDE DEF n
<1>4. FromPools(n, h) /\ FromPools(Freed(n, b), h)
  <2>1. \A r \in Role : h[r] # NoBlock => h[r] # b /\ h[r] \in Block
    BY <1>1 DEF Kept, Apart, InUse
  <2>2. m.heap \in [Block -> Use]
    BY DEF Kept, Sound, Memory
  <2> QED
    BY <1>1, <1>2, <2>1, <2>2 DEF Kept, FromPools
<1>5. Apart(h, l \cup {b})
  BY <1>1, PoolsAssumption DEF Kept, Apart, InUse
<1>6. InUse(h, l \cup {b}) = InUse(h, l) \cup {b}
  BY DEF InUse
<1> QED
  BY <1>1, <1>2, <1>3, <1>4, <1>5, <1>6 DEF Kept, n

\* Memory of the rest of the program.
LEMMA KeptOther ==
  ASSUME NEW m, NEW h, NEW l, Kept(m, h, l), NEW b \in Block,
         m.heap[b] \in {"free", "other"}, NEW use \in {"free", "other"}
  PROVE  Kept([m EXCEPT !.heap[b] = use], h, l)
<1> DEFINE n == [m EXCEPT !.heap[b] = use]
<1>1. Sound(n, InUse(h, l)) /\ b \notin InUse(h, l)
  BY OtherSound DEF Kept
<1>2. n.heap = [m.heap EXCEPT ![b] = use] /\ m.heap \in [Block -> Use]
  BY DEF Kept, Sound, Memory
<1>3. FromPools(n, h)
  BY <1>1, <1>2 DEF Kept, FromPools, InUse, Apart
<1> QED
  BY <1>1, <1>3 DEF Kept

-----------------------------------------------------------------------------
(* The inductive invariant: memory, holders and losses fit together, and the *)
(* receive loop holds what its phase says.  It lasts until a response comes   *)
(* that nobody waits for.                                                    *)
Fits == Kept(memory, held, lost)
PhaseFits ==
  /\ phase \in {"waiting", "handling", "dispatching", "handled", "broken"}
  /\ phase = "waiting" <=> held["received"] = NoBlock
  /\ phase \notin {"dispatching", "broken"} => \A r \in {"event", "cxt", "data"} : held[r] = NoBlock
  /\ phase = "dispatching" => held["event"] # NoBlock
PoolsInv == Fits /\ PhaseFits

(* The paths that take and give back at any time: replies and requests.     *)
Chooses(r) == r \notin {"received", "event", "cxt", "data"}

\* Before the first message nobody holds anything.
LEMMA InitFits == PoolsInit => PoolsInv
<1> SUFFICES ASSUME PoolsInit PROVE PoolsInv
  OBVIOUS
<1>1. memory \in Memory /\ \A p \in Pool : Idle(memory, p) = {}
  BY DEF PoolsInit, memory, Memory, Idle, Use
<1>2. InUse(held, lost) = {}
  BY DEF PoolsInit, InUse
<1>3. Sound(memory, InUse(held, lost))
  BY <1>1, <1>2 DEF Sound, IdleKept, IdleApart
<1>4. Apart(held, lost)
  BY DEF PoolsInit, Apart
<1>5. FromPools(memory, held)
  BY DEF PoolsInit, FromPools
<1>6. PhaseFits
  BY DEF PoolsInit, PhaseFits, Role, Holder
<1> QED
  BY <1>3, <1>4, <1>5, <1>6 DEF PoolsInv, Fits, Kept

\* The memory after a step.
LEMMA BecomesIs ==
  ASSUME NEW n, NEW O, Sound(n, O), Becomes(n)
  PROVE  memory' = n
BY DEF Sound, Memory, Becomes, memory

\* What a step leaves fits if it does with the names of the new memory.
LEMMA FitsAfter ==
  ASSUME NEW n, Becomes(n), Kept(n, held', lost')
  PROVE  Fits'
BY BecomesIs DEF Kept, Fits

\* A message is received.
LEMMA ReceiveFits ==
  ASSUME PoolsInv, Receive
  PROVE  PoolsInv'
<1>1. PICK b \in CacheGet(memory, "message") :
        /\ Becomes(CacheGot(memory, "message", b))
        /\ held' = [held EXCEPT !["received"] = b]
        /\ payload' \in {"none", "owned"}
  BY DEF Receive
<1>2. Kept(memory, held, lost) /\ held["received"] = NoBlock /\ lost' = lost
  BY DEF PoolsInv, Fits, PhaseFits, Receive
<1>3. "received" \in Role /\ "message" \in Pool /\ PoolOf("received") = "message"
  BY DEF Role, Holder, Pool, PoolOf
<1>4. Kept(CacheGot(memory, "message", b), held', lost')
  BY <1>1, <1>2, <1>3, KeptTake
<1>5. Fits'
  BY <1>1, <1>4, FitsAfter
<1>6. b \in Block
  BY <1>2, <1>3, CacheGotSound DEF Kept
<1>7. PhaseFits'
  BY <1>1, <1>2, <1>6, PoolsAssumption DEF PoolsInv, PhaseFits, Receive, Kept, Apart, Role, Holder
<1> QED
  BY <1>5, <1>7 DEF PoolsInv

\* The first action of a reply, and of a request.
LEMMA TakeFits ==
  ASSUME PoolsInv, NEW r \in Role, Chooses(r), held[r] = NoBlock,
         NEW b \in CacheGet(memory, PoolOf(r)),
         Becomes(CacheGot(memory, PoolOf(r), b)), held' = [held EXCEPT ![r] = b],
         UNCHANGED <<lost, phase, payload, kind, late>>
  PROVE  PoolsInv'
<1>1. Kept(memory, held, lost) /\ PoolOf(r) \in Pool /\ r \in Role
  BY DEF PoolsInv, Fits, PoolOf, Pool, Role, Holder
<1>2. Kept(CacheGot(memory, PoolOf(r), b), held', lost')
  BY <1>1, KeptTake
<1>3. Fits'
  BY <1>2, FitsAfter
<1>4. PhaseFits'
  BY <1>1 DEF PoolsInv, PhaseFits, Kept, Apart, Role, Holder, Chooses
<1> QED
  BY <1>3, <1>4 DEF PoolsInv

\* The last action of a reply, and of a request.
LEMMA GiveFits ==
  ASSUME PoolsInv, NEW r \in Role, Chooses(r), held[r] # NoBlock,
         Becomes(CacheBack(memory, PoolOf(r), held[r])),
         held' = [held EXCEPT ![r] = NoBlock],
         UNCHANGED <<lost, phase, payload, kind, late>>
  PROVE  PoolsInv'
<1>1. Kept(memory, held, lost) /\ r \in Role \ {"data"}
  BY DEF PoolsInv, Fits, Role, Holder, Chooses
<1>2. Kept(CacheBack(memory, PoolOf(r), held[r]), held', lost')
  BY <1>1, KeptBack
<1>3. Fits'
  BY <1>2, FitsAfter
<1>4. PhaseFits'
  BY <1>1 DEF PoolsInv, PhaseFits, Kept, Apart, Role, Holder, Chooses
<1> QED
  BY <1>3, <1>4 DEF PoolsInv

\* The context of an item is read.
LEMMA CxtKept ==
  ASSUME NEW m, NEW h, NEW l, Kept(m, h, l), h["cxt"] = NoBlock, NEW c \in CxtRead(m)
  PROVE  Kept(c[1], [h EXCEPT !["cxt"] = c[2]], l)
<1>1. "cxt" \in Role /\ "extra" \in Pool /\ PoolOf("cxt") = "extra"
  BY DEF Role, Holder, Pool, PoolOf
<1>2. CASE c = <<m, NoBlock>>
  <2>1. [h EXCEPT !["cxt"] = c[2]] = h
    BY <1>1, <1>2 DEF Kept, Apart
  <2> QED
    BY <1>2, <2>1
<1>3. ASSUME NEW b \in CacheGet(m, "extra"), c = <<CacheGot(m, "extra", b), b>>
      PROVE  Kept(c[1], [h EXCEPT !["cxt"] = c[2]], l)
  <2>1. Kept(CacheGot(m, "extra", b), [h EXCEPT !["cxt"] = b], l)
    BY <1>1, KeptTake
  <2> QED
    BY <1>3, <2>1
<1> QED
  BY <1>2, <1>3 DEF CxtRead

\* The data of an item are read.
LEMMA DataKept ==
  ASSUME NEW m, NEW h, NEW l, Kept(m, h, l), h["data"] = NoBlock,
         NEW k \in {"none", "bin", "string", "extra"}, NEW d \in DataRead(m, k)
  PROVE  Kept(d[1], [h EXCEPT !["data"] = d[2]], l)
<1>1. "data" \in Role /\ "extra" \in Pool
  BY DEF Role, Holder, Pool
<1>2. CASE d = <<m, NoBlock>>
  <2>1. [h EXCEPT !["data"] = d[2]] = h
    BY <1>1, <1>2 DEF Kept, Apart
  <2> QED
    BY <1>2, <2>1
<1>3. ASSUME NEW b \in Block, m.heap[b] = "free", NEW use \in {"buffer", "text"},
             d = <<Allocated(m, b, use), b>>
      PROVE  Kept(d[1], [h EXCEPT !["data"] = d[2]], l)
  <2>1. Kept(Allocated(m, b, use), [h EXCEPT !["data"] = b], l)
    BY <1>3, KeptAlloc
  <2> QED
    BY <1>3, <2>1
<1>4. ASSUME NEW b \in CacheGet(m, "extra"), d = <<CacheGot(m, "extra", b), b>>
      PROVE  Kept(d[1], [h EXCEPT !["data"] = d[2]], l)
  <2>1. Kept(CacheGot(m, "extra", b), [h EXCEPT !["data"] = b], l)
    BY <1>1, KeptTake
  <2> QED
    BY <1>4, <2>1
<1>5. CASE k = "none"
  BY <1>2, <1>5 DEF DataRead
<1>6. CASE k = "bin"
  BY <1>3, <1>6 DEF DataRead
<1>7. CASE k = "string"
  BY <1>3, <1>7 DEF DataRead
<1>8. CASE k = "extra"
  BY <1>4, <1>8 DEF DataRead
<1> QED
  BY <1>5, <1>6, <1>7, <1>8

\* An item is parsed.
LEMMA ParseItemFits ==
  ASSUME PoolsInv, ParseItem
  PROVE  PoolsInv'
<1>1. PICK k \in DataKinds, b \in CacheGet(memory, "item") :
        \E c \in CxtRead(CacheGot(memory, "item", b)) :
          \E d \in DataRead(c[1], k) :
            /\ Becomes(d[1])
            /\ held' = [held EXCEPT !["event"] = b, !["cxt"] = c[2], !["data"] = d[2]]
            /\ kind' = k
  BY DEF ParseItem
<1>2. PICK c \in CxtRead(CacheGot(memory, "item", b)) :
        \E d \in DataRead(c[1], k) :
          /\ Becomes(d[1])
          /\ held' = [held EXCEPT !["event"] = b, !["cxt"] = c[2], !["data"] = d[2]]
          /\ kind' = k
  BY <1>1
<1>3. PICK d \in DataRead(c[1], k) :
        /\ Becomes(d[1])
        /\ held' = [held EXCEPT !["event"] = b, !["cxt"] = c[2], !["data"] = d[2]]
        /\ kind' = k
  BY <1>2
<1> DEFINE h1 == [held EXCEPT !["event"] = b]
           h2 == [h1 EXCEPT !["cxt"] = c[2]]
           h3 == [h2 EXCEPT !["data"] = d[2]]
<1>4. /\ Kept(memory, held, lost)
      /\ held["event"] = NoBlock /\ held["cxt"] = NoBlock /\ held["data"] = NoBlock
      /\ held \in [Role -> Block \cup {NoBlock}]
  BY DEF PoolsInv, Fits, PhaseFits, ParseItem, Kept, Apart
<1>5. {"event", "cxt", "data", "received", "reply"} \subseteq Role /\ "item" \in Pool /\ PoolOf("event") = "item"
  BY DEF Role, Holder, Pool, PoolOf
<1>6. Kept(CacheGot(memory, "item", b), h1, lost) /\ b \in Block
  <2>1. Kept(CacheGot(memory, "item", b), h1, lost)
    BY <1>4, <1>5, KeptTake
  <2>2. b \in Block
    BY <1>4, <1>5, CacheGotSound DEF Kept
  <2> QED
    BY <2>1, <2>2
<1>7. Kept(c[1], h2, lost)
  <2>1. h1["cxt"] = NoBlock
    BY <1>4, <1>5
  <2> HIDE DEF h1
  <2> QED
    BY <1>6, <2>1, CxtKept
<1>8. Kept(d[1], h3, lost)
  <2>1. h2["data"] = NoBlock
    BY <1>4, <1>5
  <2>2. k \in {"none", "bin", "string", "extra"}
    BY PoolsAssumption
  <2> HIDE DEF h2
  <2> QED
    BY <1>7, <2>1, <2>2, DataKept
<1>9. held' = h3
  BY <1>3
<1>10. Fits'
  <2>1. lost' = lost
    BY DEF ParseItem
  <2>2. Kept(d[1], held', lost')
    BY <1>8, <1>9, <2>1
  <2> QED
    BY <1>3, <2>2, FitsAfter
<1>11. PhaseFits'
  BY <1>3, <1>4, <1>5, <1>6, PoolsAssumption DEF PoolsInv, PhaseFits, ParseItem
<1> QED
  BY <1>10, <1>11 DEF PoolsInv

\* An item is not parsed.
LEMMA ParseFailsFits ==
  ASSUME PoolsInv, ParseFails
  PROVE  PoolsInv'
<1>1. PICK b \in CacheGet(memory, "item") :
        Becomes(CacheGot(memory, "item", b)) /\ lost' = lost \cup {b}
  BY DEF ParseFails
<1>2. Kept(memory, held, lost) /\ "item" \in Pool /\ held' = held
  BY DEF PoolsInv, Fits, ParseFails, Pool
<1>3. Kept(CacheGot(memory, "item", b), held', lost')
  BY <1>1, <1>2, KeptLose
<1>4. Fits'
  BY <1>1, <1>3, FitsAfter
<1>5. PhaseFits'
  BY <1>2 DEF PoolsInv, PhaseFits, ParseFails
<1> QED
  BY <1>4, <1>5 DEF PoolsInv

\* An item is released: its data, its context, itself.
LEMMA ReleaseItemFits ==
  ASSUME PoolsInv, ReleaseItem
  PROVE  PoolsInv'
<1> DEFINE m1 == IF held["data"] = NoBlock THEN memory ELSE Freed(memory, held["data"])
           m2 == IF held["cxt"] = NoBlock THEN m1 ELSE CacheBack(m1, "extra", held["cxt"])
           m3 == CacheBack(m2, "item", held["event"])
           h1 == [held EXCEPT !["data"] = NoBlock]
           h2 == [h1 EXCEPT !["cxt"] = NoBlock]
           h3 == [h2 EXCEPT !["event"] = NoBlock]
<1>1. /\ Kept(memory, held, lost)
      /\ held["event"] # NoBlock
      /\ held \in [Role -> Block \cup {NoBlock}]
      /\ lost' = lost
  BY DEF PoolsInv, Fits, PhaseFits, ReleaseItem, Kept, Apart
<1>2. /\ {"event", "cxt", "data", "received", "reply"} \subseteq Role
      /\ PoolOf("event") = "item" /\ PoolOf("cxt") = "extra"
  BY DEF Role, Holder, PoolOf
<1>3. Becomes(m3) /\ held' = h3
  BY DEF ReleaseItem
<1>4. Kept(m1, h1, lost)
  <2>1. CASE held["data"] = NoBlock
    <3>1. h1 = held
      BY <1>1, <2>1
    <3> QED
      BY <1>1, <2>1, <3>1
  <2>2. CASE held["data"] # NoBlock
    <3>1. Kept(Freed(memory, held["data"]), h1, lost)
      BY <1>1, <1>2, <2>2, KeptFree
    <3> QED
      BY <2>2, <3>1
  <2> QED
    BY <2>1, <2>2
<1>5. h1["cxt"] = held["cxt"] /\ h2["event"] = held["event"] /\ h1 \in [Role -> Block \cup {NoBlock}]
  BY <1>1, <1>2
<1>6. Kept(m2, h2, lost)
  <2> HIDE DEF m1, h1
  <2>1. CASE held["cxt"] = NoBlock
    <3>1. h2 = h1
      BY <1>5, <2>1
    <3> QED
      BY <1>4, <2>1, <3>1
  <2>2. CASE held["cxt"] # NoBlock
    <3>1. Kept(CacheBack(m1, "extra", h1["cxt"]), h2, lost)
      BY <1>2, <1>4, <1>5, <2>2, KeptBack
    <3> QED
      BY <1>5, <2>2, <3>1
  <2> QED
    BY <2>1, <2>2
<1>7. Kept(m3, h3, lost)
  <2> HIDE DEF m2, h2
  <2>1. Kept(CacheBack(m2, "item", h2["event"]), h3, lost)
    BY <1>1, <1>2, <1>5, <1>6, KeptBack
  <2> QED
    BY <1>5, <2>1
<1>8. Fits'
  <2>1. Kept(m3, held', lost')
    BY <1>1, <1>3, <1>7
  <2> HIDE DEF m3
  <2> QED
    BY <1>3, <2>1, FitsAfter
<1>9. PhaseFits'
  BY <1>1, <1>2, <1>3 DEF PoolsInv, PhaseFits, ReleaseItem
<1> QED
  BY <1>8, <1>9 DEF PoolsInv

\* The receive loop frees the message.
LEMMA FreeReceivedFits ==
  ASSUME PoolsInv, FreeReceived
  PROVE  PoolsInv'
<1>1. /\ Kept(memory, held, lost)
      /\ held["received"] # NoBlock
      /\ held \in [Role -> Block \cup {NoBlock}]
      /\ lost' = lost /\ "received" \in Role
  BY DEF PoolsInv, Fits, PhaseFits, FreeReceived, Kept, Apart, Role, Holder
<1>2. Becomes(Freed(memory, held["received"])) /\ held' = [held EXCEPT !["received"] = NoBlock]
  BY DEF FreeReceived
<1>3. Kept(Freed(memory, held["received"]), held', lost')
  BY <1>1, <1>2, KeptFree
<1>4. Fits'
  BY <1>2, <1>3, FitsAfter
<1>5. PhaseFits'
  BY <1>1, <1>2 DEF PoolsInv, PhaseFits, FreeReceived, Role, Holder
<1> QED
  BY <1>4, <1>5 DEF PoolsInv

\* A message that msg_decode gives up never leaves it.
LEMMA DecodeFailsFits ==
  ASSUME PoolsInv, DecodeFails
  PROVE  PoolsInv'
<1>1. PICK b \in CacheGet(memory, "message") :
        Becomes(Freed(CacheGot(memory, "message", b), b))
  BY DEF DecodeFails
<1>2. Kept(memory, held, lost) /\ "message" \in Pool /\ held' = held /\ lost' = lost
  BY DEF PoolsInv, Fits, DecodeFails, Pool
<1>3. Kept(Freed(CacheGot(memory, "message", b), b), held', lost')
  BY <1>1, <1>2, KeptLose
<1>4. Fits'
  BY <1>1, <1>3, FitsAfter
<1>5. PhaseFits'
  BY <1>2 DEF PoolsInv, PhaseFits, DecodeFails
<1> QED
  BY <1>4, <1>5 DEF PoolsInv

\* A caller returns without msg_release.
LEMMA ForgottenFits ==
  ASSUME PoolsInv, NEW c \in Caller, RequestForgotten(c)
  PROVE  PoolsInv'
<1>1. /\ Kept(memory, held, lost) /\ c \in Role /\ held[c] # NoBlock
      /\ held' = [held EXCEPT ![c] = NoBlock] /\ lost' = lost \cup {held[c]}
      /\ held \in [Role -> Block \cup {NoBlock}]
  BY DEF PoolsInv, Fits, Kept, Apart, Role, RequestForgotten
<1>2. Kept(memory, held', lost')
  BY <1>1, KeptForget
<1>3. memory' = memory
  BY DEF RequestForgotten, memory
<1>4. Fits'
  BY <1>2, <1>3 DEF Fits
<1>5. PhaseFits'
  BY <1>1, PoolsAssumption DEF PoolsInv, PhaseFits, RequestForgotten, Role, Holder
<1> QED
  BY <1>4, <1>5 DEF PoolsInv

\* The rest of the program allocates and frees.
LEMMA OtherFits ==
  ASSUME PoolsInv, NEW b \in Block, OtherAllocates(b) \/ OtherFrees(b)
  PROVE  PoolsInv'
<1>1. Kept(memory, held, lost) /\ memory.heap = heap
  BY DEF PoolsInv, Fits, memory
<1>2. PICK use \in {"free", "other"} :
        heap[b] \in {"free", "other"} /\ Becomes([memory EXCEPT !.heap[b] = use])
  BY DEF OtherAllocates, OtherFrees, Allocated, Freed
<1>3. Kept([memory EXCEPT !.heap[b] = use], held, lost)
  BY <1>1, <1>2, KeptOther
<1>4. UNCHANGED <<held, lost, phase, payload, kind, late>>
  BY DEF OtherAllocates, OtherFrees
<1>5. Fits'
  <2>1. Kept([memory EXCEPT !.heap[b] = use], held', lost')
    BY <1>3, <1>4
  <2> QED
    BY <1>2, <2>1, FitsAfter
<1>6. PhaseFits'
  BY <1>4 DEF PoolsInv, PhaseFits
<1> QED
  BY <1>5, <1>6 DEF PoolsInv

\* Steps that leave memory and holders alone.
LEMMA SameFits ==
  ASSUME PoolsInv, UNCHANGED poolsVars \/ HandlePlain \/ FreeBreaks
  PROVE  PoolsInv'
<1>1. memory' = memory /\ held' = held /\ lost' = lost
  BY DEF poolsVars, HandlePlain, FreeBreaks, memory
<1>2. Fits'
  BY <1>1 DEF PoolsInv, Fits
<1>3. PhaseFits'
  BY DEF PoolsInv, PhaseFits, poolsVars, HandlePlain, FreeBreaks
<1> QED
  BY <1>2, <1>3 DEF PoolsInv

\* Every step but ReleaseUnawaited keeps the invariant.
LEMMA NextFits ==
  ASSUME PoolsInv, [PoolsNext]_poolsVars, Awaited'
  PROVE  PoolsInv'
<1>1. CASE UNCHANGED poolsVars
  BY <1>1, SameFits
<1>2. CASE Receive
  BY <1>2, ReceiveFits
<1>3. CASE DecodeFails
  BY <1>3, DecodeFailsFits
<1>4. CASE HandlePlain
  BY <1>4, SameFits
<1>5. CASE ReleaseUnawaited
  BY <1>5 DEF ReleaseUnawaited, Awaited
<1>6. CASE ParseItem
  BY <1>6, ParseItemFits
<1>7. CASE ParseFails
  BY <1>7, ParseFailsFits
<1>8. CASE ReplyBegins
  <2>1. PICK b \in CacheGet(memory, "item") :
          Becomes(CacheGot(memory, "item", b)) /\ held' = [held EXCEPT !["reply"] = b]
    BY <1>8 DEF ReplyBegins
  <2>2. /\ PoolOf("reply") = "item" /\ held["reply"] = NoBlock
        /\ "reply" \in Role /\ Chooses("reply")
    BY <1>8 DEF ReplyBegins, PoolOf, Role, Holder, Chooses
  <2>3. UNCHANGED <<lost, phase, payload, kind, late>>
    BY <1>8 DEF ReplyBegins
  <2> QED
    BY <2>1, <2>2, <2>3, TakeFits
<1>9. CASE ReplyEnds
  <2>1. /\ Becomes(CacheBack(memory, "item", held["reply"]))
        /\ held' = [held EXCEPT !["reply"] = NoBlock]
        /\ held["reply"] # NoBlock
    BY <1>9 DEF ReplyEnds
  <2>2. PoolOf("reply") = "item" /\ "reply" \in Role /\ Chooses("reply")
    BY DEF PoolOf, Role, Holder, Chooses
  <2>3. UNCHANGED <<lost, phase, payload, kind, late>>
    BY <1>9 DEF ReplyEnds
  <2> QED
    BY <2>1, <2>2, <2>3, GiveFits
<1>10. CASE ReleaseItem
  BY <1>10, ReleaseItemFits
<1>11. CASE FreeReceived
  BY <1>11, FreeReceivedFits
<1>12. CASE OutOfMemory
  BY <1>12, SameFits DEF OutOfMemory
<1>13. ASSUME NEW c \in Caller, RequestBegins(c) \/ RequestEnds(c) \/ RequestForgotten(c)
       PROVE  PoolsInv'
  <2>1. PoolOf(c) = "message" /\ c \in Role /\ Chooses(c)
    BY PoolsAssumption DEF PoolOf, Role, Chooses, Holder
  <2>2. CASE RequestBegins(c)
    <3>1. PICK b \in CacheGet(memory, "message") :
            Becomes(CacheGot(memory, "message", b)) /\ held' = [held EXCEPT ![c] = b]
      BY <2>2 DEF RequestBegins
    <3>2. held[c] = NoBlock /\ UNCHANGED <<lost, phase, payload, kind, late>>
      BY <2>2 DEF RequestBegins
    <3>3. b \in CacheGet(memory, PoolOf(c)) /\ Becomes(CacheGot(memory, PoolOf(c), b))
      BY <2>1, <3>1
    <3> QED
      BY <2>1, <3>1, <3>2, <3>3, TakeFits
  <2>3. CASE RequestEnds(c)
    <3>1. /\ Becomes(CacheBack(memory, "message", held[c]))
          /\ held' = [held EXCEPT ![c] = NoBlock]
          /\ held[c] # NoBlock
          /\ UNCHANGED <<lost, phase, payload, kind, late>>
      BY <2>3 DEF RequestEnds
    <3>2. Becomes(CacheBack(memory, PoolOf(c), held[c]))
      BY <2>1, <3>1
    <3> QED
      BY <2>1, <3>1, <3>2, GiveFits
  <2>4. CASE RequestForgotten(c)
    BY <2>4, ForgottenFits
  <2> QED
    BY <1>13, <2>2, <2>3, <2>4
<1>14. ASSUME NEW b \in Block, OtherAllocates(b) \/ OtherFrees(b)
       PROVE  PoolsInv'
  BY <1>14, OtherFits
<1>15. CASE FreeBreaks
  BY <1>15, SameFits
<1> QED
  BY <1>1, <1>2, <1>3, <1>4, <1>5, <1>6, <1>7, <1>8, <1>9, <1>10, <1>11, <1>12, <1>13, <1>14, <1>15 DEF PoolsNext

\* Once a response has come that nobody waits for, it has come.
LEMMA OddStays ==
  ASSUME [PoolsNext]_poolsVars, Awaited'
  PROVE  Awaited
BY DEF PoolsNext, poolsVars, Awaited, Receive, DecodeFails, HandlePlain, ReleaseUnawaited, ParseItem,
       ParseFails, ReplyBegins, ReplyEnds, ReleaseItem, FreeReceived, FreeBreaks,
       OutOfMemory,
       RequestBegins, RequestEnds, RequestForgotten, OtherAllocates, OtherFrees

LEMMA SpecFits == PoolsSpec => [](Awaited => PoolsInv)
<1>1. PoolsInit => PoolsInv
  BY InitFits
<1>2. (Awaited => PoolsInv) /\ [PoolsNext]_poolsVars => (Awaited' => PoolsInv')
  BY NextFits, OddStays
<1> QED
  BY <1>1, <1>2, PTL DEF PoolsSpec

-----------------------------------------------------------------------------
(* The theorems.                                                            *)

\* Until the first response that nobody waits for, no two paths ever hold
\* the same object, and nothing that is held was freed (cache_get,
\* cache_back and the receive loop's os_free).
THEOREM PoolsSoleOwner == PoolsSpec => []SoleOwner
<1>1. (Awaited => PoolsInv) => SoleOwner
  BY DEF PoolsInv, Fits, Kept, Apart, Sound, InUse, SoleOwner, Owned, memory
<1> QED
  BY <1>1, SpecFits, PTL

\* Until the first response that nobody waits for, what cache_get would hand
\* out is memory of its pool that nobody uses.
THEOREM PoolsIdleIsOwn == PoolsSpec => []IdleIsOwn
<1>1. (Awaited => PoolsInv) => IdleIsOwn
  BY DEF PoolsInv, Fits, Kept, Sound, IdleKept, InUse, IdleIsOwn, Owned, memory
<1> QED
  BY <1>1, SpecFits, PTL

-----------------------------------------------------------------------------
(* The types hold whatever arrives: every operation on the pools returns a   *)
(* memory.                                                                   *)

\* cache_get.
LEMMA CacheGotMemory ==
  ASSUME NEW m \in Memory, NEW p \in Pool, NEW b \in CacheGet(m, p)
  PROVE  b \in Block /\ CacheGot(m, p, b) \in Memory
<1>1. m.heap \in [Block -> Use] /\ m.pool \in [Pool -> Seq(Node)] /\ m.pool[p] \in Seq(Node)
  BY DEF Memory
<1>2. CASE Idle(m, p) # {}
  <2>1. b \in Block
    <3>1. PICK i \in DOMAIN m.pool[p] : b = m.pool[p][i].item
      BY <1>2 DEF CacheGet
    <3>2. m.pool[p][i] \in Node
      BY <1>1
    <3> QED
      BY <3>1, <3>2 DEF Node
  <2>2. Marked(m, p, Idle(m, p), TRUE) \in Memory
    BY MarkedIsMemory DEF MarksOnly
  <2> QED
    BY <1>2, <2>1, <2>2 DEF CacheGot
<1>3. CASE Idle(m, p) = {}
  <2>1. b \in Block
    BY <1>3 DEF CacheGet
  <2> DEFINE t == <<[item |-> b, used |-> TRUE]>> \o m.pool[p]
  <2>2. t \in Seq(Node)
    <3>1. [item |-> b, used |-> TRUE] \in Node
      BY <2>1 DEF Node
    <3> QED
      BY <1>1, <3>1
  <2>3. CacheGot(m, p, b) = [m EXCEPT !.heap[b] = p, !.pool[p] = t]
    BY <1>3 DEF CacheGot
  <2> HIDE DEF t
  <2>4. /\ [m.heap EXCEPT ![b] = p] \in [Block -> Use]
        /\ [m.pool EXCEPT ![p] = t] \in [Pool -> Seq(Node)]
    BY <1>1, <2>1, <2>2 DEF Use
  <2>5. CacheGot(m, p, b) = [heap |-> [m.heap EXCEPT ![b] = p], pool |-> [m.pool EXCEPT ![p] = t]]
    BY <2>3 DEF Memory
  <2> QED
    BY <2>1, <2>4, <2>5 DEF Memory
<1> QED
  BY <1>2, <1>3

\* cache_back, of anything.
LEMMA CacheBackMemory ==
  ASSUME NEW m \in Memory, NEW p \in Pool, NEW b
  PROVE  CacheBack(m, p, b) \in Memory
BY MarkedIsMemory DEF CacheBack, MarksOnly

\* os_zalloc and os_free.
LEMMA HeapMemory ==
  ASSUME NEW m \in Memory, NEW b, NEW use \in Use
  PROVE  Allocated(m, b, use) \in Memory /\ Freed(m, b) \in Memory
BY DEF Memory, Allocated, Freed, Use

\* The memory after a step is the one the action names.
LEMMA BecomesTyped ==
  ASSUME NEW n \in Memory, Becomes(n)
  PROVE  heap' \in [Block -> Use] /\ pool' \in [Pool -> Seq(Node)]
BY DEF Memory, Becomes

\* The context and the data of an item.
LEMMA ReadMemory ==
  ASSUME NEW m \in Memory
  PROVE  /\ \A c \in CxtRead(m) : c[1] \in Memory /\ c[2] \in Block \cup {NoBlock}
         /\ \A k \in {"none", "bin", "string", "extra"} : \A d \in DataRead(m, k) :
              d[1] \in Memory /\ d[2] \in Block \cup {NoBlock}
<1>1. "extra" \in Pool /\ {"buffer", "text"} \subseteq Use
  BY DEF Pool, Use
<1>2. \A b \in CacheGet(m, "extra") : b \in Block /\ CacheGot(m, "extra", b) \in Memory
  BY <1>1, CacheGotMemory
<1>3. \A b \in Block : Allocated(m, b, "buffer") \in Memory /\ Allocated(m, b, "text") \in Memory
  BY <1>1, HeapMemory
<1>4. \A c \in CxtRead(m) : c[1] \in Memory /\ c[2] \in Block \cup {NoBlock}
  BY <1>2 DEF CxtRead
<1>5. ASSUME NEW k \in {"none", "bin", "string", "extra"}, NEW d \in DataRead(m, k)
      PROVE  d[1] \in Memory /\ d[2] \in Block \cup {NoBlock}
  <2>1. CASE k = "none"
    BY <2>1, <1>5 DEF DataRead
  <2>2. CASE k = "bin"
    BY <1>3, <2>2, <1>5 DEF DataRead
  <2>3. CASE k = "string"
    BY <1>3, <2>3, <1>5 DEF DataRead
  <2>4. CASE k = "extra"
    BY <1>2, <2>4, <1>5 DEF DataRead
  <2> QED
    BY <2>1, <2>2, <2>3, <2>4
<1> QED
  BY <1>4, <1>5

(* The types of the variables but for the memory.                           *)
RestTyped ==
  /\ held \in [Role -> Block \cup {NoBlock}]
  /\ lost \subseteq Block
  /\ phase \in {"waiting", "handling", "dispatching", "handled", "broken"}
  /\ payload \in {"none", "owned", "freed"}
  /\ kind \in {"none", "bin", "string", "extra"}
  /\ late \in BOOLEAN

\* Every step keeps every type.
LEMMA NextTyped ==
  ASSUME PoolsTyped, [PoolsNext]_poolsVars
  PROVE  PoolsTyped'
<1>0. /\ memory \in Memory /\ RestTyped
      /\ Pool = {"message", "item", "extra"}
      /\ {"received", "event", "cxt", "data", "reply"} \subseteq Role /\ Caller \subseteq Role
  BY DEF PoolsTyped, memory, Memory, Pool, Role, Holder, RestTyped
<1>g. \A p \in Pool : \A b \in CacheGet(memory, p) : b \in Block /\ CacheGot(memory, p, b) \in Memory
  BY <1>0, CacheGotMemory
<1>b. \A p \in Pool : \A b : CacheBack(memory, p, b) \in Memory
  BY <1>0, CacheBackMemory
<1>t. ASSUME NEW n \in Memory, Becomes(n), RestTyped'
      PROVE  PoolsTyped'
  BY <1>t, BecomesTyped DEF PoolsTyped, RestTyped
<1>s. ASSUME UNCHANGED <<heap, pool>>, RestTyped'
      PROVE  PoolsTyped'
  BY <1>s DEF PoolsTyped, RestTyped
<1>1. CASE UNCHANGED poolsVars \/ HandlePlain \/ FreeBreaks \/ OutOfMemory
  <2>1. RestTyped'
    BY <1>0, <1>1 DEF RestTyped, poolsVars, HandlePlain, FreeBreaks, OutOfMemory
  <2> QED
    BY <1>1, <1>s, <2>1 DEF poolsVars, HandlePlain, FreeBreaks, OutOfMemory
<1>2. CASE Receive
  <2>1. PICK b \in CacheGet(memory, "message"), q \in {"none", "owned"} :
          /\ Becomes(CacheGot(memory, "message", b))
          /\ held' = [held EXCEPT !["received"] = b]
          /\ payload' = q
    BY <1>2 DEF Receive
  <2>2. RestTyped'
    BY <1>0, <1>2, <1>g, <2>1 DEF RestTyped, Receive
  <2> QED
    BY <1>0, <1>g, <1>t, <2>1, <2>2
<1>3. CASE DecodeFails
  <2>1. PICK b \in CacheGet(memory, "message") :
          Becomes(Freed(CacheGot(memory, "message", b), b))
    BY <1>3 DEF DecodeFails
  <2>2. Freed(CacheGot(memory, "message", b), b) \in Memory
    BY <1>0, <1>g, HeapMemory DEF Use
  <2>3. RestTyped'
    BY <1>0, <1>3 DEF RestTyped, DecodeFails
  <2> QED
    BY <1>t, <2>1, <2>2, <2>3
<1>4. CASE ReleaseUnawaited
  <2>1. RestTyped'
    BY <1>0, <1>4 DEF RestTyped, ReleaseUnawaited
  <2> QED
    BY <1>0, <1>4, <1>b, <1>t, <2>1 DEF ReleaseUnawaited
<1>5. CASE ParseItem
  <2>1. PICK k \in DataKinds, b \in CacheGet(memory, "item") :
          \E c \in CxtRead(CacheGot(memory, "item", b)) :
            \E d \in DataRead(c[1], k) :
              /\ Becomes(d[1])
              /\ held' = [held EXCEPT !["event"] = b, !["cxt"] = c[2], !["data"] = d[2]]
              /\ kind' = k
    BY <1>5 DEF ParseItem
  <2>2. PICK c \in CxtRead(CacheGot(memory, "item", b)) :
          \E d \in DataRead(c[1], k) :
            /\ Becomes(d[1])
            /\ held' = [held EXCEPT !["event"] = b, !["cxt"] = c[2], !["data"] = d[2]]
            /\ kind' = k
    BY <2>1
  <2>3. PICK d \in DataRead(c[1], k) :
            /\ Becomes(d[1])
            /\ held' = [held EXCEPT !["event"] = b, !["cxt"] = c[2], !["data"] = d[2]]
            /\ kind' = k
    BY <2>2
  <2>4. b \in Block /\ c[1] \in Memory /\ c[2] \in Block \cup {NoBlock}
    BY <1>0, <1>g, <2>1, ReadMemory
  <2>5. k \in {"none", "bin", "string", "extra"}
    BY PoolsAssumption
  <2>6. d[1] \in Memory /\ d[2] \in Block \cup {NoBlock}
    BY <2>4, <2>5, ReadMemory
  <2>7. RestTyped'
    BY <1>0, <1>5, <2>3, <2>4, <2>5, <2>6 DEF RestTyped, ParseItem
  <2> QED
    BY <1>t, <2>3, <2>6, <2>7
<1>6. CASE ParseFails
  <2>1. PICK b \in CacheGet(memory, "item") :
          Becomes(CacheGot(memory, "item", b)) /\ lost' = lost \cup {b}
    BY <1>6 DEF ParseFails
  <2>2. RestTyped'
    BY <1>0, <1>6, <1>g, <2>1 DEF RestTyped, ParseFails
  <2> QED
    BY <1>0, <1>g, <1>t, <2>1, <2>2
<1>7. CASE ReplyBegins
  <2>1. PICK b \in CacheGet(memory, "item") :
          Becomes(CacheGot(memory, "item", b)) /\ held' = [held EXCEPT !["reply"] = b]
    BY <1>7 DEF ReplyBegins
  <2>2. RestTyped'
    BY <1>0, <1>7, <1>g, <2>1 DEF RestTyped, ReplyBegins
  <2> QED
    BY <1>0, <1>g, <1>t, <2>1, <2>2
<1>8. CASE ReplyEnds
  <2>1. RestTyped'
    BY <1>0, <1>8 DEF RestTyped, ReplyEnds
  <2> QED
    BY <1>0, <1>8, <1>b, <1>t, <2>1 DEF ReplyEnds
<1>9. CASE ReleaseItem
  <2> DEFINE m1 == IF held["data"] = NoBlock THEN memory ELSE Freed(memory, held["data"])
             m2 == IF held["cxt"] = NoBlock THEN m1 ELSE CacheBack(m1, "extra", held["cxt"])
             m3 == CacheBack(m2, "item", held["event"])
  <2>1. m1 \in Memory
    BY <1>0, HeapMemory DEF Use
  <2>2. m2 \in Memory
    <3> HIDE DEF m1
    <3> QED
      BY <1>0, <2>1, CacheBackMemory
  <2>3. m3 \in Memory
    <3> HIDE DEF m2
    <3> QED
      BY <1>0, <2>2, CacheBackMemory
  <2>4. Becomes(m3)
    BY <1>9 DEF ReleaseItem
  <2>5. RestTyped'
    BY <1>0, <1>9 DEF RestTyped, ReleaseItem
  <2> HIDE DEF m3
  <2> QED
    BY <1>t, <2>3, <2>4, <2>5
<1>10. CASE FreeReceived
  <2>1. Freed(memory, held["received"]) \in Memory
    BY <1>0, HeapMemory DEF Use
  <2>2. RestTyped'
    BY <1>0, <1>10 DEF RestTyped, FreeReceived
  <2> QED
    BY <1>10, <1>t, <2>1, <2>2 DEF FreeReceived
<1>11. ASSUME NEW c \in Caller, RequestBegins(c) \/ RequestEnds(c) \/ RequestForgotten(c)
       PROVE  PoolsTyped'
  <2>1. CASE RequestBegins(c)
    <3>1. PICK b \in CacheGet(memory, "message") :
            Becomes(CacheGot(memory, "message", b)) /\ held' = [held EXCEPT ![c] = b]
      BY <2>1 DEF RequestBegins
    <3>2. RestTyped'
      BY <1>0, <1>g, <2>1, <3>1 DEF RestTyped, RequestBegins
    <3> QED
      BY <1>0, <1>g, <1>t, <3>1, <3>2
  <2>2. CASE RequestEnds(c)
    <3>1. RestTyped'
      BY <1>0, <2>2 DEF RestTyped, RequestEnds
    <3> QED
      BY <1>0, <1>b, <1>t, <2>2, <3>1 DEF RequestEnds
  <2>3. CASE RequestForgotten(c)
    <3>1. RestTyped'
      BY <1>0, <2>3 DEF RestTyped, RequestForgotten
    <3> QED
      BY <1>s, <2>3, <3>1 DEF RequestForgotten
  <2> QED
    BY <1>11, <2>1, <2>2, <2>3
<1>12. ASSUME NEW b \in Block, OtherAllocates(b) \/ OtherFrees(b)
       PROVE  PoolsTyped'
  <2>1. PICK n \in Memory : Becomes(n)
    BY <1>0, <1>12, HeapMemory DEF OtherAllocates, OtherFrees, Use
  <2>2. RestTyped'
    BY <1>0, <1>12 DEF RestTyped, OtherAllocates, OtherFrees
  <2> QED
    BY <1>t, <2>1, <2>2
<1> QED
  BY <1>1, <1>2, <1>3, <1>4, <1>5, <1>6, <1>7, <1>8, <1>9, <1>10, <1>11, <1>12 DEF PoolsNext

\* Whatever arrives, every variable of ObjectPools keeps its type: no node
\* ever loses its object.
THEOREM PoolsTypeOK == PoolsSpec => []PoolsTyped
<1>1. ASSUME PoolsInit PROVE PoolsTyped
  <2>1. pool \in [Pool -> Seq(Node)]
    BY <1>1 DEF PoolsInit
  <2>2. heap \in [Block -> Use]
    BY <1>1 DEF PoolsInit, Use
  <2> QED
    BY <1>1, <2>1, <2>2 DEF PoolsInit, PoolsTyped
<1> QED
  BY <1>1, NextTyped, PTL DEF PoolsSpec

-----------------------------------------------------------------------------
(* What a path will give back is in the list of its pool.                   *)

Lists(m, p, b) == \E i \in DOMAIN m.pool[p] : m.pool[p][i].item = b
KeepsNodes(m, n) == \A p \in Pool : \A b : Lists(m, p, b) => Lists(n, p, b)
InLists(m, h, k) ==
  \A r \in Role : h[r] # NoBlock /\ (r = "data" => k = "extra") => Lists(m, PoolOf(r), h[r])

\* Marking takes nothing out of a list.
SameItems(m, n) ==
  \A q \in Pool : /\ DOMAIN n.pool[q] = DOMAIN m.pool[q]
                  /\ \A j \in DOMAIN m.pool[q] : n.pool[q][j].item = m.pool[q][j].item
LEMMA MarkedKeepsItems ==
  ASSUME NEW m \in Memory, NEW p \in Pool, NEW S
  PROVE  SameItems(m, Marked(m, p, S, TRUE)) /\ SameItems(m, Marked(m, p, S, FALSE))
<1>1. ASSUME NEW u \in BOOLEAN
      PROVE  SameItems(m, Marked(m, p, S, u))
  <2> DEFINE n == Marked(m, p, S, u)
  <2>1. /\ \A q \in Pool \ {p} : n.pool[q] = m.pool[q]
        /\ DOMAIN n.pool[p] = DOMAIN m.pool[p]
        /\ \A j \in DOMAIN m.pool[p] : n.pool[p][j].item = m.pool[p][j].item
    BY MarkedIsMemory DEF MarksOnly
  <2> HIDE DEF n
  <2>2. SameItems(m, n)
    BY <2>1 DEF SameItems
  <2> QED
    BY <2>2 DEF n
<1> QED
  BY <1>1, Zenon

\* cache_get puts what it returns in the list and takes nothing out.
LEMMA CacheGotLists ==
  ASSUME NEW m \in Memory, NEW p \in Pool, NEW b \in CacheGet(m, p)
  PROVE  Lists(CacheGot(m, p, b), p, b) /\ KeepsNodes(m, CacheGot(m, p, b))
<1> DEFINE n == CacheGot(m, p, b)
<1>1. CASE Idle(m, p) # {}
  <2>1. /\ \A q \in Pool : DOMAIN n.pool[q] = DOMAIN m.pool[q]
        /\ \A q \in Pool : \A j \in DOMAIN m.pool[q] : n.pool[q][j].item = m.pool[q][j].item
    <3>1. n = Marked(m, p, Idle(m, p), TRUE)
      BY <1>1 DEF CacheGot
    <3> HIDE DEF n
    <3>2. SameItems(m, n)
      BY <3>1, MarkedKeepsItems, Zenon
    <3> QED
      BY <3>2 DEF SameItems
  <2>2. PICK i \in DOMAIN m.pool[p] : b = m.pool[p][i].item
    BY <1>1 DEF CacheGet
  <2> HIDE DEF n
  <2> QED
    BY <2>1, <2>2 DEF Lists, KeepsNodes, n
<1>2. CASE Idle(m, p) = {}
  <2> DEFINE x == [item |-> b, used |-> TRUE]
             s == m.pool[p]
             t == <<x>> \o s
  <2>1. x \in Node /\ s \in Seq(Node) /\ x.item = b
    BY CacheGotMemory DEF Memory, Node
  <2>2. /\ n.pool[p] = t
        /\ \A q \in Pool \ {p} : n.pool[q] = m.pool[q]
    BY <1>2 DEF CacheGot, Memory
  <2>3. /\ 1 \in DOMAIN t /\ t[1] = x
        /\ \A i \in DOMAIN s : i + 1 \in DOMAIN t /\ t[i + 1] = s[i]
    <3> HIDE DEF x, s
    <3> QED
      BY <2>1
  <2> HIDE DEF n, t, x
  <2>4. \A c : Lists(m, p, c) => Lists(n, p, c)
    BY <2>2, <2>3 DEF Lists
  <2> QED
    BY <2>1, <2>2, <2>3, <2>4 DEF Lists, KeepsNodes, n
<1> QED
  BY <1>1, <1>2

\* cache_back, os_zalloc and os_free take nothing out either.
LEMMA OthersKeepNodes ==
  ASSUME NEW m \in Memory
  PROVE  /\ \A p \in Pool : \A b : KeepsNodes(m, CacheBack(m, p, b))
         /\ \A b, use : KeepsNodes(m, Allocated(m, b, use)) /\ KeepsNodes(m, Freed(m, b))
         /\ KeepsNodes(m, m)
<1>1. ASSUME NEW p \in Pool, NEW b
      PROVE  KeepsNodes(m, CacheBack(m, p, b))
  <2> DEFINE n == CacheBack(m, p, b)
  <2>1. /\ \A q \in Pool : DOMAIN n.pool[q] = DOMAIN m.pool[q]
        /\ \A q \in Pool : \A j \in DOMAIN m.pool[q] : n.pool[q][j].item = m.pool[q][j].item
    <3>1. n = Marked(m, p, NodesOf(m, p, b), FALSE)
      BY DEF CacheBack
    <3> HIDE DEF n
    <3>2. SameItems(m, n)
      BY <3>1, MarkedKeepsItems, Zenon
    <3> QED
      BY <3>2 DEF SameItems
  <2> HIDE DEF n
  <2> QED
    BY <2>1 DEF Lists, KeepsNodes, n
<1>2. ASSUME NEW b, NEW use
      PROVE  KeepsNodes(m, Allocated(m, b, use)) /\ KeepsNodes(m, Freed(m, b))
  <2>1. Allocated(m, b, use).pool = m.pool /\ Freed(m, b).pool = m.pool
    BY DEF Allocated, Freed, Memory
  <2> QED
    BY <2>1 DEF Lists, KeepsNodes
<1> QED
  BY <1>1, <1>2 DEF KeepsNodes

\* What is read of an item: nothing leaves a list, and extras are in theirs.
LEMMA ReadLists ==
  ASSUME NEW m \in Memory
  PROVE  /\ \A c \in CxtRead(m) :
              KeepsNodes(m, c[1]) /\ (c[2] # NoBlock => Lists(c[1], "extra", c[2]))
         /\ \A k \in {"none", "bin", "string", "extra"} : \A d \in DataRead(m, k) :
              KeepsNodes(m, d[1]) /\ (k = "extra" => Lists(d[1], "extra", d[2]))
<1>1. \A b \in CacheGet(m, "extra") :
        KeepsNodes(m, CacheGot(m, "extra", b)) /\ Lists(CacheGot(m, "extra", b), "extra", b)
  BY CacheGotLists DEF Pool
<1>2. \A c \in CxtRead(m) :
        KeepsNodes(m, c[1]) /\ (c[2] # NoBlock => Lists(c[1], "extra", c[2]))
  BY <1>1, OthersKeepNodes DEF CxtRead
<1>3. ASSUME NEW k \in {"none", "bin", "string", "extra"}, NEW d \in DataRead(m, k)
      PROVE  KeepsNodes(m, d[1]) /\ (k = "extra" => Lists(d[1], "extra", d[2]))
  <2>1. CASE k = "none"
    BY <2>1, <1>3, OthersKeepNodes DEF DataRead
  <2>2. CASE k = "bin"
    BY <2>2, <1>3, OthersKeepNodes DEF DataRead
  <2>3. CASE k = "string"
    BY <2>3, <1>3, OthersKeepNodes DEF DataRead
  <2>4. CASE k = "extra"
    BY <2>4, <1>1, <1>3 DEF DataRead
  <2> QED
    BY <2>1, <2>2, <2>3, <2>4
<1> QED
  BY <1>2, <1>3

\* A path that takes an object or gives it up, while no list loses a node.
LEMMA InListsAfter ==
  ASSUME NEW m, NEW n, NEW h \in [Role -> Block \cup {NoBlock}], NEW k,
         InLists(m, h, k), KeepsNodes(m, n)
  PROVE  /\ InLists(n, h, k)
         /\ \A r \in Role \ {"data"} : \A b :
              b # NoBlock /\ Lists(n, PoolOf(r), b) => InLists(n, [h EXCEPT ![r] = b], k)
         /\ \A r \in Role : InLists(n, [h EXCEPT ![r] = NoBlock], k)
<1>1. \A r \in Role : PoolOf(r) \in Pool
  BY DEF PoolOf, Pool
<1>2. InLists(n, h, k)
  BY <1>1 DEF InLists, KeepsNodes
<1>3. ASSUME NEW r \in Role, NEW b, b = NoBlock \/ Lists(n, PoolOf(r), b)
      PROVE  InLists(n, [h EXCEPT ![r] = b], k)
  <2> SUFFICES ASSUME NEW s \in Role, [h EXCEPT ![r] = b][s] # NoBlock,
                      s = "data" => k = "extra"
               PROVE  Lists(n, PoolOf(s), [h EXCEPT ![r] = b][s])
    BY DEF InLists
  <2>1. CASE s = r
    BY <1>3, <2>1
  <2>2. CASE s # r
    BY <1>2, <2>2 DEF InLists
  <2> QED
    BY <2>1, <2>2
<1> QED
  BY <1>2, <1>3

\* Every step keeps what is held in the lists.
LEMMA NextInLists ==
  ASSUME PoolsTyped, PoolsTyped', InLists(memory, held, kind), [PoolsNext]_poolsVars
  PROVE  InLists(memory', held', kind')
<1>0. /\ memory \in Memory
      /\ held \in [Role -> Block \cup {NoBlock}]
      /\ Pool = {"message", "item", "extra"}
      /\ {"received", "event", "cxt", "data", "reply"} \subseteq Role /\ Caller \subseteq Role
      /\ \A c \in Caller : c \notin {"received", "event", "cxt", "data", "reply"}
      /\ NoBlock \notin Block
  BY PoolsAssumption DEF PoolsTyped, memory, Memory, Pool, Role, Holder
<1>g. \A p \in Pool : \A b \in CacheGet(memory, p) :
        /\ b \in Block /\ b # NoBlock
        /\ CacheGot(memory, p, b) \in Memory
        /\ KeepsNodes(memory, CacheGot(memory, p, b))
        /\ Lists(CacheGot(memory, p, b), p, b)
  BY <1>0, CacheGotMemory, CacheGotLists
<1>b. \A n \in Memory : \A p \in Pool : \A b :
        CacheBack(n, p, b) \in Memory /\ KeepsNodes(n, CacheBack(n, p, b))
  BY CacheBackMemory, OthersKeepNodes
<1>f. \A n \in Memory : \A b :
        /\ Freed(n, b) \in Memory /\ KeepsNodes(n, Freed(n, b))
        /\ KeepsNodes(n, Allocated(n, b, "other")) /\ Allocated(n, b, "other") \in Memory
  BY OthersKeepNodes, HeapMemory DEF Use
<1>k. \A l, m, n : KeepsNodes(l, m) /\ KeepsNodes(m, n) => KeepsNodes(l, n)
  BY DEF KeepsNodes
<1>m. \A n : n \in Memory /\ Becomes(n) => memory' = n
  BY DEF Memory, Becomes, memory
<1>1. CASE UNCHANGED <<heap, pool, held, kind>>
  BY <1>1 DEF memory
<1>2. ASSUME NEW n \in Memory, Becomes(n), KeepsNodes(memory, n),
             UNCHANGED <<held, kind>>
      PROVE  InLists(memory', held', kind')
  <2>1. memory' = n
    BY <1>2, <1>m
  <2> QED
    BY <1>0, <1>2, <2>1, InListsAfter
<1>3. ASSUME NEW n \in Memory, Becomes(n), KeepsNodes(memory, n), NEW r \in Role \ {"data"},
             NEW b, b # NoBlock, Lists(n, PoolOf(r), b),
             held' = [held EXCEPT ![r] = b], UNCHANGED kind
      PROVE  InLists(memory', held', kind')
  <2>1. memory' = n
    BY <1>3, <1>m
  <2> QED
    BY <1>0, <1>3, <2>1, InListsAfter
<1>4. ASSUME NEW n \in Memory, Becomes(n), KeepsNodes(memory, n), NEW r \in Role,
             held' = [held EXCEPT ![r] = NoBlock], UNCHANGED kind
      PROVE  InLists(memory', held', kind')
  <2>1. memory' = n
    BY <1>4, <1>m
  <2> QED
    BY <1>0, <1>4, <2>1, InListsAfter
<1>5. CASE Receive
  <2>1. PICK b \in CacheGet(memory, "message") :
          /\ Becomes(CacheGot(memory, "message", b))
          /\ held' = [held EXCEPT !["received"] = b]
    BY <1>5 DEF Receive
  <2>2. PoolOf("received") = "message" /\ UNCHANGED kind
    BY <1>5 DEF PoolOf, Receive
  <2> QED
    BY <1>0, <1>3, <1>g, <2>1, <2>2
<1>6. CASE DecodeFails
  <2>1. PICK b \in CacheGet(memory, "message") :
          Becomes(Freed(CacheGot(memory, "message", b), b))
    BY <1>6 DEF DecodeFails
  <2>2. UNCHANGED <<held, kind>>
    BY <1>6 DEF DecodeFails
  <2> QED
    BY <1>0, <1>2, <1>f, <1>g, <1>k, <2>1, <2>2
<1>7. CASE ReleaseUnawaited
  BY <1>0, <1>2, <1>7, <1>b DEF ReleaseUnawaited
<1>8. CASE ParseItem
  <2>1. PICK k \in DataKinds, b \in CacheGet(memory, "item") :
          \E c \in CxtRead(CacheGot(memory, "item", b)) :
            \E d \in DataRead(c[1], k) :
              /\ Becomes(d[1])
              /\ held' = [held EXCEPT !["event"] = b, !["cxt"] = c[2], !["data"] = d[2]]
              /\ kind' = k
    BY <1>8 DEF ParseItem
  <2>a. PICK c \in CxtRead(CacheGot(memory, "item", b)) :
          \E d \in DataRead(c[1], k) :
            /\ Becomes(d[1])
            /\ held' = [held EXCEPT !["event"] = b, !["cxt"] = c[2], !["data"] = d[2]]
            /\ kind' = k
    BY <2>1
  <2>2. PICK d \in DataRead(c[1], k) :
          /\ Becomes(d[1])
          /\ held' = [held EXCEPT !["event"] = b, !["cxt"] = c[2], !["data"] = d[2]]
          /\ kind' = k
    BY <2>a
  <2>3. k \in {"none", "bin", "string", "extra"}
    BY PoolsAssumption
  <2> DEFINE n == CacheGot(memory, "item", b)
  <2>4. n \in Memory /\ KeepsNodes(memory, n) /\ Lists(n, "item", b) /\ b # NoBlock
    BY <1>0, <1>g
  <2> HIDE DEF n
  <2>5. /\ c[1] \in Memory /\ KeepsNodes(n, c[1])
        /\ c[2] # NoBlock => Lists(c[1], "extra", c[2])
    BY <2>4, ReadMemory, ReadLists DEF n
  <2>6. /\ d[1] \in Memory /\ KeepsNodes(c[1], d[1])
        /\ k = "extra" => Lists(d[1], "extra", d[2])
    BY <2>3, <2>5, ReadMemory, ReadLists
  <2>7. /\ Lists(d[1], "item", b)
        /\ c[2] # NoBlock => Lists(d[1], "extra", c[2])
        /\ KeepsNodes(memory, d[1])
    BY <1>0, <1>k, <2>4, <2>5, <2>6 DEF KeepsNodes
  <2>8. memory' = d[1]
    BY <1>m, <2>2, <2>6
  <2>9. /\ held'["event"] = b /\ held'["cxt"] = c[2] /\ held'["data"] = d[2]
        /\ \A r \in Role \ {"event", "cxt", "data"} : held'[r] = held[r]
    BY <1>0, <2>2
  <2>10. /\ PoolOf("event") = "item" /\ PoolOf("cxt") = "extra" /\ PoolOf("data") = "extra"
         /\ \A r \in Role : PoolOf(r) \in Pool
    BY <1>0 DEF PoolOf
  <2>11. ASSUME NEW r \in Role, held'[r] # NoBlock, r = "data" => k = "extra"
         PROVE  Lists(d[1], PoolOf(r), held'[r])
    <3>1. CASE r \in {"event", "cxt", "data"}
      BY <2>6, <2>7, <2>9, <2>10, <2>11, <3>1
    <3>2. CASE r \notin {"event", "cxt", "data"}
      BY <2>7, <2>9, <2>10, <2>11, <3>2 DEF InLists, KeepsNodes
    <3> QED
      BY <3>1, <3>2
  <2> QED
    BY <2>2, <2>8, <2>11 DEF InLists
<1>9. CASE ParseFails
  <2>1. PICK b \in CacheGet(memory, "item") : Becomes(CacheGot(memory, "item", b))
    BY <1>9 DEF ParseFails
  <2>2. UNCHANGED <<held, kind>>
    BY <1>9 DEF ParseFails
  <2> QED
    BY <1>0, <1>2, <1>g, <2>1, <2>2
<1>10. CASE ReplyBegins
  <2>1. PICK b \in CacheGet(memory, "item") :
          Becomes(CacheGot(memory, "item", b)) /\ held' = [held EXCEPT !["reply"] = b]
    BY <1>10 DEF ReplyBegins
  <2>2. PoolOf("reply") = "item" /\ UNCHANGED kind
    BY <1>10 DEF PoolOf, ReplyBegins
  <2> QED
    BY <1>0, <1>3, <1>g, <2>1, <2>2
<1>11. CASE ReplyEnds
  BY <1>0, <1>4, <1>11, <1>b DEF ReplyEnds
<1>12. CASE ReleaseItem
  <2> DEFINE m1 == IF held["data"] = NoBlock THEN memory ELSE Freed(memory, held["data"])
             m2 == IF held["cxt"] = NoBlock THEN m1 ELSE CacheBack(m1, "extra", held["cxt"])
             m3 == CacheBack(m2, "item", held["event"])
  <2>1. m1 \in Memory /\ KeepsNodes(memory, m1)
    BY <1>0, <1>f, OthersKeepNodes
  <2>2. m2 \in Memory /\ KeepsNodes(m1, m2)
    <3> HIDE DEF m1
    <3> QED
      BY <1>0, <1>b, <2>1, OthersKeepNodes
  <2>3. m3 \in Memory /\ KeepsNodes(m2, m3)
    <3> HIDE DEF m2
    <3> QED
      BY <1>0, <1>b, <2>2
  <2>4. Becomes(m3)
    BY <1>12 DEF ReleaseItem
  <2> HIDE DEF m1, m2, m3
  <2>5. KeepsNodes(memory, m3) /\ memory' = m3
    BY <1>k, <1>m, <2>1, <2>2, <2>3, <2>4
  <2>6. /\ held'["event"] = NoBlock /\ held'["cxt"] = NoBlock /\ held'["data"] = NoBlock
        /\ \A r \in Role \ {"event", "cxt", "data"} : held'[r] = held[r]
    BY <1>0, <1>12 DEF ReleaseItem
  <2>7. \A r \in Role : PoolOf(r) \in Pool
    BY <1>0 DEF PoolOf
  <2> QED
    BY <2>5, <2>6, <2>7 DEF InLists, KeepsNodes
<1>13. CASE FreeReceived
  BY <1>0, <1>4, <1>13, <1>f DEF FreeReceived
<1>14. ASSUME NEW c \in Caller, RequestBegins(c) \/ RequestEnds(c) \/ RequestForgotten(c)
       PROVE  InLists(memory', held', kind')
  <2>0. PoolOf(c) = "message" /\ c \in Role \ {"data"}
    BY <1>0 DEF PoolOf
  <2>1. CASE RequestBegins(c)
    <3>1. PICK b \in CacheGet(memory, "message") :
            Becomes(CacheGot(memory, "message", b)) /\ held' = [held EXCEPT ![c] = b]
      BY <2>1 DEF RequestBegins
    <3>2. UNCHANGED kind
      BY <2>1 DEF RequestBegins
    <3> QED
      BY <1>0, <1>3, <1>g, <2>0, <3>1, <3>2
  <2>2. CASE RequestEnds(c)
    BY <1>0, <1>4, <1>b, <2>0, <2>2 DEF RequestEnds
  <2>3. CASE RequestForgotten(c)
    <3>1. memory' = memory /\ UNCHANGED kind /\ held' = [held EXCEPT ![c] = NoBlock]
      BY <2>3 DEF RequestForgotten, memory
    <3> QED
      BY <1>0, <2>0, <3>1, OthersKeepNodes, InListsAfter
  <2> QED
    BY <1>14, <2>1, <2>2, <2>3
<1>15. ASSUME NEW b \in Block, OtherAllocates(b) \/ OtherFrees(b)
       PROVE  InLists(memory', held', kind')
  BY <1>0, <1>2, <1>15, <1>f DEF OtherAllocates, OtherFrees
<1> QED
  BY <1>1, <1>5, <1>6, <1>7, <1>8, <1>9, <1>10, <1>11, <1>12, <1>13, <1>14, <1>15
     DEF PoolsNext, poolsVars, HandlePlain, FreeBreaks, OutOfMemory

\* Whatever arrives, and even after memory was released twice: what a path
\* will give back is in the list of its pool, so that cache_back finds it.
THEOREM PoolsBackFindsIt == PoolsSpec => []BackFindsIt
<1>1. PoolsInit => InLists(memory, held, kind)
  BY DEF PoolsInit, InLists
<1>2. PoolsTyped /\ PoolsTyped' /\ InLists(memory, held, kind) /\ [PoolsNext]_poolsVars
        => InLists(memory, held, kind)'
  BY NextInLists
<1>3. InLists(memory, held, kind) => BackFindsIt
  BY DEF InLists, Lists, BackFindsIt, memory
<1> QED
  BY <1>1, <1>2, <1>3, PoolsTypeOK, PTL DEF PoolsSpec

=============================================================================
