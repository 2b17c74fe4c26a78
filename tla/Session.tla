------------------------------ MODULE Session ------------------------------
(***************************************************************************)
(* The login session of src/src/jm_client.c: client_login and its answer   *)
(* _c_loginResult, client_logout, client_init, the login listeners, the    *)
(* timer client_main_timer with its heartbeat, and client_socketConedCb.   *)
(*                                                                         *)
(* A request reaches _c_loginResult at most once (CallbackContract of      *)
(* RpcWait), at any time or never, in any order.  Handlers run to          *)
(* completion, except that _c_loginResult runs the listeners, and a        *)
(* listener may call the client.  Times are ages in ticks, counted up to   *)
(* Interval, the 30000 ms that both client_login and _c_sendHearbeet wait. *)
(***************************************************************************)
EXTENDS Integers, FiniteSets

CONSTANTS
  Accounts,     \* the account ids the program logs in with
  NoAccount,    \* 0
  Configured,   \* sysCfg.actId, the account jm_checkLoginStatus logs in with
  Listeners,    \* login listener functions
  SubListener,  \* _c_subTopicAfterjmLogin, registered by client_init
  CtrlListener, \* _ctrl_jmLoginListener, registered by ctrl_init
  NULL,         \* an empty slot of loginLises
  LLSIZE,       \* slots of loginLises
  Interval,     \* 30000 ms in ticks
  MaxInFlight,  \* bound: login requests awaiting an answer
  MaxEvents     \* bound: calls the program or the socket makes of the client

ASSUME AccountsAreNot0 == NoAccount \notin Accounts /\ Configured \in Accounts
ASSUME ListenersAreFunctions ==
  NULL \notin Listeners /\ {SubListener, CtrlListener} \subseteq Listeners
ASSUME SizesAreNat ==
  /\ LLSIZE \in Nat /\ LLSIZE >= 2
  /\ Interval \in Nat \ {0}
  /\ MaxInFlight \in Nat \ {0}
  /\ MaxEvents \in Nat

VARIABLES
  loginCode,  \* loginCode; every code but LSUCCESS and LOGOUT is "failed"
  loginKey,   \* the account loginKey was issued for; NoAccount: NULL
  actId,
  inited,
  loginAge,   \* since lastLoginTime; Interval when that is 0
  atZero,     \* the system clock still reads 0
  activeAge,  \* since lastActiveTime
  heartAge,   \* since lastSendHearbeatTime
  lises,      \* loginLises
  llCnt,
  turn,       \* the slot _c_loginResult looks at next, 0 outside its loop
  inFlight,   \* unanswered login requests of each account
  pinged,     \* a heartbeat awaits its answer
  events,     \* calls made, up to MaxEvents
  (* Kept for the properties.                                              *)
  sinceSent,  \* age of the last login request; Interval if sent at clock 0
  tainted,    \* since the last logout or good answer, a success came for
              \* another account or without a key, or client_init has
              \* changed the account
  owed        \* listeners registered when the loop began, not unregistered
              \* since and not called yet

session == <<loginCode, loginKey>>
request == <<actId, loginAge, inFlight, sinceSent>>
clock == <<activeAge, heartAge, pinged>>
table == <<lises, llCnt>>
loop == <<turn, owed>>
vars == <<loginCode, loginKey, actId, inited, loginAge, atZero, activeAge,
          heartAge, lises, llCnt, turn, inFlight, pinged, events, sinceSent,
          tainted, owed>>

Slots == 1..LLSIZE
LoggedIn == loginCode = "LSUCCESS"             \* client_isLogin

Older(age) == IF age < Interval THEN age + 1 ELSE age

-----------------------------------------------------------------------------
(* client_login                                                            *)

BusyNever == FALSE                        \* deviation: no interval
Busy == loginAge < Interval

HasRoom == \A a \in Accounts : inFlight[a] < MaxInFlight

Sent(aid) ==
  /\ HasRoom
  /\ inFlight' = [inFlight EXCEPT ![aid] = @ + 1]
  /\ sinceSent' = IF atZero THEN Interval ELSE 0
NotSent == UNCHANGED <<inFlight, sinceSent>>

(* lastLoginTime = cur; a time of 0 counts as never.                       *)
Stamp == loginAge' = IF atZero THEN Interval ELSE 0

LoginStampsFirst(aid) ==                  \* deviation: time set before test
  /\ Stamp
  /\ \/ (LoggedIn \/ Busy) /\ UNCHANGED actId /\ NotSent
     \/ ~LoggedIn /\ ~Busy /\ UNCHANGED actId /\ NotSent
     \/ /\ ~LoggedIn /\ ~Busy /\ aid \in Accounts
        /\ actId' = aid
        /\ Sent(aid) \/ NotSent

LoginAccountFirst(aid) ==                 \* deviation: actId set before test
  /\ actId' = aid
  /\ \/ (LoggedIn \/ Busy) /\ UNCHANGED loginAge /\ NotSent
     \/ /\ ~LoggedIn /\ ~Busy /\ aid \in Accounts
        /\ Stamp
        /\ Sent(aid) \/ NotSent

(* Logged in already or too soon; no account or an empty device id (the    *)
(* time is taken all the same); or the request is made.                    *)
Login(aid) ==
  \/ (LoggedIn \/ Busy) /\ UNCHANGED request
  \/ /\ ~LoggedIn /\ ~Busy
     /\ Stamp
     /\ UNCHANGED actId /\ NotSent
  \/ /\ ~LoggedIn /\ ~Busy /\ aid \in Accounts
     /\ Stamp
     /\ actId' = aid
     /\ Sent(aid) \/ NotSent

-----------------------------------------------------------------------------
(* The listener table                                                      *)

Free == {i \in Slots : lises[i] = NULL}
First(S) == CHOOSE i \in S : \A j \in S : i <= j
SlotsOf(fn) == {i \in Slots : lises[i] = fn}

(* client_registLoginListener: the test for a function that is registered  *)
(* already only looks at empty slots.                                      *)
Regist(fn) ==
  IF llCnt = LLSIZE THEN UNCHANGED table
  ELSE /\ llCnt' = llCnt + 1
       /\ lises' = IF Free = {} THEN lises
                   ELSE [lises EXCEPT ![First(Free)] = fn]

UnregistShifts(fn) ==                     \* deviation: the table is packed
  IF SlotsOf(fn) = {} THEN UNCHANGED table
  ELSE LET k == First(SlotsOf(fn))
       IN /\ llCnt' = llCnt - 1
          /\ lises' = [i \in Slots |->
                         IF i < k THEN lises[i]
                         ELSE IF i < LLSIZE THEN lises[i + 1] ELSE NULL]
(* client_unregistLoginListener.                                           *)
Unregist(fn) ==
  IF SlotsOf(fn) = {} THEN UNCHANGED table
  ELSE /\ llCnt' = llCnt - 1
       /\ lises' = [lises EXCEPT ![First(SlotsOf(fn))] = NULL]

-----------------------------------------------------------------------------
(* Calls made by the program, possibly from a login listener, and by the   *)
(* socket.                                                                 *)

Event == events < MaxEvents /\ events' = events + 1

AppLogin(aid) ==
  /\ Event
  /\ Login(aid)
  /\ UNCHANGED <<session, inited, atZero, clock, table, loop, tainted>>

(* client_socketConedCb: client_login tests again that it is not logged in *)
SocketConed ==
  /\ Event
  /\ turn = 0
  /\ Login(actId)
  /\ UNCHANGED <<session, inited, atZero, clock, table, loop, tainted>>

(* client_logout: the time of the last login request stays.                *)
Logout ==
  /\ Event
  /\ loginCode' = "LOGOUT"
  /\ loginKey' = NoAccount
  /\ actId' = NoAccount
  /\ inited' = FALSE
  /\ tainted' = FALSE
  /\ UNCHANGED <<loginAge, inFlight, sinceSent, atZero, clock, table, loop>>

(* client_init: the account given counts only if there was one before.     *)
ClientInit(aid) ==
  /\ Event
  /\ ~inited
  /\ actId' = IF actId # NoAccount THEN aid ELSE actId
  /\ inited' = TRUE
  /\ Regist(SubListener)
  /\ tainted' = (tainted \/ actId' # actId)
  /\ UNCHANGED <<session, loginAge, inFlight, sinceSent, atZero, clock, loop>>

AddListener(fn) ==
  /\ Event
  /\ Regist(fn)
  /\ UNCHANGED <<session, request, inited, atZero, clock, loop, tainted>>

RemoveListener(fn) ==
  /\ Event
  /\ Unregist(fn)
  /\ owed' = owed \ {fn}
  /\ UNCHANGED <<session, request, inited, atZero, clock, turn, tainted>>

-----------------------------------------------------------------------------
(* _c_loginResult: the request of account aid is answered.                 *)

Answered(aid) ==
  /\ turn = 0
  /\ inFlight[aid] > 0
  /\ inFlight' = [inFlight EXCEPT ![aid] = @ - 1]
  /\ activeAge' = 0                       \* client_onMessage
  /\ UNCHANGED <<actId, loginAge, sinceSent, inited, atZero, heartAge, pinged,
                 table, events>>

(* An error code, or an answer with no result in it.                       *)
LoginFails(aid) ==
  /\ Answered(aid)
  /\ loginCode' = "failed"
  /\ UNCHANGED <<loginKey, loop, tainted>>

(* The result has no "data": loginCode is 0 already, and stays so.         *)
LoginWithoutData(aid) ==
  /\ Answered(aid)
  /\ loginCode' = "LSUCCESS"
  /\ tainted' = TRUE
  /\ UNCHANGED <<loginKey, loop>>

(* The data has a key or has none; then the listeners are called in turn.  *)
LoginSucceeds(aid, hasKey) ==
  /\ Answered(aid)
  /\ loginCode' = "LSUCCESS"
  /\ loginKey' = IF hasKey THEN aid ELSE loginKey
  /\ tainted' = (~hasKey \/ aid # actId)
  /\ turn' = IF llCnt > 0 THEN 1 ELSE 0
  /\ owed' = {lises[i] : i \in Slots} \ {NULL}

CallListener ==
  /\ turn # 0
  /\ turn' = IF turn = LLSIZE THEN 0 ELSE turn + 1
  /\ owed' = owed \ {lises[turn]}
  /\ UNCHANGED <<session, request, inited, atZero, clock, table, events,
                 tainted>>

(* The answer to a login request or to a heartbeat never comes.            *)
LoseAnswer(aid) ==
  /\ inFlight[aid] > 0
  /\ inFlight' = [inFlight EXCEPT ![aid] = @ - 1]
  /\ UNCHANGED <<session, actId, loginAge, sinceSent, inited, atZero, clock,
                 table, loop, events, tainted>>
LosePing ==
  /\ pinged
  /\ pinged' = FALSE
  /\ UNCHANGED <<session, request, inited, atZero, activeAge, heartAge, table,
                 loop, events, tainted>>

(* client_onMessage with any other message, a heartbeat's answer included. *)
OtherMessage ==
  /\ turn = 0
  /\ activeAge' = 0
  /\ pinged' \in {pinged, FALSE}
  /\ UNCHANGED <<session, request, inited, atZero, heartAge, table, loop,
                 events, tainted>>

-----------------------------------------------------------------------------
(* client_main_timer                                                       *)

BeatStampsFirst ==                        \* deviation: time set before test
  /\ heartAge' = 0
  /\ pinged' = (pinged \/ (heartAge = Interval /\ activeAge = Interval))
  /\ UNCHANGED activeAge
(* _c_sendHearbeet.                                                        *)
Heartbeat ==
  IF heartAge < Interval \/ activeAge < Interval THEN UNCHANGED clock
  ELSE /\ heartAge' = 0
       /\ pinged' = TRUE
       /\ UNCHANGED activeAge

(* The checks pass and jm_checkLoginStatus logs in; with UDP its result    *)
(* decides whether a heartbeat follows.                                    *)
TimerLogin(beat) ==
  /\ turn = 0
  /\ Login(Configured)
  /\ IF beat THEN Heartbeat ELSE UNCHANGED clock
  /\ UNCHANGED <<session, inited, atZero, table, loop, events, tainted>>

(* TCP, and there is no connection.                                        *)
TimerNoConnection ==
  /\ turn = 0
  /\ Heartbeat
  /\ UNCHANGED <<session, request, inited, atZero, table, loop, events,
                 tainted>>

Tick ==
  /\ atZero' = FALSE
  /\ loginAge' = Older(loginAge)
  /\ sinceSent' = Older(sinceSent)
  /\ activeAge' = Older(activeAge)
  /\ heartAge' = Older(heartAge)
  /\ UNCHANGED <<session, actId, inFlight, inited, pinged, table, loop, events,
                 tainted>>

-----------------------------------------------------------------------------
(* start_jm has called client_init and ctrl_init; the former left actId 0. *)
Init ==
  /\ loginCode = "LOGOUT"
  /\ loginKey = NoAccount
  /\ actId = NoAccount
  /\ inited = TRUE
  /\ loginAge = Interval
  /\ atZero = TRUE
  /\ activeAge = 0
  /\ heartAge = 0
  /\ lises = [i \in Slots |-> CASE i = 1 -> SubListener
                                [] i = 2 -> CtrlListener
                                [] OTHER -> NULL]
  /\ llCnt = 2
  /\ turn = 0
  /\ inFlight = [a \in Accounts |-> 0]
  /\ pinged = FALSE
  /\ events = 0
  /\ sinceSent = Interval
  /\ tainted = FALSE
  /\ owed = {}

Next ==
  \/ \E aid \in Accounts : AppLogin(aid)
  \/ SocketConed
  \/ Logout
  \/ \E aid \in Accounts : ClientInit(aid)
  \/ \E fn \in Listeners : AddListener(fn)
  \/ \E fn \in Listeners : RemoveListener(fn)
  \/ \E aid \in Accounts : LoginFails(aid)
  \/ \E aid \in Accounts : LoginWithoutData(aid)
  \/ \E aid \in Accounts, hasKey \in BOOLEAN : LoginSucceeds(aid, hasKey)
  \/ CallListener
  \/ \E aid \in Accounts : LoseAnswer(aid)
  \/ LosePing
  \/ OtherMessage
  \/ \E beat \in BOOLEAN : TimerLogin(beat)
  \/ TimerNoConnection
  \/ Tick

Spec == Init /\ [][Next]_vars

(* The clock runs, the timer fires with its checks passing (every three    *)
(* seconds in start_timer_wrapper), listeners return; a sender that is     *)
(* tried again and again succeeds, and so does a login.                    *)
TimerSends == TimerLogin(TRUE) /\ inFlight' # inFlight
Fairness ==
  /\ WF_vars(Tick)
  /\ WF_vars(TimerLogin(TRUE))
  /\ WF_vars(CallListener)
  /\ SF_vars(TimerSends)
  /\ SF_vars(\E aid \in Accounts : LoginSucceeds(aid, TRUE))

FairSpec == Spec /\ Fairness

-----------------------------------------------------------------------------
(* Properties                                                              *)

(* Every variable has its type; the count of listeners stays in the table. *)
TypeOK ==
  /\ loginCode \in {"LSUCCESS", "LOGOUT", "failed"}
  /\ loginKey \in Accounts \cup {NoAccount}
  /\ actId \in Accounts \cup {NoAccount}
  /\ {inited, atZero, pinged, tainted} \subseteq BOOLEAN
  /\ {loginAge, activeAge, heartAge, sinceSent} \subseteq 0..Interval
  /\ lises \in [Slots -> Listeners \cup {NULL}]
  /\ llCnt \in 0..LLSIZE
  /\ turn \in 0..LLSIZE
  /\ inFlight \in [Accounts -> 0..MaxInFlight]
  /\ events \in 0..MaxEvents
  /\ owed \subseteq Listeners

(* Whoever calls client_login (timer, socket or program), and whatever     *)
(* fails in between, logout included, two login requests are an Interval   *)
(* apart; the exception is a request made while the clock read 0.          *)
LoginSpacing ==
  [][\A a \in Accounts :
       inFlight'[a] > inFlight[a] => sinceSent = Interval]_vars

(* A client that is logged in holds the key of the account it reports,     *)
(* unless its latest successful answer was late, for an account since      *)
(* given up, or carried no key, or client_init was called meanwhile with   *)
(* another account.                                                        *)
KeyOfAccount == LoggedIn /\ ~tainted => loginKey = actId

(* A good login answer reaches every listener that was registered when it  *)
(* came and not removed before its turn, although listeners add and remove *)
(* listeners while they are being called.                                  *)
ListenersHeard == turn = 0 => owed = {}

(* Once the program and the socket are quiet, a timer that fires again and *)
(* again gets the client logged in again and again: no refused, lost or    *)
(* late request keeps it out for ever.                                     *)
LoginRegained == []<>LoggedIn

(* A connection that is silent for an Interval is pinged, whatever the     *)
(* state of the login and however many pings were lost.                    *)
IdleIsPinged == activeAge = Interval ~> (pinged \/ activeAge < Interval)

=============================================================================
