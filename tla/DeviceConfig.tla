---------------------------- MODULE DeviceConfig ----------------------------
(***************************************************************************)
(* The one remote function that ctrl_init registers, bindDeviceId of       *)
(* jm_ctrl.c: it reads and changes the account and the device id that      *)
(* client_login is called with, in memory (sysCfg) and, on the device, in  *)
(* flash (cfg_save, which is external), and then answers.  The device may  *)
(* restart between any two of these and then loads what was saved; what    *)
(* happens in memory before cfg_save is one step, because a restart undoes *)
(* all of it.  Of a device id only its length matters, and that it is      *)
(* another one.                                                            *)
(***************************************************************************)
EXTENDS Integers

CONSTANTS
  DeviceId,   \* device ids that requests carry
  NoDevice,   \* an empty device id, or none
  Length,     \* the length of each of them
  Account     \* account ids that requests carry

ASSUME ConfigAssumption ==
  /\ NoDevice \notin DeviceId
  /\ Length \in [DeviceId -> 1 .. 255]
  /\ Account \subseteq Int

VARIABLES
  sysCfg,     \* the configuration in memory
  flash,      \* the configuration that was saved
  at,         \* where the function is: idle, saving, answering
  request,    \* the request it has in hand, or the last
  answer,     \* its answer: the code, and whether it names an error
  given,      \* the valid pairs of device and account that a request gave together
  acked,      \* what the last request asked for that was answered without an error
  unanswered  \* what requests asked for since that a restart left unanswered

configVars == <<sysCfg, flash, at, request, answer, given, acked, unanswered>>

Config == [device : DeviceId \cup {NoDevice}, actId : Account \cup {0}]
Unbound == [device |-> NoDevice, actId |-> 0]

\* RESP_OP_QRY, RESP_OP_ADD, RESP_OP_DEL, RESP_OP_UP, and one that is no code.
Op == 0 .. 4
BindRequest == [op : Op, device : DeviceId \cup {NoDevice}, actId : Account \cup {0}]

GoodDevice(d) == d \in DeviceId /\ Length[d] > 6 /\ Length[d] < 16

ConfigInit ==
  /\ sysCfg = Unbound /\ flash = Unbound
  /\ at = "idle"
  /\ request = [op |-> 0, device |-> NoDevice, actId |-> 0]
  /\ answer = [code |-> 0, error |-> FALSE]
  /\ given = {Unbound}
  /\ acked = Unbound
  /\ unanswered = {}

-----------------------------------------------------------------------------
(* _ctrl_remote_bindDevice                                                 *)

Received(r) == at = "idle" /\ request' = r

Answered(code, error) ==
  /\ answer' = [code |-> code, error |-> error]
  /\ at' = "answering"

Gives(r) ==
  given' = given \cup (IF GoodDevice(r.device) /\ r.actId > 0
                       THEN {[device |-> r.device, actId |-> r.actId]} ELSE {})

Query(r) ==
  /\ r.op = 0
  /\ Received(r)
  /\ Answered(0, FALSE)
  /\ UNCHANGED <<sysCfg, flash, given, acked, unanswered>>

\* The device id is taken over before the account is looked at.
BindSavesEarly(r) ==                   \* deviation: saved once the device is in
  /\ r.op = 3
  /\ Received(r)
  /\ Gives(r)
  /\ GoodDevice(r.device)
  /\ sysCfg' = [sysCfg EXCEPT !.device = r.device]
  /\ flash' = sysCfg'
  /\ Answered(IF r.actId > 0 THEN 0 ELSE 3, r.actId <= 0)
  /\ UNCHANGED <<acked, unanswered>>
Bind(r) ==
  /\ r.op = 3
  /\ r.device # NoDevice
  /\ Received(r)
  /\ Gives(r)
  /\ \/ /\ ~GoodDevice(r.device)
        /\ Answered(2, TRUE)
        /\ UNCHANGED sysCfg
     \/ /\ GoodDevice(r.device) /\ r.actId <= 0
        /\ sysCfg' = [sysCfg EXCEPT !.device = r.device]
        /\ Answered(3, TRUE)
     \/ /\ GoodDevice(r.device) /\ r.actId > 0
        /\ sysCfg' = [device |-> r.device, actId |-> r.actId]
        /\ at' = "saving" /\ UNCHANGED answer
  /\ UNCHANGED <<flash, acked, unanswered>>

\* To unbind is refused when no account is bound, in memory.
UnbindKeepsDevice(r) ==                \* deviation: the device id is not cleared
  /\ r.op = 2
  /\ Received(r)
  /\ sysCfg.actId > 0
  /\ sysCfg' = [sysCfg EXCEPT !.actId = 0]
  /\ at' = "saving"
  /\ UNCHANGED <<flash, answer, given, acked, unanswered>>
Unbind(r) ==
  /\ r.op = 2
  /\ Received(r)
  /\ \/ /\ sysCfg.actId <= 0
        /\ Answered(1, TRUE)
        /\ UNCHANGED sysCfg
     \/ /\ sysCfg.actId > 0
        /\ sysCfg' = Unbound
        /\ at' = "saving" /\ UNCHANGED answer
  /\ UNCHANGED <<flash, given, acked, unanswered>>

\* Every other code gets a message that says so, under the code 0.
InvalidOpCode(r) ==
  /\ r.op \in {1, 4}
  /\ Received(r)
  /\ Answered(0, TRUE)
  /\ UNCHANGED <<sysCfg, flash, given, acked, unanswered>>

\* cfg_save, which writes the whole of sysCfg.
Save ==
  /\ at = "saving"
  /\ flash' = sysCfg
  /\ Answered(0, FALSE)
  /\ UNCHANGED <<sysCfg, request, given, acked, unanswered>>

\* What a request to bind or to unbind asks for, and whether the one in hand
\* has been accepted.
Wanted(r) == IF r.op = 2 THEN Unbound ELSE [device |-> r.device, actId |-> r.actId]
Accepted ==
  /\ request.op \in {2, 3}
  /\ at = "saving" \/ (at = "answering" /\ ~answer.error)
Underway == IF Accepted THEN {Wanted(request)} ELSE {}

\* The function returns and _ctrl_respExtra answers.
Respond ==
  /\ at = "answering"
  /\ at' = "idle"
  /\ acked' = (IF Accepted THEN Wanted(request) ELSE acked)
  /\ unanswered' = (IF Accepted THEN {} ELSE unanswered)
  /\ UNCHANGED <<sysCfg, flash, request, answer, given>>

\* A restart.  A request to bind without a device id makes one: os_strlen reads
\* at address 0.
Restart ==
  /\ sysCfg' = flash
  /\ at' = "idle"
  /\ unanswered' = unanswered \cup Underway
  /\ UNCHANGED <<flash, request, answer, given, acked>>

ConfigNext ==
  \/ \E r \in BindRequest : Query(r)
  \/ \E r \in BindRequest : Bind(r)
  \/ \E r \in BindRequest : Unbind(r)
  \/ \E r \in BindRequest : InvalidOpCode(r)
  \/ Save \/ Respond \/ Restart

ConfigSpec == ConfigInit /\ [][ConfigNext]_configVars

-----------------------------------------------------------------------------
\* Every variable has its type.
ConfigTyped ==
  /\ sysCfg \in Config
  /\ flash \in Config
  /\ at \in {"idle", "saving", "answering"}
  /\ request \in BindRequest
  /\ answer \in [code : 0 .. 3, error : BOOLEAN]
  /\ given \subseteq Config
  /\ acked \in Config
  /\ unanswered \subseteq Config

\* What is saved, and what the device logs in with after a restart, is a device
\* and an account that one request gave together, although a request that is
\* refused for its account leaves its device id in sysCfg.
SavedTogether == flash \in given

\* What the device has after a restart at any time (jm_ctrl.c:514-597) is what
\* the last request asked for that was answered without an error, or one that
\* was accepted since and whose answer a restart took: a request that is
\* refused never gets to the flash, at once or with a later one.
AckedIsSaved == flash \in {acked} \cup unanswered \cup Underway

=============================================================================
