---------------------------- MODULE SuplaDevice ----------------------------
(***************************************************************************)
(* SuplaDeviceClass: the main loop iterate() that brings the network up,   *)
(* connects and registers with the Supla server, backs off, restarts, and  *)
(* leaves to configuration mode or to a software update.                   *)
(*                                                                         *)
(* One call of iterate() is a sequence of actions, one for each function   *)
(* it calls; pc is the one that comes next.  Between them the network, the *)
(* server, the clock and the other threads (timers and web server, which   *)
(* call handleAction and scheduleSoftRestart) move.                        *)
(*                                                                         *)
(* A time stamp of the code is kept as its age, "millis() - stamp".  The   *)
(* code computes "_millis - stamp" with _millis read when iterate() began, *)
(* msAge ago: see Since.                                                   *)
(***************************************************************************)
EXTENDS Integers, Sequences

CONSTANTS
  ConnectWait,      \* waitForIterate after a failed connect (10000 ms)
  NotReadyWait,     \* waitForIterate while the network is not ready (100 ms)
  NotReadyLimit,    \* not-ready iterations that count as a failed connection (100)
  SetupPeriod,      \* failed connections between two network setups (6)
  ResetOn,          \* resetOnConnectionFailCounter
  IterateFailWait,  \* waitForIterate after a communication failure (5000 ms)
  RegTimeout,       \* longest wait for the registration result (10000 ms)
  RegTimeoutWait,   \* waitForIterate after it (2000 ms)
  NokWait,          \* waitForIterate after a refused registration (10000 ms)
  VersionErrorWait, \* waitForIterate after a version error (15000 ms)
  CfgModeTimeout,   \* stay in configuration mode entered on request (5 min)
  RestartDelay,     \* restart delay of the web server's "save and restart" (2500 ms)
  BootModes,        \* device modes the stored configuration can ask for
  ServerCalls,      \* calls the server may make
  LocalActions,     \* actions other elements may trigger on the device
  WebRequests,      \* requests the web server may get
  MaxSlip,          \* bound: ticks that pass during one iterate()
  LoopGap,          \* ticks between two calls of iterate() of a healthy device
  AgeCap,           \* bound: an age stops growing here
  FailBound,        \* bound: connectionFailCounter stops counting here
  BufferBound       \* bound: half packets unread or in the input buffer when a request is sent

Waits == {ConnectWait, NotReadyWait, IterateFailWait, RegTimeoutWait, NokWait,
          VersionErrorWait}

ASSUME TimesAssumption ==
  /\ Waits \cup {RegTimeout, CfgModeTimeout, RestartDelay} \subseteq Nat \ {0}
  /\ MaxSlip \in Nat /\ LoopGap \in Nat \ {0} /\ AgeCap \in Nat
  /\ \A t \in Waits \cup {RegTimeout, CfgModeTimeout, RestartDelay,
                          NotReadyWait * NotReadyLimit} : t + MaxSlip < AgeCap

ASSUME CountersAssumption ==
  /\ NotReadyLimit \in Nat /\ SetupPeriod \in Nat \ {0} /\ ResetOn \in Nat
  /\ FailBound \in Nat

Modes == {"NORMAL", "CONFIG", "SW_UPDATE"}
Replies == {"REGISTER_OK", "REGISTER_NOK", "VERSION_ERROR"}
Requests == {"ENTER_CFG_MODE", "OTHER"}

ASSUME CallsAssumption ==
  /\ BootModes \subseteq Modes /\ BootModes # {}
  /\ ServerCalls \subseteq Replies \cup Requests
  /\ LocalActions \subseteq {"SOFT_RESTART", "ENTER_CONFIG_MODE", "TOGGLE_CONFIG_MODE",
                             "RESET_TO_FACTORY_SETTINGS", "CHECK_SW_UPDATE"}
  /\ WebRequests \subseteq {"SHOW", "SAVE"}
  /\ BufferBound \in Nat

VARIABLES
  pc,             \* the next step of iterate(); "idle" between calls, "off" at restart
  msAge,          \* age of _millis; between calls, time since the last one, up to LoopGap
  iterAge,        \* age of lastIterateTime
  waitForIterate,
  enterIterateConnected,
  registered,
  connectionFailCounter,
  lastConnectionResetCounter,
  networkIsNotReadyCounter,
  deviceMode,
  restartAge,     \* age of deviceRestartTimeoutTimestamp, NoStamp if that is 0
  forceRestartTimeMs,
  triggers,       \* goToConfigModeAsap, triggerResetToFactorySettings, ... that are set
  swUpdateStarted,
  inBuffer,       \* half packets in the sproto input buffer
  netReady,       \* Network::IsReady()
  connected,      \* Network::Connected()
  socket,         \* half packets the server sent that were not read yet
  session,        \* the server's view of this connection
  healthy,        \* from now on network and server work
  regSent,        \* registration messages sent on this connection
  reply,          \* what the last registration result handled since Connect() was
  notReadyAge,    \* time since the first not-ready iteration of this count
  owed,           \* wait imposed when the last connection (attempt) failed
  owedAge         \* and its age

loopVars == <<msAge, iterAge, waitForIterate, enterIterateConnected>>
counters == <<connectionFailCounter, lastConnectionResetCounter, networkIsNotReadyCounter>>
restart == <<restartAge, forceRestartTimeMs>>
link == <<connected, socket, session>>
history == <<regSent, reply, notReadyAge, owed, owedAge>>
vars == <<pc, loopVars, registered, counters, deviceMode, restart, triggers,
          swUpdateStarted, inBuffer, netReady, link, healthy, history>>

NoStamp == -1
NoReply == [call |-> "NONE", stale |-> FALSE]
Ages == 0 .. AgeCap
Half == [call : Replies \cup Requests, part : {1, 2}, stale : BOOLEAN]
Triggers == {"CONFIG", "FACTORY_RESET", "SW_UPDATE"}

TypeOK ==
  /\ pc \in {"off", "idle", "check", "triggers", "gate", "setup", "connect", "srpc",
             "protocol", "elements", "swUpdate"}
  /\ msAge \in Nat /\ msAge <= MaxSlip + LoopGap /\ iterAge \in Ages
  /\ waitForIterate \in Waits \cup {0}
  /\ enterIterateConnected \in BOOLEAN
  /\ registered \in {-1, 0, 1}
  /\ connectionFailCounter \in Nat /\ lastConnectionResetCounter \in Nat
  /\ networkIsNotReadyCounter \in 0 .. NotReadyLimit
  /\ deviceMode \in Modes
  /\ restartAge \in Ages \cup {NoStamp} /\ forceRestartTimeMs \in {0, 1, RestartDelay}
  /\ triggers \subseteq Triggers
  /\ swUpdateStarted \in BOOLEAN
  /\ inBuffer \in Seq(Half) /\ socket \in Seq(Half)
  /\ netReady \in BOOLEAN /\ connected \in BOOLEAN /\ healthy \in BOOLEAN
  /\ session \in {"closed", "open", "registering", "accepted", "refused"}
  /\ regSent \in Nat
  /\ reply \in [call : Replies, stale : BOOLEAN] \cup {NoReply}
  /\ notReadyAge \in Ages
  /\ owed \in Waits \cup {0} /\ owedAge \in Ages

-----------------------------------------------------------------------------
(***************************************************************************)
(* Values after begin(), which a restart also brings back.  deviceMode     *)
(* comes from the configuration; begin() calls enterConfigMode() for       *)
(* CONFIG, and as that is the mode already, without the 5 min timeout.     *)
(***************************************************************************)
Begin ==
  /\ msAge = 0 /\ iterAge = AgeCap /\ waitForIterate = 0 /\ enterIterateConnected = FALSE
  /\ registered = 0
  /\ connectionFailCounter = 0 /\ lastConnectionResetCounter = 0
  /\ networkIsNotReadyCounter = 0
  /\ restartAge = NoStamp /\ forceRestartTimeMs = 0
  /\ triggers = {} /\ swUpdateStarted = FALSE
  /\ inBuffer = << >> /\ socket = << >> /\ connected = FALSE /\ session = "closed"
  /\ regSent = 0 /\ reply = NoReply /\ notReadyAge = 0 /\ owed = 0 /\ owedAge = 0

Init ==
  /\ pc = "idle" /\ Begin /\ deviceMode \in BootModes
  /\ netReady \in BOOLEAN /\ healthy = FALSE

\* Network::Disconnect()
Disconnect == connected' = FALSE /\ socket' = << >> /\ session' = "closed"

\* A failed connection (attempt) after which the code wants to wait.
Owe(wait, age) == owed' = wait /\ owedAge' = age

\* softRestart(): what the RAM held is gone.
SoftRestart ==
  /\ pc' = "off" /\ deviceMode' = "NORMAL"
  /\ msAge' = 0 /\ iterAge' = AgeCap /\ waitForIterate' = 0 /\ enterIterateConnected' = FALSE
  /\ registered' = 0
  /\ connectionFailCounter' = 0 /\ lastConnectionResetCounter' = 0
  /\ networkIsNotReadyCounter' = 0
  /\ restartAge' = NoStamp /\ forceRestartTimeMs' = 0
  /\ triggers' = {} /\ swUpdateStarted' = FALSE
  /\ inBuffer' = << >> /\ Disconnect
  /\ regSent' = 0 /\ reply' = NoReply /\ notReadyAge' = 0 /\ Owe(0, 0)
  /\ UNCHANGED <<netReady, healthy>>

Boot ==
  /\ pc = "off"
  /\ pc' = "idle" /\ deviceMode' \in BootModes
  /\ UNCHANGED <<loopVars, registered, counters, restart, triggers, swUpdateStarted,
                 inBuffer, netReady, link, healthy, history>>

-----------------------------------------------------------------------------
\* "_millis - stamp" in unsigned arithmetic: a stamp taken after _millis was read gives a
\* huge number.
Forever == AgeCap + 1
Since(age) == IF age >= msAge THEN age - msAge ELSE Forever

\* iterate() is called; _millis = millis().
IterateBegin ==
  /\ pc = "idle"
  /\ pc' = "check" /\ msAge' = 0
  /\ UNCHANGED <<iterAge, waitForIterate, enterIterateConnected, registered, counters,
                 deviceMode, restart, triggers, swUpdateStarted, inBuffer, netReady, link,
                 healthy, history>>

\* Every return of iterate().
Return == pc' = "idle" /\ msAge' = 0

RestartOnRequestOnly ==   \* mutant: failed connections are not looked at
  \/ restartAge # NoStamp /\ Since(restartAge) > CfgModeTimeout
  \/ /\ forceRestartTimeMs # 0
     /\ restartAge = NoStamp \/ Since(restartAge) > forceRestartTimeMs

RestartIfStamped ==       \* mutant: a zero time stamp means "no restart" to both checks
  \/ restartAge # NoStamp /\ Since(restartAge) > CfgModeTimeout
  \/ forceRestartTimeMs # 0 /\ restartAge # NoStamp /\ Since(restartAge) > forceRestartTimeMs
  \/ ResetOn > SetupPeriod /\ connectionFailCounter = ResetOn

RestartIfForced ==        \* mutant: the time limit of configuration mode is forgotten
  \/ /\ forceRestartTimeMs # 0
     /\ restartAge = NoStamp \/ Since(restartAge) > forceRestartTimeMs
  \/ ResetOn > SetupPeriod /\ connectionFailCounter = ResetOn

RestartIsNeeded ==
  \/ restartAge # NoStamp /\ Since(restartAge) > CfgModeTimeout
  \/ /\ forceRestartTimeMs # 0
     /\ restartAge = NoStamp \/ Since(restartAge) > forceRestartTimeMs
  \/ ResetOn > SetupPeriod /\ connectionFailCounter = ResetOn

CheckIfRestartIsNeeded ==
  /\ pc = "check"
  /\ \/ RestartIsNeeded /\ SoftRestart
     \/ /\ ~RestartIsNeeded
        /\ pc' = "triggers"
        /\ UNCHANGED <<loopVars, registered, counters, deviceMode, restart, triggers,
                       swUpdateStarted, inBuffer, netReady, link, healthy, history>>

\* enterConfigMode() stamps the timeout unless the device is in that mode already; on a
\* local request handleLocalActionTriggers() then calls disableCfgModeTimeout().
ConfigStamp == IF deviceMode = "CONFIG" THEN NoStamp ELSE 0
DisableCfgModeTimeout(stamp) == IF forceRestartTimeMs = 0 THEN NoStamp ELSE stamp

HandleLocalActionTriggers ==
  /\ pc = "triggers"
  /\ IF "FACTORY_RESET" \in triggers
       THEN SoftRestart
       ELSE /\ pc' = "gate"
            /\ triggers' = {}
            /\ IF "CONFIG" \in triggers
                 THEN /\ deviceMode' = "CONFIG"
                      /\ restartAge' = DisableCfgModeTimeout(ConfigStamp)
                      /\ Disconnect
                 ELSE /\ deviceMode' = IF "SW_UPDATE" \in triggers /\ deviceMode # "CONFIG"
                                         THEN "SW_UPDATE" ELSE deviceMode
                      /\ UNCHANGED <<restartAge, link>>
            /\ UNCHANGED <<loopVars, registered, counters, forceRestartTimeMs,
                           swUpdateStarted, inBuffer, netReady, healthy, history>>

\* iterate() after iterateAlwaysElements(): nothing while a restart is due or a wait runs.
MustWait == waitForIterate # 0 /\ Since(iterAge) < waitForIterate

Gate ==
  /\ pc = "gate"
  /\ IF forceRestartTimeMs # 0 \/ MustWait
       THEN Return /\ UNCHANGED <<iterAge, waitForIterate, enterIterateConnected>>
       ELSE /\ waitForIterate' = 0
            /\ enterIterateConnected' = (Since(iterAge) > 0)
            /\ iterAge' = IF registered # -1 THEN msAge ELSE iterAge
            /\ IF deviceMode = "CONFIG" THEN Return
                                         ELSE pc' = "setup" /\ UNCHANGED msAge
  /\ UNCHANGED <<registered, counters, deviceMode, restart, triggers, swUpdateStarted,
                 inBuffer, netReady, link, healthy, history>>

CountFailure ==
  connectionFailCounter' = IF connectionFailCounter < FailBound
                             THEN connectionFailCounter + 1 ELSE connectionFailCounter

SetupAgainIfReady ==      \* mutant: only a network that is up is set up again
  /\ netReady
  /\ lastConnectionResetCounter # connectionFailCounter
  /\ connectionFailCounter > 0
  /\ connectionFailCounter % SetupPeriod = 0

\* The network is set up again every SetupPeriod failed connections.
SetupAgain ==
  /\ networkIsNotReadyCounter = 0
  /\ lastConnectionResetCounter # connectionFailCounter
  /\ connectionFailCounter > 0
  /\ connectionFailCounter % SetupPeriod = 0

NotReadyTooEarly(n) == n >= NotReadyLimit       \* mutant: off by one
NotReadyTooLate(n) == n > NotReadyLimit + 1     \* mutant: off by one
NotReadyTooLong(n) == n > NotReadyLimit

IterateNetworkSetup ==
  /\ pc = "setup"
  /\ lastConnectionResetCounter' =
       IF SetupAgain THEN connectionFailCounter ELSE lastConnectionResetCounter
  /\ \/ /\ ~netReady
        /\ Return /\ waitForIterate' = NotReadyWait
        /\ notReadyAge' = IF networkIsNotReadyCounter = 0 THEN msAge ELSE notReadyAge
        /\ IF NotReadyTooLong(networkIsNotReadyCounter + 1)
             THEN /\ networkIsNotReadyCounter' = 0
                  /\ CountFailure
             ELSE /\ networkIsNotReadyCounter' = networkIsNotReadyCounter + 1
                  /\ UNCHANGED connectionFailCounter
     \/ /\ netReady
        /\ pc' = IF deviceMode = "SW_UPDATE" THEN "swUpdate" ELSE "connect"
        /\ networkIsNotReadyCounter' = 0
        /\ UNCHANGED <<msAge, waitForIterate, connectionFailCounter, notReadyAge>>
  /\ UNCHANGED <<iterAge, enterIterateConnected, registered, deviceMode, restart, triggers,
                 swUpdateStarted, inBuffer, netReady, link, healthy, regSent, reply, owed,
                 owedAge>>

-----------------------------------------------------------------------------
\* What is left in the input buffer belongs to an earlier connection from now on.
Stale(buffer) == [i \in DOMAIN buffer |-> [buffer[i] EXCEPT !.stale = TRUE]]

AlreadyConnected ==
  /\ pc = "connect" /\ connected
  /\ pc' = "srpc"
  /\ UNCHANGED <<loopVars, registered, counters, deviceMode, restart, triggers,
                 swUpdateStarted, inBuffer, netReady, link, healthy, history>>

KeepRegistration == UNCHANGED registered        \* mutant: missing reset
ForgetRegistration == registered' = 0

ConnectOk ==
  /\ pc = "connect" /\ ~connected
  /\ pc' = "srpc" /\ ForgetRegistration
  /\ connected' = TRUE /\ session' = "open" /\ socket' = << >>
  /\ inBuffer' = Stale(inBuffer)
  /\ connectionFailCounter' = 0 /\ lastConnectionResetCounter' = 0
  /\ regSent' = 0 /\ reply' = NoReply /\ Owe(0, 0)
  /\ UNCHANGED <<loopVars, networkIsNotReadyCounter, deviceMode, restart, triggers,
                 swUpdateStarted, netReady, healthy, notReadyAge>>

ConnectFails ==
  /\ pc = "connect" /\ ~connected /\ ~healthy
  /\ Return /\ ForgetRegistration
  /\ Disconnect /\ waitForIterate' = ConnectWait
  /\ CountFailure
  /\ IF registered = -1 THEN Owe(0, 0) ELSE Owe(ConnectWait, msAge)
  /\ UNCHANGED <<iterAge, enterIterateConnected, lastConnectionResetCounter,
                 networkIsNotReadyCounter, deviceMode, restart, triggers, swUpdateStarted,
                 inBuffer, netReady, healthy, regSent, reply, notReadyAge>>

-----------------------------------------------------------------------------
(***************************************************************************)
(* srpc_iterate(): read what the socket has, take one packet off the       *)
(* input buffer, dispatch it.  A packet is two halves, so that a read may  *)
(* end inside one.                                                         *)
(***************************************************************************)
Packet(call) == <<[call |-> call, part |-> 1, stale |-> FALSE],
                  [call |-> call, part |-> 2, stale |-> FALSE]>>

\* sproto_pop_in_sdp: a packet must start at the head of the buffer and end where its
\* header says; anything else is a data error.
Incomplete(buffer) == buffer = << >> \/ (Len(buffer) = 1 /\ buffer[1].part = 1)
Complete(buffer) == Len(buffer) >= 2 /\ buffer[1].part = 1 /\ buffer[2].part = 2

\* Reading takes in n half packets, all there are when the network is healthy.
Received == IF healthy THEN {Len(socket)} ELSE 0 .. Len(socket)
Unread(n) == SubSeq(socket, n + 1, Len(socket))
AfterRead(n) == inBuffer \o SubSeq(socket, 1, n)

\* lastIterateTime = _millis; waitForIterate = wait
WaitFromNow(wait) == waitForIterate' = wait /\ iterAge' = msAge

\* Communication failure: a read of 0 bytes because the link is gone, or a data error,
\* which clears the buffer.
SrpcFailure ==
  /\ pc = "srpc"
  /\ \/ ~connected /\ UNCHANGED inBuffer
     \/ \E n \in Received :
          /\ ~Incomplete(AfterRead(n)) /\ ~Complete(AfterRead(n))
          /\ inBuffer' = << >>
  /\ Return /\ Disconnect
  /\ WaitFromNow(IterateFailWait)
  /\ Owe(IterateFailWait, msAge)
  /\ UNCHANGED <<enterIterateConnected, registered, counters, deviceMode, restart,
                 triggers, swUpdateStarted, netReady, healthy, regSent, reply, notReadyAge>>

NothingReceived ==
  /\ pc = "srpc"
  /\ pc' = "protocol"
  /\ \E n \in Received :
       /\ Incomplete(AfterRead(n))
       /\ inBuffer' = AfterRead(n) /\ socket' = Unread(n)
  /\ UNCHANGED <<loopVars, registered, counters, deviceMode, restart, triggers,
                 swUpdateStarted, netReady, connected, session, healthy, history>>

\* onRegisterResult with SUPLA_RESULTCODE_TRUE
OnRegistered ==
  /\ registered' = 1 /\ iterAge' = 0
  /\ UNCHANGED <<waitForIterate, connected, session, deviceMode, restartAge, owed, owedAge>>

OnRefusedAgain(wait) ==   \* mutant: "not registered" is noted here already
  /\ Disconnect /\ iterAge' = 0 /\ waitForIterate' = wait
  /\ Owe(wait, 0)
  /\ registered' = 0
  /\ UNCHANGED <<deviceMode, restartAge>>

\* onRegisterResult with any other code, and onVersionError
OnRefused(wait) ==
  /\ Disconnect /\ iterAge' = 0 /\ waitForIterate' = wait
  /\ Owe(wait, 0)
  /\ UNCHANGED <<registered, deviceMode, restartAge>>

StayOnline ==             \* mutant: the link to the server is kept
  /\ deviceMode' = "CONFIG" /\ restartAge' = ConfigStamp
  /\ UNCHANGED <<connected, socket, session>>
  /\ UNCHANGED <<registered, iterAge, waitForIterate, owed, owedAge>>

\* SUPLA_CALCFG_CMD_ENTER_CFG_MODE from an authorized user: enterConfigMode()
OnEnterCfgMode ==
  /\ deviceMode' = "CONFIG" /\ restartAge' = ConfigStamp /\ Disconnect
  /\ UNCHANGED <<registered, iterAge, waitForIterate, owed, owedAge>>

\* message_received
MessageReceived(call) ==
  \/ call = "REGISTER_OK" /\ OnRegistered
  \/ call = "REGISTER_NOK" /\ OnRefused(NokWait)
  \/ call = "VERSION_ERROR" /\ OnRefused(VersionErrorWait)
  \/ call = "ENTER_CFG_MODE" /\ OnEnterCfgMode
  \/ /\ call = "OTHER"
     /\ UNCHANGED <<registered, iterAge, waitForIterate, connected, session, deviceMode,
                    restartAge, owed, owedAge>>

SrpcIterate ==
  /\ pc = "srpc"
  /\ pc' = "protocol"
  /\ \E n \in Received :
       LET buffer == AfterRead(n)
           call == buffer[1].call
       IN  /\ Complete(buffer)
           /\ inBuffer' = SubSeq(buffer, 3, Len(buffer))
           /\ MessageReceived(call)
           /\ IF call \in Replies
                THEN reply' = [call |-> call, stale |-> buffer[1].stale]
                ELSE UNCHANGED reply
           /\ call \in {"REGISTER_OK", "OTHER"} => socket' = Unread(n)
  /\ UNCHANGED <<msAge, enterIterateConnected, counters, forceRestartTimeMs, triggers,
                 swUpdateStarted, netReady, healthy, regSent, notReadyAge>>

-----------------------------------------------------------------------------
(***************************************************************************)
(* iterateSuplaProtocol() after srpc_iterate().                            *)
(***************************************************************************)
Register ==
  /\ pc = "protocol" /\ registered = 0
  /\ Return /\ registered' = -1
  /\ regSent' = regSent + 1
  /\ session' = IF session = "open" THEN "registering" ELSE session
  /\ UNCHANGED <<iterAge, waitForIterate, enterIterateConnected, counters, deviceMode,
                 restart, triggers, swUpdateStarted, inBuffer, netReady, connected, socket,
                 healthy, reply, notReadyAge, owed, owedAge>>

AwaitRegistration ==
  /\ pc = "protocol" /\ registered = -1 /\ ~(Since(iterAge) > RegTimeout)
  /\ Return
  /\ UNCHANGED <<iterAge, waitForIterate, enterIterateConnected, registered, counters,
                 deviceMode, restart, triggers, swUpdateStarted, inBuffer, netReady, link,
                 healthy, history>>

\* "Handle registration timeout (in case of no reply received)"
RegistrationTimeout ==
  /\ pc = "protocol" /\ registered = -1 /\ Since(iterAge) > RegTimeout
  /\ Return /\ Disconnect
  /\ WaitFromNow(RegTimeoutWait)
  /\ Owe(RegTimeoutWait, msAge)
  /\ UNCHANGED <<enterIterateConnected, registered, counters, deviceMode, restart,
                 triggers, swUpdateStarted, inBuffer, netReady, healthy, regSent, reply,
                 notReadyAge>>

\* registered is 1.  Network::Ping gives up a link that is no good, and a server that does
\* not answer because it does not hold the device registered; registered stays 1 and the
\* elements are still iterated.
AfterPing ==
  /\ pc = "protocol" /\ registered = 1
  /\ IF enterIterateConnected THEN pc' = "elements" /\ UNCHANGED msAge ELSE Return
  /\ UNCHANGED <<iterAge, waitForIterate, enterIterateConnected, registered, counters,
                 deviceMode, restart, triggers, swUpdateStarted, inBuffer, netReady, healthy,
                 history>>

Ping == AfterPing /\ UNCHANGED link
ActivityTimeout == AfterPing /\ (~healthy \/ session # "accepted") /\ Disconnect

\* Every element's iterateConnected().
IterateElements ==
  /\ pc = "elements"
  /\ Return
  /\ UNCHANGED <<iterAge, waitForIterate, enterIterateConnected, registered, counters,
                 deviceMode, restart, triggers, swUpdateStarted, inBuffer, netReady, link,
                 healthy, history>>

\* DEVICE_MODE_SW_UPDATE: start the download, then follow it until it ends either way.
StartSwUpdate ==
  /\ pc = "swUpdate" /\ ~swUpdateStarted
  /\ Return /\ Disconnect /\ swUpdateStarted' = TRUE
  /\ UNCHANGED <<iterAge, waitForIterate, enterIterateConnected, registered, counters,
                 deviceMode, restart, triggers, inBuffer, netReady, healthy, history>>

ScheduleSoftRestart(delay) == forceRestartTimeMs' = delay /\ restartAge' = 0

IterateSwUpdate ==
  /\ pc = "swUpdate" /\ swUpdateStarted
  /\ Return
  /\ \/ UNCHANGED <<swUpdateStarted, deviceMode, restart>>
     \/ /\ swUpdateStarted' = FALSE /\ deviceMode' = "NORMAL"
        /\ UNCHANGED restart \/ ScheduleSoftRestart(1)
  /\ UNCHANGED <<iterAge, waitForIterate, enterIterateConnected, registered, counters,
                 triggers, inBuffer, netReady, link, healthy, history>>

MainLoop ==
  \/ Boot \/ IterateBegin \/ CheckIfRestartIsNeeded \/ HandleLocalActionTriggers \/ Gate
  \/ IterateNetworkSetup \/ AlreadyConnected \/ ConnectOk \/ ConnectFails
  \/ SrpcFailure \/ NothingReceived \/ SrpcIterate
  \/ Register \/ AwaitRegistration \/ RegistrationTimeout \/ Ping
  \/ ActivityTimeout \/ IterateElements
  \/ StartSwUpdate \/ IterateSwUpdate

-----------------------------------------------------------------------------
(***************************************************************************)
(* Other threads of the device, at any time.                               *)
(***************************************************************************)
TriggerOf == [ENTER_CONFIG_MODE |-> "CONFIG", TOGGLE_CONFIG_MODE |-> "CONFIG",
              CHECK_SW_UPDATE |-> "SW_UPDATE", RESET_TO_FACTORY_SETTINGS |-> "FACTORY_RESET"]

HandleAction(action) ==
  /\ pc # "off"
  /\ IF \/ action = "SOFT_RESTART"
        \/ action = "TOGGLE_CONFIG_MODE" /\ deviceMode = "CONFIG"
       THEN ScheduleSoftRestart(1) /\ UNCHANGED triggers
       ELSE /\ action = "ENTER_CONFIG_MODE" => deviceMode # "CONFIG"
            /\ action = "CHECK_SW_UPDATE" => deviceMode # "SW_UPDATE"
            /\ triggers' = triggers \cup {TriggerOf[action]}
            /\ UNCHANGED restart
  /\ UNCHANGED <<pc, loopVars, registered, counters, deviceMode, swUpdateStarted, inBuffer,
                 netReady, link, healthy, history>>

\* A page of the configuration web server is opened, or saved with one of its two restarts.
HandleWebRequest(request) ==
  /\ pc # "off" /\ deviceMode = "CONFIG"
  /\ IF request = "SAVE" THEN \E delay \in {1, RestartDelay} : ScheduleSoftRestart(delay)
                         ELSE /\ restartAge' = DisableCfgModeTimeout(restartAge)
                              /\ UNCHANGED forceRestartTimeMs
  /\ UNCHANGED <<pc, loopVars, registered, counters, deviceMode, triggers, swUpdateStarted,
                 inBuffer, netReady, link, healthy, history>>

(***************************************************************************)
(* Server and network.                                                     *)
(***************************************************************************)
ServerSends(call) ==
  /\ connected
  /\ socket' = socket \o Packet(call)
  /\ \/ /\ call \in Replies /\ session = "registering"
        /\ healthy => call = "REGISTER_OK"
        /\ session' = IF call = "REGISTER_OK" THEN "accepted" ELSE "refused"
     \/ /\ call \in Requests /\ session = "accepted"
        /\ Len(inBuffer \o socket) + 2 <= BufferBound
        /\ UNCHANGED session
  /\ UNCHANGED <<pc, loopVars, registered, counters, deviceMode, restart, triggers,
                 swUpdateStarted, inBuffer, netReady, connected, healthy, history>>

LinkDrops ==
  /\ connected /\ ~healthy
  /\ Disconnect
  /\ UNCHANGED <<pc, loopVars, registered, counters, deviceMode, restart, triggers,
                 swUpdateStarted, inBuffer, netReady, healthy, history>>

NetworkChanges ==
  /\ ~healthy
  /\ netReady' = ~netReady
  /\ UNCHANGED <<pc, loopVars, registered, counters, deviceMode, restart, triggers,
                 swUpdateStarted, inBuffer, link, healthy, history>>

Recover ==
  /\ ~healthy
  /\ healthy' = TRUE /\ netReady' = TRUE
  /\ UNCHANGED <<pc, loopVars, registered, counters, deviceMode, restart, triggers,
                 swUpdateStarted, inBuffer, link, history>>

Older(age) == IF age < AgeCap THEN age + 1 ELSE age

\* One unit of time.  A healthy server answers a registration in less than that.
Tick ==
  /\ pc # "off"
  /\ healthy => session # "registering"
  /\ IF pc = "idle"
       THEN /\ healthy => msAge < LoopGap
            /\ msAge' = IF msAge < LoopGap THEN msAge + 1 ELSE msAge
       ELSE msAge < MaxSlip /\ msAge' = msAge + 1
  /\ iterAge' = Older(iterAge)
  /\ restartAge' = IF restartAge = NoStamp THEN NoStamp ELSE Older(restartAge)
  /\ notReadyAge' = IF networkIsNotReadyCounter > 0 THEN Older(notReadyAge) ELSE notReadyAge
  /\ owedAge' = IF owed > 0 THEN Older(owedAge) ELSE owedAge
  /\ UNCHANGED <<pc, waitForIterate, enterIterateConnected, registered, counters, deviceMode,
                 forceRestartTimeMs, triggers, swUpdateStarted, inBuffer, netReady, link,
                 healthy, regSent, reply, owed>>

Environment ==
  \/ \E action \in LocalActions : HandleAction(action)
  \/ \E request \in WebRequests : HandleWebRequest(request)
  \/ \E call \in ServerCalls : ServerSends(call)
  \/ LinkDrops \/ NetworkChanges \/ Recover \/ Tick

Next == MainLoop \/ Environment

Spec == Init /\ [][Next]_vars

\* The loop runs, the clock runs, a server that works answers a registration, and one that
\* does not answer pings is left in the end (DeadLinkDetected of Network).
Fairness ==
  /\ WF_vars(MainLoop) /\ SF_vars(Tick)
  /\ WF_vars(healthy /\ ServerSends("REGISTER_OK"))
  /\ SF_vars(healthy /\ ActivityTimeout)

FairSpec == Spec /\ Fairness

-----------------------------------------------------------------------------
(***************************************************************************)
(* Safety.                                                                 *)
(***************************************************************************)
\* "Restart network after >1 min of failed connection attempts": however failures of the
\* network and of the server follow each other, no more than SetupPeriod of them pass
\* without Network::Setup().
SetupNotStarved == connectionFailCounter - lastConnectionResetCounter <= SetupPeriod

\* checkIfRestartIsNeeded() compares with "==": the failure counter never gets past the
\* number of failures that restarts the device.
ResetThresholdNotSkipped == ResetOn > SetupPeriod => connectionFailCounter <= ResetOn

\* "Device is registered and everything is correct": a device that holds itself registered on
\* a link is registered, on that connection, in the eyes of the server.  It does not hold: with
\* two requests left unread by one connection, the result of the next registration stays in the
\* input buffer behind them, and outlives that connection too.
ServerAgrees == registered = 1 /\ connected => session = "accepted"

\* That is the only way: what is torn, glued together or left behind by a connection is never
\* taken for the result of a registration of this one.
FreshResultAgrees == registered = 1 /\ connected /\ ~reply.stale => session = "accepted"

\* The device registers no more than once on a connection.
RegistersOnce == regSent <= 1

\* Configuration mode, entered from the server or by a button, has no link to the server.
ConfigModeIsOffline == deviceMode = "CONFIG" => ~connected

\* After a failure the device stays away from the server as long as the code told it to
\* when it set waitForIterate, also when other steps of the loop came in between.  (Not
\* so after a failed connect with registered = -1: lastIterateTime is that of the lost
\* registration, see Gate, and the wait is counted from there.)  And not-ready iterations count
\* as one failed connection after NotReadyWait for each of them, if the device was not waiting for
\* a registration result when the network went away: then lastIterateTime is left alone, see Gate,
\* and each pass counts ("We wait 10s before we increment connectionFailCounter" is not true of it).
WaitsAreKept ==
  [][ /\ ConnectOk \/ ConnectFails => owedAge >= owed
      /\ /\ IterateNetworkSetup /\ connectionFailCounter' # connectionFailCounter
         /\ registered # -1
         => notReadyAge >= NotReadyWait * NotReadyLimit ]_vars

\* "Handle registration timeout (in case of no reply received)": the timeout fires only if
\* no result came on this connection.  It does not hold: after a refusal lastIterateTime is
\* newer than _millis and the unsigned difference is huge.
TimeoutMeansNoReply == [][RegistrationTimeout => reply = NoReply]_vars

(***************************************************************************)
(* Liveness, under FairSpec.                                               *)
(***************************************************************************)
\* When network and server work, the device gets registered and stays so, whatever its
\* counters, waits and buffers were.
Recovers == healthy ~> [](registered = 1 /\ session = "accepted")

\* The restart clock is set again only finitely often.
SettlesDown == <>[][~(restartAge # 0 /\ restartAge' = 0)]_vars

\* A scheduled restart comes, whatever mode the device is in and whatever the server, the
\* buttons and the web server do meanwhile short of scheduling it anew for ever.
RestartComes == SettlesDown => (forceRestartTimeMs # 0 ~> pc = "off")

\* Configuration mode asked for by the server is left by a restart, unless the user opens
\* the configuration page and so takes the time limit away.
ConfigModeTimesOut == SettlesDown => (restartAge # NoStamp ~> restartAge = NoStamp)

=============================================================================
