------------------------- MODULE SuplaDevice_proofs -------------------------
(***************************************************************************)
(* Proofs about SuplaDevice, for every choice of waits, limits, calls and  *)
(* bounds that satisfies its assumptions: the types, the counters of       *)
(* failed connections, registration and its result, the waits, and         *)
(* configuration mode.                                                     *)
(***************************************************************************)
EXTENDS SuplaDevice, TLAPS

-----------------------------------------------------------------------------
(***************************************************************************)
(* The inductive invariants.                                               *)
(***************************************************************************)

\* While iterate() runs, _millis is not older than a slip.
TypeInv == TypeOK /\ (pc # "idle" => msAge <= MaxSlip)

\* The network was set up at the last multiple of SetupPeriod; a device that has come to the
\* next one sets it up again before it does anything else that counts.
SetupInv ==
  /\ connectionFailCounter \in Nat /\ lastConnectionResetCounter \in Nat
  /\ networkIsNotReadyCounter \in Nat
  /\ lastConnectionResetCounter % SetupPeriod = 0
  /\ lastConnectionResetCounter <= connectionFailCounter
  /\ connectionFailCounter <= lastConnectionResetCounter + SetupPeriod
  /\ pc = "connect" => networkIsNotReadyCounter = 0
  /\ connectionFailCounter = lastConnectionResetCounter + SetupPeriod =>
       networkIsNotReadyCounter = 0 /\ pc # "connect"

\* One pass of iterate() counts at most one failure, and the check at its begin has seen that
\* there is room for it.
ThresholdInv ==
  /\ connectionFailCounter \in Nat
  /\ ResetOn > SetupPeriod =>
       /\ connectionFailCounter <= ResetOn
       /\ pc \notin {"off", "idle", "check"} => connectionFailCounter < ResetOn

\* A link on which the device still wants to register is one on which it has not.
RegisterInv ==
  /\ regSent \in {0, 1}
  /\ registered = 0 /\ (connected \/ pc \in {"srpc", "protocol"}) => regSent = 0

\* Configuration mode is entered off line, and the loop does not get to connecting in it.
ModeInv ==
  /\ deviceMode = "CONFIG" => connected = FALSE /\ pc \notin {"setup", "connect", "swUpdate"}
  /\ pc = "off" => connected = FALSE

\* A fresh REGISTER_OK in the buffer comes from a server that accepted the device.
AcceptedBy(buffer) ==
  (\E i \in 1 .. Len(buffer) : ~buffer[i].stale /\ buffer[i].call = "REGISTER_OK")
  => session = "accepted"

\* That is so of everything received or still on its way, and of the result acted on.
AgreeInv ==
  /\ connected => AcceptedBy(inBuffer) /\ AcceptedBy(socket)
  /\ FreshResultAgrees

\* The wait owed is over, or is the one that waitForIterate and lastIterateTime hold; no step
\* between the gate and the connection is taken before it is over.
WaitInv ==
  /\ owedAge >= owed \/ (waitForIterate = owed /\ iterAge = owedAge)
  /\ pc \in {"setup", "connect", "srpc", "swUpdate"} => owedAge >= owed
  /\ pc \in {"check", "triggers", "gate", "setup"} => iterAge >= msAge
  /\ pc \in {"setup", "connect"} /\ registered # -1 => iterAge = msAge

\* What n not-ready iterations take.
Due(n) == NotReadyWait * n

\* n not-ready iterations took n - 1 waits and the time since the last of them, unless that is
\* enough already; behind the gate it is n waits.
NotReadyInv ==
  /\ pc \in {"off", "connect", "srpc", "protocol", "elements", "swUpdate"} =>
       networkIsNotReadyCounter = 0
  /\ networkIsNotReadyCounter > 0 /\ registered # -1 /\ deviceMode # "CONFIG" =>
       IF pc = "setup"
         THEN \/ notReadyAge >= Due(networkIsNotReadyCounter) + iterAge
              \/ notReadyAge >= Due(NotReadyLimit)
         ELSE /\ waitForIterate = NotReadyWait
              /\ \/ notReadyAge >= Due(networkIsNotReadyCounter - 1) + iterAge
                 \/ notReadyAge >= Due(NotReadyLimit)
-----------------------------------------------------------------------------
(***************************************************************************)
(* Types.                                                                  *)
(***************************************************************************)

\* What the proofs need of the assumptions on the waits and bounds.
LEMMA TimesLemma ==
  /\ MaxSlip \in Nat /\ LoopGap \in Nat /\ AgeCap \in Nat /\ MaxSlip < AgeCap
  /\ Waits \subseteq Nat \ {0} /\ RestartDelay \in Nat /\ CfgModeTimeout \in Nat
  /\ {ConnectWait, NotReadyWait, IterateFailWait, RegTimeoutWait, NokWait,
      VersionErrorWait} \subseteq Waits
  /\ NotReadyLimit \in Nat /\ FailBound \in Nat
  /\ BootModes \subseteq Modes /\ ServerCalls \subseteq Replies \cup Requests
<1>1. MaxSlip \in Nat /\ LoopGap \in Nat /\ AgeCap \in Nat
  BY TimesAssumption, CountersAssumption, CallsAssumption DEF Waits
<1>2. CfgModeTimeout \in Nat /\ RestartDelay \in Nat /\ CfgModeTimeout + MaxSlip < AgeCap
  BY TimesAssumption, CountersAssumption, CallsAssumption DEF Waits
<1> QED
  BY <1>1, <1>2, TimesAssumption, CountersAssumption, CallsAssumption DEF Waits

\* The empty buffer is a buffer.
LEMMA EmptyLemma == << >> \in Seq(Half)
OBVIOUS
\* The actions that other elements may trigger.
LEMMA LocalActionsLemma ==
  LocalActions \subseteq {"SOFT_RESTART", "ENTER_CONFIG_MODE", "TOGGLE_CONFIG_MODE",
                          "RESET_TO_FACTORY_SETTINGS", "CHECK_SW_UPDATE"}
BY CallsAssumption

\* Disconnect() leaves the link down and the socket empty.
LEMMA DisconnectTypes ==
  Disconnect => /\ connected' \in BOOLEAN /\ connected' = FALSE /\ socket' = << >>
                /\ session' \in {"closed", "open", "registering", "accepted", "refused"}
<1>1. Disconnect => connected' = FALSE /\ socket' = << >> /\ session' = "closed"
  BY Zenon DEF Disconnect
<1>2. Disconnect => connected' \in BOOLEAN
  BY <1>1, Zenon
<1> QED
  BY <1>1, <1>2, EmptyLemma

\* Connect() marks every half packet in the input buffer, and keeps their number.
LEMMA StaleLemma ==
  ASSUME NEW buffer \in Seq(Half)
  PROVE  /\ Stale(buffer) \in Seq(Half)
         /\ \A i \in 1 .. Len(Stale(buffer)) : Stale(buffer)[i].stale
<1>1. Len(buffer) \in Nat /\ DOMAIN buffer = 1 .. Len(buffer)
  OBVIOUS
<1>2. ASSUME NEW i \in 1 .. Len(buffer)
      PROVE  [buffer[i] EXCEPT !.stale = TRUE] \in Half /\ [buffer[i] EXCEPT !.stale = TRUE].stale
  <2> DEFINE h == buffer[i]
  <2>1. h \in Half
    OBVIOUS
  <2>2. [h EXCEPT !.stale = TRUE] \in Half
    BY <2>1, Zenon DEF Half
  <2>3. [h EXCEPT !.stale = TRUE].stale
    BY <2>1, Zenon DEF Half
  <2> QED
    BY <2>2, <2>3
<1>3. Stale(buffer) \in [1 .. Len(buffer) -> Half]
  BY <1>1, <1>2 DEF Stale
<1>4. Stale(buffer) \in Seq(Half) /\ Len(Stale(buffer)) = Len(buffer)
  BY <1>1, <1>3
<1> QED
  BY <1>1, <1>2, <1>4 DEF Stale

\* What srpc_iterate() reads was in the input buffer or in the socket, and so is what it leaves.
LEMMA ReadLemma ==
  ASSUME TypeOK, NEW n \in Received
  PROVE  /\ n \in 0 .. Len(socket)
         /\ AfterRead(n) \in Seq(Half) /\ Unread(n) \in Seq(Half)
         /\ \A i \in 1 .. Len(AfterRead(n)) :
              \/ \E j \in 1 .. Len(inBuffer) : AfterRead(n)[i] = inBuffer[j]
              \/ \E j \in 1 .. Len(socket) : AfterRead(n)[i] = socket[j]
         /\ \A i \in 1 .. Len(Unread(n)) : \E j \in 1 .. Len(socket) : Unread(n)[i] = socket[j]
<1>1. inBuffer \in Seq(Half) /\ socket \in Seq(Half) /\ n \in 0 .. Len(socket)
  BY DEF TypeOK, Received
<1> DEFINE front == SubSeq(socket, 1, n)
<1>2. /\ front \in Seq(Half) /\ Len(front) = n
      /\ \A i \in 1 .. n : front[i] = socket[i]
  BY <1>1
<1>3. /\ Unread(n) \in Seq(Half) /\ Len(Unread(n)) = Len(socket) - n
      /\ \A i \in 1 .. Len(socket) - n : Unread(n)[i] = socket[n + i]
  BY <1>1 DEF Unread
<1> HIDE DEF front
<1>4. /\ inBuffer \o front \in Seq(Half) /\ Len(inBuffer \o front) = Len(inBuffer) + n
      /\ \A i \in 1 .. Len(inBuffer) + n :
           (inBuffer \o front)[i] =
             IF i <= Len(inBuffer) THEN inBuffer[i] ELSE front[i - Len(inBuffer)]
  BY <1>1, <1>2
<1>5. AfterRead(n) = inBuffer \o front
  BY DEF AfterRead, front
<1>6. ASSUME NEW i \in 1 .. Len(inBuffer) + n
      PROVE  \/ \E j \in 1 .. Len(inBuffer) : AfterRead(n)[i] = inBuffer[j]
             \/ \E j \in 1 .. Len(socket) : AfterRead(n)[i] = socket[j]
  <2>1. CASE i <= Len(inBuffer)
    BY <1>1, <1>4, <1>5, <2>1
  <2>2. CASE i > Len(inBuffer)
    <3>1. AfterRead(n)[i] = socket[i - Len(inBuffer)] /\ i - Len(inBuffer) \in 1 .. Len(socket)
      BY <1>1, <1>2, <1>4, <1>5, <2>2
    <3> QED
      BY <3>1
  <2> QED
    BY <1>1, <2>1, <2>2
<1>7. ASSUME NEW i \in 1 .. Len(socket) - n
      PROVE  \E j \in 1 .. Len(socket) : Unread(n)[i] = socket[j]
  <2>1. n + i \in 1 .. Len(socket) /\ Unread(n)[i] = socket[n + i]
    BY <1>1, <1>3
  <2> QED
    BY <2>1
<1> QED
  BY <1>1, <1>3, <1>4, <1>5, <1>6, <1>7

\* A packet is two half packets of its call.
LEMMA PacketLemma ==
  ASSUME NEW call \in ServerCalls
  PROVE  /\ Packet(call) \in Seq(Half) /\ Len(Packet(call)) = 2
         /\ \A i \in {1, 2} : Packet(call)[i].call = call
  BY TimesLemma DEF Packet, Half

\* What message_received does keeps the types.
LEMMA ReceivedTypes ==
  ASSUME TypeInv, pc = "srpc", NEW call, MessageReceived(call)
  PROVE  /\ registered' \in {-1, 0, 1} /\ iterAge' \in Ages /\ waitForIterate' \in Waits \cup {0}
         /\ connected' \in BOOLEAN /\ deviceMode' \in Modes
         /\ session' \in {"closed", "open", "registering", "accepted", "refused"}
         /\ restartAge' \in Ages \cup {NoStamp}
         /\ owed' \in Waits \cup {0} /\ owedAge' \in Ages
         /\ call \notin {"REGISTER_OK", "OTHER"} => socket' = << >>
<1> USE TimesLemma, EmptyLemma, DisconnectTypes DEF TypeInv, TypeOK, Ages
<1>1. CASE call = "REGISTER_OK" /\ OnRegistered
  BY <1>1 DEF OnRegistered
<1>2. CASE OnRefused(NokWait) \/ OnRefused(VersionErrorWait)
  BY <1>2 DEF OnRefused, Owe
<1>3. CASE OnEnterCfgMode
  BY <1>3 DEF OnEnterCfgMode, ConfigStamp, Modes
<1>4. CASE call = "OTHER" /\ UNCHANGED <<registered, iterAge, waitForIterate, connected, session,
                                         deviceMode, restartAge, owed, owedAge>>
  BY <1>4
<1> QED
  BY <1>1, <1>2, <1>3, <1>4 DEF MessageReceived

\* begin() leaves every variable with a value of its type.
LEMMA InitTypes == Init => TypeInv
<1> SUFFICES ASSUME Init PROVE TypeInv
  OBVIOUS
<1>1. inBuffer \in Seq(Half) /\ socket \in Seq(Half)
  BY EmptyLemma DEF Init, Begin
<1>2. /\ enterIterateConnected \in BOOLEAN /\ swUpdateStarted \in BOOLEAN
      /\ netReady \in BOOLEAN /\ connected \in BOOLEAN /\ healthy \in BOOLEAN
  BY Zenon DEF Init, Begin
<1>3. deviceMode \in Modes /\ triggers \subseteq Triggers
  BY TimesLemma DEF Init, Begin
<1>4. reply \in [call : Replies, stale : BOOLEAN] \cup {NoReply}
  BY Zenon DEF Init, Begin
<1> QED
  BY <1>1, <1>2, <1>3, <1>4, TimesLemma DEF Init, Begin, TypeInv, TypeOK, Ages

\* Every step keeps the types.
LEMMA TypeStep == ASSUME TypeInv, [Next]_vars PROVE TypeInv'
<1> USE TimesLemma, EmptyLemma, DisconnectTypes DEF TypeInv, TypeOK, Ages
<1>1. CASE SoftRestart
  <2>1. inBuffer' \in Seq(Half) /\ socket' \in Seq(Half)
    BY <1>1 DEF SoftRestart
  <2>2. enterIterateConnected' \in BOOLEAN /\ swUpdateStarted' \in BOOLEAN
    BY <1>1, Zenon DEF SoftRestart
  <2> QED
    BY <1>1, <2>1, <2>2 DEF SoftRestart, Owe, Modes
<1>2. CASE CheckIfRestartIsNeeded /\ ~SoftRestart
  <2>1. /\ pc' = "triggers"
        /\ UNCHANGED <<loopVars, registered, counters, deviceMode, restart, triggers,
                       swUpdateStarted, inBuffer, netReady, link, healthy, history>>
    BY <1>2 DEF CheckIfRestartIsNeeded
  <2>2. pc # "idle"
    BY <1>2 DEF CheckIfRestartIsNeeded
  <2> QED
    BY <2>1, <2>2 DEF loopVars, counters, restart, link, history
<1>3. CASE HandleLocalActionTriggers /\ ~SoftRestart
  <2>1. /\ pc = "triggers" /\ pc' = "gate" /\ triggers' = {}
        /\ UNCHANGED <<loopVars, registered, counters, forceRestartTimeMs, swUpdateStarted,
                       inBuffer, netReady, healthy, history>>
    BY <1>3 DEF HandleLocalActionTriggers
  <2>2. /\ deviceMode' \in Modes /\ restartAge' \in Ages \cup {NoStamp}
    BY <1>3 DEF HandleLocalActionTriggers, restart, Modes, DisableCfgModeTimeout, ConfigStamp
  <2>3. Disconnect \/ UNCHANGED link
    BY <1>3 DEF HandleLocalActionTriggers
  <2>4. /\ connected' \in BOOLEAN /\ socket' \in Seq(Half)
        /\ session' \in {"closed", "open", "registering", "accepted", "refused"}
    BY <2>3 DEF link
  <2> QED
    BY <2>1, <2>2, <2>4 DEF loopVars, counters, history
<1>4. CASE Boot
  BY <1>4 DEF Boot, loopVars, counters, restart, link, history
<1>5. CASE IterateBegin
  BY <1>5 DEF IterateBegin, counters, restart, link, history
<1>6. CASE Gate
  <2>1. enterIterateConnected' \in BOOLEAN
    <3>1. \/ UNCHANGED enterIterateConnected
          \/ enterIterateConnected' = (Since(iterAge) > 0)
      BY <1>6 DEF Gate
    <3>2. ASSUME enterIterateConnected' = (Since(iterAge) > 0)
          PROVE  enterIterateConnected' = TRUE \/ enterIterateConnected' = FALSE
      BY <3>2
    <3> QED
      BY <3>1, <3>2
  <2>2. pc = "gate" /\ pc' \in {"idle", "setup"} /\ msAge' \in {0, msAge}
        /\ waitForIterate' \in {0, waitForIterate} /\ iterAge' \in {msAge, iterAge}
    BY <1>6 DEF Gate, Return
  <2>3. UNCHANGED <<registered, counters, deviceMode, restart, triggers, swUpdateStarted,
                    inBuffer, netReady, link, healthy, history>>
    BY <1>6 DEF Gate
  <2> QED
    BY <2>1, <2>2, <2>3 DEF counters, restart, link, history
<1>7. CASE IterateNetworkSetup
  BY <1>7 DEF IterateNetworkSetup, Return, CountFailure, NotReadyTooLong, restart, link
<1>8. CASE AlreadyConnected
  BY <1>8 DEF AlreadyConnected, loopVars, counters, restart, link, history
<1>9. CASE ConnectOk
  <2>1. inBuffer' \in Seq(Half) /\ socket' \in Seq(Half)
    BY <1>9, StaleLemma DEF ConnectOk
  <2> QED
    BY <1>9, <2>1 DEF ConnectOk, ForgetRegistration, Owe, loopVars, restart
<1>10. CASE ConnectFails
  BY <1>10 DEF ConnectFails, Return, ForgetRegistration, CountFailure, Owe, restart
<1>11. CASE SrpcFailure
  <2>1. inBuffer' \in Seq(Half) /\ socket' \in Seq(Half)
    BY <1>11 DEF SrpcFailure
  <2> QED
    BY <1>11, <2>1 DEF SrpcFailure, Return, WaitFromNow, Owe, counters, restart
<1>12. CASE NothingReceived
  <2>1. inBuffer' \in Seq(Half) /\ socket' \in Seq(Half)
    BY <1>12, ReadLemma DEF NothingReceived
  <2> QED
    BY <1>12, <2>1 DEF NothingReceived, loopVars, counters, restart, history
<1>13. CASE SrpcIterate
  <2>1. PICK n \in Received :
          /\ Complete(AfterRead(n))
          /\ inBuffer' = SubSeq(AfterRead(n), 3, Len(AfterRead(n)))
          /\ MessageReceived(AfterRead(n)[1].call)
          /\ IF AfterRead(n)[1].call \in Replies
               THEN reply' = [call |-> AfterRead(n)[1].call, stale |-> AfterRead(n)[1].stale]
               ELSE UNCHANGED reply
          /\ AfterRead(n)[1].call \in {"REGISTER_OK", "OTHER"} => socket' = Unread(n)
    BY <1>13 DEF SrpcIterate
  <2>2. AfterRead(n) \in Seq(Half) /\ Unread(n) \in Seq(Half) /\ Len(AfterRead(n)) >= 2
    BY <2>1, ReadLemma DEF Complete
  <2>3. AfterRead(n)[1] \in Half /\ inBuffer' \in Seq(Half)
    BY <2>1, <2>2
  <2>4. pc = "srpc" /\ pc' = "protocol"
    BY <1>13 DEF SrpcIterate
  <2>5. reply' \in [call : Replies, stale : BOOLEAN] \cup {NoReply}
    BY <2>1, <2>3 DEF Half
  <2> DEFINE call == AfterRead(n)[1].call
  <2>6. MessageReceived(call)
    BY <2>1
  <2>7. socket' \in Seq(Half)
    BY <2>1, <2>2, <2>4, <2>6, ReceivedTypes
  <2> HIDE DEF call
  <2> QED
    BY <1>13, <2>3, <2>4, <2>5, <2>6, <2>7, ReceivedTypes DEF SrpcIterate, counters
<1>14. CASE Register
  BY <1>14, SMTT(20) DEF Register, Return, counters, restart
<1>15. CASE AwaitRegistration
  BY <1>15 DEF AwaitRegistration, Return, counters, restart, link, history
<1>27. CASE IterateElements
  BY <1>27 DEF IterateElements, Return, counters, restart, link, history
<1>16. CASE RegistrationTimeout
  BY <1>16 DEF RegistrationTimeout, Return, WaitFromNow, Owe, counters, restart
<1>17. CASE Ping \/ ActivityTimeout
  <2>1. pc' \in {"elements", "idle"} /\ pc = "protocol" /\ msAge' \in {0, msAge}
    BY <1>17 DEF Ping, ActivityTimeout, AfterPing, Return
  <2>2. UNCHANGED <<iterAge, waitForIterate, enterIterateConnected, registered, counters,
                    deviceMode, restart, triggers, swUpdateStarted, inBuffer, netReady, healthy,
                    history>>
    BY <1>17 DEF Ping, ActivityTimeout, AfterPing
  <2>3. Disconnect \/ UNCHANGED link
    BY <1>17 DEF Ping, ActivityTimeout
  <2>4. /\ connected' \in BOOLEAN /\ socket' \in Seq(Half)
        /\ session' \in {"closed", "open", "registering", "accepted", "refused"}
    BY <2>3 DEF link
  <2> QED
    BY <2>1, <2>2, <2>4 DEF counters, restart, history
<1>18. CASE StartSwUpdate
  BY <1>18 DEF StartSwUpdate, Return, counters, restart, history
<1>19. CASE IterateSwUpdate
  <2>1. swUpdateStarted' \in BOOLEAN
    BY <1>19 DEF IterateSwUpdate
  <2>2. /\ deviceMode' \in Modes /\ restartAge' \in Ages \cup {NoStamp}
        /\ forceRestartTimeMs' \in {0, 1, RestartDelay}
    <3>1. UNCHANGED restart \/ ScheduleSoftRestart(1)
      BY <1>19 DEF IterateSwUpdate, restart
    <3>2. UNCHANGED deviceMode \/ deviceMode' = "NORMAL"
      BY <1>19 DEF IterateSwUpdate
    <3> QED
      BY <3>1, <3>2 DEF restart, ScheduleSoftRestart, Modes
  <2>3. /\ pc' = "idle" /\ msAge' = 0
        /\ UNCHANGED <<iterAge, waitForIterate, enterIterateConnected, registered, counters,
                       triggers, inBuffer, netReady, link, healthy, history>>
    BY <1>19 DEF IterateSwUpdate, Return
  <2> QED
    BY <2>1, <2>2, <2>3 DEF counters, link, history
<1>20. ASSUME NEW action \in LocalActions, HandleAction(action) PROVE TypeInv'
  <2>1. restartAge' \in Ages \cup {NoStamp} /\ forceRestartTimeMs' \in {0, 1, RestartDelay}
    BY <1>20 DEF HandleAction, ScheduleSoftRestart, restart
  <2>2. triggers' \subseteq Triggers
    <3>1. \/ UNCHANGED triggers
          \/ /\ action # "SOFT_RESTART"
             /\ triggers' = triggers \cup {TriggerOf[action]}
      BY <1>20 DEF HandleAction
    <3>2. action # "SOFT_RESTART" => TriggerOf[action] \in Triggers
      BY LocalActionsLemma DEF TriggerOf, Triggers
    <3> QED
      BY <3>1, <3>2
  <2> QED
    BY <1>20, <2>1, <2>2 DEF HandleAction, loopVars, counters, link, history
<1>21. ASSUME NEW request \in WebRequests, HandleWebRequest(request) PROVE TypeInv'
  BY <1>21 DEF HandleWebRequest, ScheduleSoftRestart, DisableCfgModeTimeout, loopVars,
                    counters, link, history
<1>22. ASSUME NEW call \in ServerCalls, ServerSends(call) PROVE TypeInv'
  <2>1. socket' \in Seq(Half)
    BY <1>22, PacketLemma DEF ServerSends
  <2> QED
    BY <1>22, <2>1 DEF ServerSends, loopVars, counters, restart, history
<1>23. CASE LinkDrops
  BY <1>23 DEF LinkDrops, loopVars, counters, restart, history
<1>24. CASE NetworkChanges
  <2>1. netReady' \in BOOLEAN
    BY <1>24 DEF NetworkChanges
  <2> QED
    BY <1>24, <2>1 DEF NetworkChanges, loopVars, counters, restart, link, history
<1>28. CASE Recover
  BY <1>28 DEF Recover, loopVars, counters, restart, link, history
<1>25. CASE Tick
  BY <1>25 DEF Tick, Older, counters, link
<1>26. CASE UNCHANGED vars
  BY <1>26 DEF vars, loopVars, counters, restart, link, history
<1> QED
  BY <1>1, <1>2, <1>3, <1>4, <1>5, <1>6, <1>7, <1>8, <1>9, <1>10, <1>11, <1>12, <1>13, <1>14, <1>15,
     <1>16, <1>17, <1>18, <1>19, <1>20, <1>21, <1>22, <1>23, <1>24, <1>25, <1>26,
     <1>27, <1>28
  DEF Next, MainLoop, Environment

-----------------------------------------------------------------------------
(***************************************************************************)
(* The result of a registration.                                           *)
(***************************************************************************)

\* Reading moves half packets, and so does not make a fresh REGISTER_OK of anything else.
LEMMA ReadAccepted ==
  ASSUME TypeOK, connected, AgreeInv, NEW n \in Received
  PROVE  AcceptedBy(AfterRead(n)) /\ AcceptedBy(Unread(n))
<1> DEFINE buffer == AfterRead(n)  rest == Unread(n)
<1>1. \A i \in 1 .. Len(buffer) :
        \/ \E j \in 1 .. Len(inBuffer) : buffer[i] = inBuffer[j]
        \/ \E j \in 1 .. Len(socket) : buffer[i] = socket[j]
  BY ReadLemma
<1>2. \A i \in 1 .. Len(rest) : \E j \in 1 .. Len(socket) : rest[i] = socket[j]
  BY ReadLemma
<1>3. AcceptedBy(inBuffer) /\ AcceptedBy(socket)
  BY DEF AgreeInv
<1> HIDE DEF buffer, rest
<1>4. AcceptedBy(buffer) /\ AcceptedBy(rest)
  BY <1>1, <1>2, <1>3 DEF AcceptedBy
<1> QED
  BY <1>4 DEF buffer, rest

\* The packet dispatched is taken for this connection's result only if it is.
LEMMA DispatchAccepted ==
  ASSUME TypeOK, AgreeInv, SrpcIterate PROVE AgreeInv'
<1>1. PICK n \in Received :
        /\ Complete(AfterRead(n))
        /\ inBuffer' = SubSeq(AfterRead(n), 3, Len(AfterRead(n)))
        /\ MessageReceived(AfterRead(n)[1].call)
        /\ IF AfterRead(n)[1].call \in Replies
             THEN reply' = [call |-> AfterRead(n)[1].call, stale |-> AfterRead(n)[1].stale]
             ELSE UNCHANGED reply
        /\ AfterRead(n)[1].call \in {"REGISTER_OK", "OTHER"} => socket' = Unread(n)
  BY DEF SrpcIterate
<1> DEFINE buffer == AfterRead(n)
<1>2. buffer \in Seq(Half) /\ Len(buffer) >= 2
  BY <1>1, ReadLemma DEF Complete
<1>3. \A i \in 1 .. Len(inBuffer') : i + 2 \in 1 .. Len(buffer) /\ inBuffer'[i] = buffer[i + 2]
  BY <1>1, <1>2
<1>4. connected => AcceptedBy(buffer) /\ AcceptedBy(Unread(n))
  BY ReadAccepted
<1>5. CASE buffer[1].call = "REGISTER_OK" /\ OnRegistered
  <2>1. socket' = Unread(n) /\ UNCHANGED <<connected, session>>
        /\ reply' = [call |-> "REGISTER_OK", stale |-> buffer[1].stale]
    BY <1>1, <1>5 DEF OnRegistered, Replies
  <2>2. connected => AcceptedBy(inBuffer)' /\ AcceptedBy(socket)'
    BY <1>3, <1>4, <2>1 DEF AcceptedBy
  <2>3. connected /\ ~buffer[1].stale => session = "accepted"
    BY <1>2, <1>4, <1>5 DEF AcceptedBy
  <2> QED
    BY <2>1, <2>2, <2>3 DEF AgreeInv, FreshResultAgrees
<1>6. CASE Disconnect
  BY <1>6, DisconnectTypes DEF AgreeInv, FreshResultAgrees
<1>7. CASE buffer[1].call = "OTHER" /\ UNCHANGED <<registered, connected, session>>
  <2>1. socket' = Unread(n) /\ UNCHANGED <<reply, registered, connected, session>>
    BY <1>1, <1>7 DEF Replies
  <2>2. connected => AcceptedBy(inBuffer)' /\ AcceptedBy(socket)'
    BY <1>3, <1>4, <2>1 DEF AcceptedBy
  <2> QED
    BY <2>1, <2>2 DEF AgreeInv, FreshResultAgrees
<1> QED
  BY <1>1, <1>5, <1>6, <1>7 DEF MessageReceived, OnRefused, OnEnterCfgMode

\* Every step keeps a fresh REGISTER_OK to servers that accepted the device.
LEMMA AgreeStep == ASSUME TypeOK, AgreeInv, [Next]_vars PROVE AgreeInv'
<1>1. ASSUME Disconnect PROVE AgreeInv'
  BY <1>1, DisconnectTypes DEF AgreeInv, FreshResultAgrees
<1>2. ASSUME UNCHANGED <<link, inBuffer, registered, reply>> PROVE AgreeInv'
  BY <1>2 DEF AgreeInv, FreshResultAgrees, AcceptedBy, link
<1>3. CASE CheckIfRestartIsNeeded \/ HandleLocalActionTriggers
  BY <1>1, <1>2, <1>3
  DEF CheckIfRestartIsNeeded, HandleLocalActionTriggers, SoftRestart, history
<1>4. CASE Boot \/ IterateBegin \/ Gate \/ IterateNetworkSetup \/ AlreadyConnected
  BY <1>2, <1>4 DEF Boot, IterateBegin, Gate, IterateNetworkSetup, AlreadyConnected, history
<1>5. CASE ConnectOk
  <2>1. registered' = 0 /\ socket' = << >> /\ inBuffer' = Stale(inBuffer)
    BY <1>5 DEF ConnectOk, ForgetRegistration
  <2>2. \A i \in 1 .. Len(inBuffer') : inBuffer'[i].stale
    BY <2>1, StaleLemma DEF TypeOK
  <2>3. AcceptedBy(inBuffer)' /\ AcceptedBy(socket)'
    BY <2>1, <2>2 DEF AcceptedBy
  <2> QED
    BY <2>1, <2>3 DEF AgreeInv, FreshResultAgrees
<1>6. CASE ConnectFails \/ SrpcFailure \/ RegistrationTimeout \/ StartSwUpdate \/ LinkDrops
  BY <1>1, <1>6 DEF ConnectFails, SrpcFailure, RegistrationTimeout, StartSwUpdate, LinkDrops
<1>7. CASE NothingReceived
  <2>1. PICK n \in Received : inBuffer' = AfterRead(n) /\ socket' = Unread(n)
    BY <1>7 DEF NothingReceived
  <2>2. UNCHANGED <<registered, connected, session, reply>>
    BY <1>7 DEF NothingReceived, history
  <2>3. connected => AcceptedBy(inBuffer)' /\ AcceptedBy(socket)'
    BY <2>1, <2>2, ReadAccepted DEF AcceptedBy
  <2> QED
    BY <2>2, <2>3 DEF AgreeInv, FreshResultAgrees
<1>8. CASE SrpcIterate
  BY <1>8, DispatchAccepted
<1>9. CASE Register
  <2>1. /\ registered' = -1 /\ UNCHANGED <<connected, inBuffer, socket>>
        /\ session = "accepted" => session' = "accepted"
    BY <1>9 DEF Register
  <2> QED
    BY <2>1 DEF AgreeInv, FreshResultAgrees, AcceptedBy
<1>10. CASE AwaitRegistration \/ Ping \/ ActivityTimeout \/ IterateElements \/ IterateSwUpdate
  BY <1>1, <1>2, <1>10 DEF AwaitRegistration, Ping, ActivityTimeout, AfterPing, IterateElements,
                           IterateSwUpdate, history
<1>11. ASSUME NEW call \in ServerCalls, ServerSends(call) PROVE AgreeInv'
  <2>1. /\ connected /\ socket' = socket \o Packet(call)
        /\ UNCHANGED <<inBuffer, connected, registered, reply>>
    BY <1>11 DEF ServerSends, history
  <2>2. \/ call \in Replies /\ session = "registering"
           /\ session' = IF call = "REGISTER_OK" THEN "accepted" ELSE "refused"
        \/ call \in Requests /\ session = "accepted" /\ session' = "accepted"
    BY <1>11 DEF ServerSends
  <2>3. \A i \in 1 .. Len(socket') :
          (\E j \in 1 .. Len(socket) : socket'[i] = socket[j]) \/ socket'[i].call = call
    BY <2>1, PacketLemma DEF TypeOK
  <2>4. session # "accepted" =>
          \A i \in 1 .. Len(socket) : socket[i].stale \/ socket[i].call # "REGISTER_OK"
    BY <2>1 DEF AgreeInv, AcceptedBy
  <2>5. AcceptedBy(socket)'
    BY <2>2, <2>3, <2>4 DEF AcceptedBy, Replies, Requests
  <2>6. AcceptedBy(inBuffer)' /\ FreshResultAgrees'
    BY <2>1, <2>2 DEF AgreeInv, AcceptedBy, FreshResultAgrees
  <2> QED
    BY <2>5, <2>6 DEF AgreeInv
<1>12. CASE \/ \E action \in LocalActions : HandleAction(action)
            \/ \E request \in WebRequests : HandleWebRequest(request)
            \/ NetworkChanges \/ Recover \/ Tick
  BY <1>2, <1>12 DEF HandleAction, HandleWebRequest, NetworkChanges, Recover, Tick, history
<1>13. CASE UNCHANGED vars
  BY <1>2, <1>13 DEF vars, history
<1> QED
  BY <1>3, <1>4, <1>5, <1>6, <1>7, <1>8, <1>9, <1>10, <1>11, <1>12, <1>13
  DEF Next, MainLoop, Environment
-----------------------------------------------------------------------------
(***************************************************************************)
(* Waits.                                                                  *)
(***************************************************************************)

\* The ages are numbers below their bound, and so is the wait owed.
LEMMA AgesLemma ==
  ASSUME TypeInv
  PROVE  /\ msAge \in Nat /\ iterAge \in Nat /\ owedAge \in Nat /\ owed \in Nat
         /\ waitForIterate \in Nat /\ notReadyAge \in Nat
         /\ iterAge <= AgeCap /\ owedAge <= AgeCap /\ owed < AgeCap /\ notReadyAge <= AgeCap
         /\ pc # "idle" => msAge < AgeCap
         /\ networkIsNotReadyCounter \in 0 .. NotReadyLimit
<1>1. \A w \in Waits : w \in Nat /\ w < AgeCap
  BY TimesAssumption
<1>2. /\ msAge \in Nat /\ iterAge \in Ages /\ owedAge \in Ages /\ owed \in Waits \cup {0}
      /\ waitForIterate \in Waits \cup {0} /\ notReadyAge \in Ages
      /\ networkIsNotReadyCounter \in 0 .. NotReadyLimit
  BY DEF TypeInv, TypeOK
<1>3. owed < AgeCap /\ owed \in Nat /\ waitForIterate \in Nat
  <2>1. 0 < AgeCap
    BY TimesLemma
  <2> QED
    BY <1>1, <1>2, <2>1
<1>4. pc # "idle" => msAge < AgeCap
  BY <1>2, TimesLemma DEF TypeInv
<1> QED
  BY <1>2, <1>3, <1>4, TimesLemma DEF Ages

\* What message_received does to the waits.
LEMMA DispatchWaits ==
  ASSUME NEW call, MessageReceived(call)
  PROVE  \/ iterAge' = 0 /\ UNCHANGED <<waitForIterate, owed, owedAge>>
         \/ iterAge' = 0 /\ owedAge' = 0 /\ waitForIterate' = owed'
         \/ UNCHANGED <<iterAge, waitForIterate, owed, owedAge>>
<1>1. CASE OnRegistered
  BY <1>1 DEF OnRegistered
<1>2. CASE OnRefused(NokWait) \/ OnRefused(VersionErrorWait)
  BY <1>2 DEF OnRefused, Owe
<1>3. CASE OnEnterCfgMode
  BY <1>3 DEF OnEnterCfgMode
<1>4. CASE UNCHANGED <<iterAge, waitForIterate, owed, owedAge>>
  BY <1>4
<1> QED
  BY <1>1, <1>2, <1>3, <1>4 DEF MessageReceived

\* Every step keeps the wait that is owed.
LEMMA WaitStep == ASSUME TypeInv, WaitInv, [Next]_vars PROVE WaitInv'
<1> USE AgesLemma DEF WaitInv
<1>1. CASE SoftRestart
  BY <1>1 DEF SoftRestart, Owe
<1>2. ASSUME UNCHANGED <<loopVars, registered, owed, owedAge>>,
             \/ UNCHANGED pc
             \/ pc' \notin {"check", "triggers", "gate", "setup", "connect", "srpc", "swUpdate"}
             \/ pc \in {"check", "triggers"} /\ pc' \in {"triggers", "gate"}
             \/ pc \in {"setup", "connect"} /\ pc' \in {"connect", "srpc", "swUpdate"}
      PROVE  WaitInv'
  BY <1>2 DEF loopVars
<1>3. CASE CheckIfRestartIsNeeded \/ HandleLocalActionTriggers
  BY <1>1, <1>2, <1>3 DEF CheckIfRestartIsNeeded, HandleLocalActionTriggers, history
<1>4. CASE Boot \/ AlreadyConnected
  BY <1>2, <1>4 DEF Boot, AlreadyConnected, history
<1>5. CASE IterateBegin
  BY <1>5 DEF IterateBegin, history
<1>6. CASE Gate
  <2>1. pc = "gate" /\ UNCHANGED <<owed, owedAge>>
    BY <1>6 DEF Gate, history
  <2>2. CASE forceRestartTimeMs # 0 \/ MustWait
    BY <1>6, <2>1, <2>2 DEF Gate, Return
  <2>3. CASE ~(forceRestartTimeMs # 0 \/ MustWait)
    <3>1. waitForIterate = 0 \/ Since(iterAge) >= waitForIterate
      <4>1. Since(iterAge) = iterAge - msAge
        BY <2>1 DEF Since
      <4> QED
        BY <2>3, <4>1 DEF MustWait
    <3>2. owedAge >= owed
      BY <2>1, <3>1 DEF Since
    <3>3. /\ pc' \in {"idle", "setup"} /\ msAge' \in {0, msAge} /\ iterAge' \in {msAge, iterAge}
          /\ registered # -1 => iterAge' = msAge
          /\ pc' = "setup" => msAge' = msAge
      BY <1>6, <2>3 DEF Gate, Return
    <3>4. UNCHANGED registered
      BY <1>6 DEF Gate
    <3> QED
      BY <2>1, <3>2, <3>3, <3>4
  <2> QED
    BY <2>2, <2>3
<1>7. CASE IterateNetworkSetup
  <2>1. pc = "setup" /\ UNCHANGED <<iterAge, owed, owedAge>>
        /\ pc' \in {"idle", "swUpdate", "connect"}
    BY <1>7 DEF IterateNetworkSetup, Return
  <2>2. pc' = "connect" => UNCHANGED msAge
    BY <1>7 DEF IterateNetworkSetup, Return
  <2>3. UNCHANGED registered
    BY <1>7 DEF IterateNetworkSetup
  <2> QED
    BY <2>1, <2>2, <2>3
<1>8. CASE ConnectOk
  BY <1>8 DEF ConnectOk, Owe, loopVars
<1>9. CASE ConnectFails
  <2>1. pc = "connect" /\ pc' = "idle" /\ owedAge >= owed /\ UNCHANGED iterAge
        /\ waitForIterate' = ConnectWait
    BY <1>9 DEF ConnectFails, Return
  <2>2. \/ owed' = 0 /\ owedAge' = 0
        \/ owed' = ConnectWait /\ owedAge' = msAge /\ registered # -1
    BY <1>9 DEF ConnectFails, Owe
  <2> QED
    BY <2>1, <2>2
<1>10. CASE SrpcFailure \/ RegistrationTimeout
  BY <1>10 DEF SrpcFailure, RegistrationTimeout, Return, WaitFromNow, Owe
<1>11. CASE NothingReceived
  BY <1>2, <1>11 DEF NothingReceived, history
<1>12. CASE SrpcIterate
  <2>1. PICK n \in Received : MessageReceived(AfterRead(n)[1].call)
    BY <1>12 DEF SrpcIterate
  <2>2. pc = "srpc" /\ pc' = "protocol"
    BY <1>12 DEF SrpcIterate
  <2> QED
    BY <2>1, <2>2, DispatchWaits
<1>13. CASE Register \/ AwaitRegistration \/ IterateElements \/ StartSwUpdate \/ IterateSwUpdate
  BY <1>13 DEF Register, AwaitRegistration, IterateElements, StartSwUpdate,
               IterateSwUpdate, Return, history
<1>14. CASE Ping \/ ActivityTimeout
  BY <1>14 DEF Ping, ActivityTimeout, AfterPing, Return, history
<1>15. CASE Tick
  BY <1>15 DEF Tick, Older
<1>16. CASE \/ \E action \in LocalActions : HandleAction(action)
            \/ \E request \in WebRequests : HandleWebRequest(request)
            \/ \E call \in ServerCalls : ServerSends(call)
            \/ LinkDrops \/ NetworkChanges \/ Recover
  BY <1>2, <1>16 DEF HandleAction, HandleWebRequest, ServerSends, LinkDrops, NetworkChanges,
                     Recover, history
<1>17. CASE UNCHANGED vars
  BY <1>2, <1>17 DEF vars, history
<1> QED
  BY <1>3, <1>4, <1>5, <1>6, <1>7, <1>8, <1>9, <1>10, <1>11, <1>12, <1>13, <1>14, <1>15, <1>16,
     <1>17
  DEF Next, MainLoop, Environment

\* One more not-ready iteration takes one more wait, and all of them can be told apart.
LEMMA DueLemma ==
  /\ Due(0) = 0
  /\ \A n \in Nat : Due(n) \in Nat /\ Due(n + 1) = Due(n) + NotReadyWait
  /\ NotReadyWait \in Nat /\ NotReadyLimit \in Nat /\ Due(NotReadyLimit) < AgeCap
<1>1. NotReadyWait \in Nat
  BY TimesLemma
<1>2. NotReadyLimit \in Nat /\ NotReadyWait * NotReadyLimit + MaxSlip < AgeCap
  BY TimesAssumption, CountersAssumption
<1>3. \A n \in Nat : /\ NotReadyWait * n \in Nat
                     /\ NotReadyWait * (n + 1) = NotReadyWait * n + NotReadyWait
  BY <1>1, SMT
<1>4. NotReadyWait * 0 = 0
  BY <1>1, SMT
<1>5. NotReadyWait * NotReadyLimit \in Nat
  BY <1>1, <1>2, <1>3
<1>6. NotReadyWait * NotReadyLimit < AgeCap
  <2> DEFINE d == NotReadyWait * NotReadyLimit
  <2>1. d \in Nat /\ d + MaxSlip < AgeCap
    BY <1>2, <1>5
  <2> HIDE DEF d
  <2>2. d < AgeCap
    BY <2>1, TimesLemma
  <2> QED
    BY <2>2 DEF d
<1> QED
  BY <1>1, <1>2, <1>3, <1>4, <1>6, Zenon DEF Due

\* Every step keeps the time that the not-ready iterations took.
LEMMA NotReadyStep ==
  ASSUME TypeInv, ModeInv, WaitInv, NotReadyInv, [Next]_vars PROVE NotReadyInv'
<1> USE AgesLemma, DueLemma DEF NotReadyInv
<1>1. ASSUME networkIsNotReadyCounter' = 0, pc' # "setup" PROVE NotReadyInv'
  BY <1>1
<1>2. ASSUME UNCHANGED <<networkIsNotReadyCounter, registered, waitForIterate, iterAge,
                         notReadyAge>>,
             deviceMode' = "CONFIG" \/ UNCHANGED deviceMode,
             \/ UNCHANGED <<pc, msAge>>
             \/ /\ pc \in {"idle", "check", "triggers", "gate"}
                /\ pc' \in {"idle", "check", "triggers", "gate"}
      PROVE  NotReadyInv'
  BY <1>2
<1>3. CASE SoftRestart
  BY <1>1, <1>3 DEF SoftRestart
<1>4. CASE CheckIfRestartIsNeeded
  BY <1>2, <1>3, <1>4 DEF CheckIfRestartIsNeeded, loopVars, counters, history
<1>5. CASE HandleLocalActionTriggers
  BY <1>2, <1>3, <1>5 DEF HandleLocalActionTriggers, loopVars, counters, history
<1>6. CASE Gate
  <2>1. pc = "gate" /\ UNCHANGED <<networkIsNotReadyCounter, registered, deviceMode, notReadyAge>>
        /\ iterAge >= msAge
    BY <1>6 DEF Gate, counters, history, WaitInv
  <2>2. CASE forceRestartTimeMs # 0 \/ MustWait
    BY <1>2, <1>6, <2>1, <2>2 DEF Gate, Return
  <2>3. CASE ~(forceRestartTimeMs # 0 \/ MustWait)
    <3>1. Since(iterAge) = iterAge - msAge
      BY <2>1 DEF Since
    <3>2. waitForIterate = 0 \/ iterAge - msAge >= waitForIterate
      BY <2>3, <3>1 DEF MustWait
    <3>3. registered # -1 => iterAge' = msAge
      BY <1>6, <2>3 DEF Gate
    <3>4. CASE deviceMode = "CONFIG"
      BY <1>6, <2>1, <2>3, <3>4 DEF Gate, Return
    <3>5. CASE deviceMode # "CONFIG"
      <4>1. pc' = "setup" /\ UNCHANGED msAge
        BY <1>6, <2>3, <3>5 DEF Gate
      <4>2. ASSUME networkIsNotReadyCounter > 0, registered # -1
            PROVE  \/ notReadyAge >= Due(networkIsNotReadyCounter) + msAge
                   \/ notReadyAge >= Due(NotReadyLimit)
        <5>1. Due(networkIsNotReadyCounter) = Due(networkIsNotReadyCounter - 1) + NotReadyWait
              /\ Due(networkIsNotReadyCounter - 1) \in Nat
          <6> DEFINE n == networkIsNotReadyCounter - 1
          <6>1. n \in Nat /\ n + 1 = networkIsNotReadyCounter
            BY <4>2
          <6>2. Due(n + 1) = Due(n) + NotReadyWait /\ Due(n) \in Nat
            BY <6>1
          <6> QED
            BY <6>1, <6>2
        <5>2. waitForIterate = NotReadyWait /\ NotReadyWait # 0
          BY <2>1, <3>5, <4>2, TimesLemma
        <5> QED
          BY <2>1, <3>2, <3>5, <4>2, <5>1, <5>2
      <4> QED
        BY <2>1, <3>3, <3>5, <4>1, <4>2
    <3> QED
      BY <3>4, <3>5
  <2> QED
    BY <2>2, <2>3
<1>7. CASE IterateNetworkSetup
  <2> DEFINE n == networkIsNotReadyCounter
  <2>1. pc = "setup" /\ UNCHANGED <<iterAge, registered, deviceMode>> /\ deviceMode # "CONFIG"
    BY <1>7 DEF IterateNetworkSetup, ModeInv
  <2>2. CASE netReady
    BY <1>7, <2>1, <2>2 DEF IterateNetworkSetup
  <2>3. CASE ~netReady
    <3>1. /\ pc' = "idle" /\ waitForIterate' = NotReadyWait
          /\ notReadyAge' = IF n = 0 THEN msAge ELSE notReadyAge
      BY <1>7, <2>3 DEF IterateNetworkSetup, Return
    <3>2. n' = 0 \/ n' = n + 1
      BY <1>7, <2>3 DEF IterateNetworkSetup
    <3>3. CASE n' = n + 1
      <4>1. n' - 1 = n
        BY <3>3
      <4>2. ASSUME registered # -1
            PROVE  notReadyAge' >= Due(n) + iterAge \/ notReadyAge' >= Due(NotReadyLimit)
        <5>1. iterAge = msAge
          BY <2>1, <4>2 DEF WaitInv
        <5>2. CASE n = 0
          BY <3>1, <5>1, <5>2
        <5>3. CASE n # 0
          BY <2>1, <3>1, <4>2, <5>3
        <5> QED
          BY <5>2, <5>3
      <4> QED
        BY <2>1, <3>1, <3>3, <4>1, <4>2
    <3> QED
      BY <1>1, <3>1, <3>2, <3>3
  <2> QED
    BY <2>2, <2>3
<1>8. CASE Boot \/ AlreadyConnected \/ ConnectOk \/ ConnectFails
  BY <1>1, <1>8 DEF Boot, AlreadyConnected, ConnectOk, ConnectFails, Return, counters
<1>9. CASE SrpcFailure \/ NothingReceived \/ SrpcIterate \/ Register \/ AwaitRegistration
           \/ RegistrationTimeout
  BY <1>1, <1>9 DEF SrpcFailure, NothingReceived, SrpcIterate, Register, AwaitRegistration,
                   RegistrationTimeout, Return, counters
<1>10. CASE Ping \/ ActivityTimeout \/ IterateElements \/ StartSwUpdate \/ IterateSwUpdate
  BY <1>1, <1>10 DEF Ping, ActivityTimeout, AfterPing, IterateElements, StartSwUpdate,
                    IterateSwUpdate, Return, counters
<1>11. CASE IterateBegin
  BY <1>2, <1>11 DEF IterateBegin, counters, history
<1>12. CASE \/ \E action \in LocalActions : HandleAction(action)
            \/ \E request \in WebRequests : HandleWebRequest(request)
            \/ \E call \in ServerCalls : ServerSends(call)
            \/ LinkDrops \/ NetworkChanges \/ Recover
  BY <1>2, <1>12 DEF HandleAction, HandleWebRequest, ServerSends, LinkDrops, NetworkChanges,
                     Recover, loopVars, counters, history
<1>13. CASE Tick
  <2>1. UNCHANGED <<pc, waitForIterate, registered, networkIsNotReadyCounter, deviceMode>>
    BY <1>13 DEF Tick, counters
  <2>2. /\ iterAge' = IF iterAge < AgeCap THEN iterAge + 1 ELSE iterAge
        /\ networkIsNotReadyCounter > 0 =>
             notReadyAge' = IF notReadyAge < AgeCap THEN notReadyAge + 1 ELSE notReadyAge
        /\ pc # "idle" => msAge' = msAge + 1
    BY <1>13 DEF Tick, Older
  <2>4. ASSUME networkIsNotReadyCounter > 0, NEW d \in Nat,
               notReadyAge >= d + iterAge \/ notReadyAge >= Due(NotReadyLimit)
        PROVE  notReadyAge' >= d + iterAge' \/ notReadyAge' >= Due(NotReadyLimit)
    <3>1. Due(NotReadyLimit) \in Nat /\ Due(NotReadyLimit) < AgeCap /\ AgeCap \in Nat
      BY TimesLemma
    <3>2. CASE notReadyAge < AgeCap
      BY <2>2, <2>4, <3>1, <3>2, SMTT(20)
    <3>3. CASE ~(notReadyAge < AgeCap)
      BY <2>2, <2>4, <3>1, <3>3
    <3> QED
      BY <3>2, <3>3
  <2>5. networkIsNotReadyCounter > 0 =>
          Due(networkIsNotReadyCounter) \in Nat /\ Due(networkIsNotReadyCounter - 1) \in Nat
    OBVIOUS
  <2> QED
    BY <2>1, <2>4, <2>5
<1>14. CASE UNCHANGED vars
  BY <1>2, <1>14 DEF vars, loopVars, counters, history
<1> QED
  BY <1>4, <1>5, <1>6, <1>7, <1>8, <1>9, <1>10, <1>11, <1>12, <1>13, <1>14
  DEF Next, MainLoop, Environment

\* What the invariants say of a connection attempt and of a network that is not ready.
LEMMA WaitsLemma ==
  ASSUME TypeInv, ModeInv, WaitInv, NotReadyInv
  PROVE  /\ ConnectOk \/ ConnectFails => owedAge >= owed
         /\ /\ IterateNetworkSetup /\ connectionFailCounter' # connectionFailCounter
            /\ registered # -1
            => notReadyAge >= NotReadyWait * NotReadyLimit
<1>1. ConnectOk \/ ConnectFails => owedAge >= owed
  BY DEF ConnectOk, ConnectFails, WaitInv
<1>2. ASSUME IterateNetworkSetup, connectionFailCounter' # connectionFailCounter, registered # -1
      PROVE  notReadyAge >= Due(NotReadyLimit)
  <2>1. pc = "setup" /\ networkIsNotReadyCounter + 1 > NotReadyLimit
    BY <1>2 DEF IterateNetworkSetup, NotReadyTooLong
  <2>2. networkIsNotReadyCounter = NotReadyLimit
    <3>1. networkIsNotReadyCounter \in 0 .. NotReadyLimit /\ NotReadyLimit \in Nat
      BY AgesLemma, TimesLemma
    <3> QED
      BY <2>1, <3>1
  <2>3. deviceMode # "CONFIG"
    BY <2>1 DEF ModeInv
  <2>4. CASE NotReadyLimit = 0
    BY <2>4, AgesLemma, DueLemma
  <2>5. CASE NotReadyLimit > 0
    BY <1>2, <2>1, <2>2, <2>3, <2>5, AgesLemma, DueLemma DEF NotReadyInv
  <2> QED
    BY <2>4, <2>5, DueLemma
<1> QED
  BY <1>1, <1>2 DEF Due

USE TimesAssumption, CountersAssumption, CallsAssumption

-----------------------------------------------------------------------------
(***************************************************************************)
(* The counters.                                                           *)
(***************************************************************************)

\* Between two neighbouring multiples of SetupPeriod there is none.
LEMMA PeriodLemma ==
  ASSUME NEW last \in Nat, last % SetupPeriod = 0, NEW fail \in last .. last + SetupPeriod
  PROVE  fail % SetupPeriod = 0 <=> fail \in {last, last + SetupPeriod}
<1> DEFINE k == last \div SetupPeriod  q == fail \div SetupPeriod  r == fail % SetupPeriod
<1>1. k \in Int /\ last = SetupPeriod * k
  BY SMT
<1>2. q \in Int /\ r \in 0 .. SetupPeriod - 1 /\ fail = SetupPeriod * q + r
  BY SMT
<1> HIDE DEF k, q, r
<1>3. /\ fail - last = SetupPeriod * (q - k) + r
      /\ fail - last \in 0 .. SetupPeriod /\ r \in 0 .. SetupPeriod - 1
  BY <1>1, <1>2, SMT
<1>4. CASE q - k <= -1
  <2>1. SetupPeriod * (q - k) <= SetupPeriod * (-1)
    BY <1>1, <1>2, <1>4, SMT
  <2> DEFINE d == SetupPeriod * (q - k)
  <2>2. d \in Int /\ d <= -SetupPeriod /\ fail - last = d + r
    BY <1>1, <1>2, <1>3, <2>1
  <2> HIDE DEF d
  <2>3. fail - last >= 0 /\ r <= SetupPeriod - 1 /\ r \in Int /\ fail \in Nat
    BY <1>3
  <2> QED
    BY <2>2, <2>3, SMT
<1>5. CASE q - k >= 2
  <2>1. SetupPeriod * (q - k) >= SetupPeriod * 2
    BY <1>1, <1>2, <1>5, SMT
  <2> DEFINE d == SetupPeriod * (q - k)
  <2>2. d \in Int /\ d >= SetupPeriod * 2 /\ fail - last = d + r
    BY <1>1, <1>2, <1>3, <2>1
  <2> HIDE DEF d
  <2>3. fail - last <= SetupPeriod /\ r >= 0 /\ r \in Int /\ fail \in Nat
    BY <1>3
  <2> QED
    BY <2>2, <2>3, SMT
<1>6. CASE q - k = 0
  BY <1>2, <1>3, <1>6, SMT DEF r
<1>7. CASE q - k = 1
  BY <1>2, <1>3, <1>7, SMT DEF r
<1> QED
  BY <1>1, <1>2, <1>4, <1>5, <1>6, <1>7, SMT

\* begin() starts from 0 failures, not connecting.
LEMMA InitCounters == Init => SetupInv /\ ThresholdInv
<1>1. 0 % SetupPeriod = 0
  BY SMT
<1> QED
  BY <1>1 DEF Init, Begin, SetupInv, ThresholdInv

\* A restart starts from 0 as well.
LEMMA RestartCounters == SoftRestart => SetupInv' /\ ThresholdInv'
<1>1. 0 % SetupPeriod = 0
  BY SMT
<1> QED
  BY <1>1 DEF SoftRestart, SetupInv, ThresholdInv

\* Every step keeps the distance between failures and network setups.
LEMMA SetupStep == ASSUME SetupInv, [Next]_vars PROVE SetupInv'
<1>1. CASE SoftRestart
  BY <1>1, RestartCounters
<1>2. CASE ConnectOk
  <2>1. 0 % SetupPeriod = 0
    BY SMT
  <2> QED
    BY <1>2, <2>1 DEF ConnectOk, SetupInv
<1>3. CASE ConnectFails
  BY <1>3 DEF ConnectFails, Return, CountFailure, SetupInv
<1>4. CASE IterateNetworkSetup
  <2> DEFINE fail == connectionFailCounter  last == lastConnectionResetCounter
             again == IF SetupAgain THEN fail ELSE last
  <2>1. fail \in Nat /\ last \in Nat /\ last <= fail /\ fail <= last + SetupPeriod
        /\ networkIsNotReadyCounter \in Nat /\ last % SetupPeriod = 0
        /\ (fail = last + SetupPeriod => networkIsNotReadyCounter = 0)
    BY DEF SetupInv
  <2>2. fail % SetupPeriod = 0 <=> fail \in {last, last + SetupPeriod}
    <3>1. fail \in last .. last + SetupPeriod
      BY <2>1
    <3> HIDE DEF fail, last
    <3> QED
      BY <2>1, <3>1, PeriodLemma, Zenon
  <2>3. SetupAgain <=> fail = last + SetupPeriod
    BY <2>1, <2>2 DEF SetupAgain
  <2>4. again \in Nat /\ again % SetupPeriod = 0 /\ again <= fail /\ fail < again + SetupPeriod
    BY <2>1, <2>2, <2>3
  <2>5. lastConnectionResetCounter' = again
    BY <1>4 DEF IterateNetworkSetup
  <2> HIDE DEF again
  <2>6. CASE ~netReady
    <3>1. pc' = "idle" /\ networkIsNotReadyCounter' \in Nat
      BY <1>4, <2>1, <2>6 DEF IterateNetworkSetup, Return
    <3>2. \/ connectionFailCounter' = fail
          \/ connectionFailCounter' = fail + 1 /\ networkIsNotReadyCounter' = 0
      BY <1>4, <2>6 DEF IterateNetworkSetup, CountFailure
    <3> QED
      BY <2>1, <2>4, <2>5, <3>1, <3>2 DEF SetupInv
  <2>7. CASE netReady
    <3>1. networkIsNotReadyCounter' = 0 /\ connectionFailCounter' = fail
      BY <1>4, <2>7 DEF IterateNetworkSetup
    <3> QED
      BY <2>1, <2>4, <2>5, <3>1 DEF SetupInv
  <2> QED
    BY <2>6, <2>7
<1>5. ASSUME UNCHANGED counters, pc' # "connect" \/ UNCHANGED pc PROVE SetupInv'
  BY <1>5 DEF SetupInv, counters
<1>6. CASE CheckIfRestartIsNeeded \/ HandleLocalActionTriggers
  BY <1>1, <1>5, <1>6 DEF CheckIfRestartIsNeeded, HandleLocalActionTriggers
<1>7. CASE Boot \/ IterateBegin \/ Gate \/ AlreadyConnected
  BY <1>5, <1>7 DEF Boot, IterateBegin, Gate, AlreadyConnected, Return
<1>8. CASE SrpcFailure \/ NothingReceived \/ SrpcIterate
  BY <1>5, <1>8 DEF SrpcFailure, NothingReceived, SrpcIterate, Return
<1>9. CASE Register \/ AwaitRegistration \/ RegistrationTimeout \/ Ping \/ ActivityTimeout
  BY <1>5, <1>9 DEF Register, AwaitRegistration, RegistrationTimeout, Ping, ActivityTimeout,
                    AfterPing, Return
<1>10. CASE IterateElements \/ StartSwUpdate \/ IterateSwUpdate
  BY <1>5, <1>10 DEF IterateElements, StartSwUpdate, IterateSwUpdate, Return
<1>11. CASE Environment
  BY <1>5, <1>11 DEF Environment, HandleAction, HandleWebRequest, ServerSends, LinkDrops,
                     NetworkChanges, Recover, Tick
<1>12. CASE UNCHANGED vars
  BY <1>5, <1>12 DEF vars
<1> QED
  BY <1>2, <1>3, <1>4, <1>6, <1>7, <1>8, <1>9, <1>10, <1>11, <1>12 DEF Next, MainLoop

\* Every step keeps the failures below the number that restarts the device, until the check.
LEMMA ThresholdStep == ASSUME ThresholdInv, [Next]_vars PROVE ThresholdInv'
<1>1. CASE SoftRestart
  BY <1>1, RestartCounters
<1>2. CASE CheckIfRestartIsNeeded
  BY <1>1, <1>2 DEF CheckIfRestartIsNeeded, RestartIsNeeded, ThresholdInv, counters
<1>3. CASE HandleLocalActionTriggers
  BY <1>1, <1>3 DEF HandleLocalActionTriggers, ThresholdInv, counters
<1>4. CASE ConnectOk
  BY <1>4 DEF ConnectOk, ThresholdInv
<1>5. CASE ConnectFails
  BY <1>5 DEF ConnectFails, CountFailure, Return, ThresholdInv
<1>6. CASE IterateNetworkSetup
  BY <1>6 DEF IterateNetworkSetup, CountFailure, Return, ThresholdInv
<1>7. ASSUME UNCHANGED counters,
             pc' \in {"idle", "check"} \/ UNCHANGED pc \/ pc \notin {"off", "idle", "check"}
      PROVE  ThresholdInv'
  BY <1>7 DEF ThresholdInv, counters
<1>8. CASE Boot \/ IterateBegin \/ Gate \/ AlreadyConnected
  BY <1>7, <1>8 DEF Boot, IterateBegin, Gate, AlreadyConnected
<1>9. CASE SrpcFailure \/ NothingReceived \/ SrpcIterate
  BY <1>7, <1>9 DEF SrpcFailure, NothingReceived, SrpcIterate
<1>10. CASE Register \/ AwaitRegistration \/ RegistrationTimeout \/ Ping \/ ActivityTimeout
  BY <1>7, <1>10 DEF Register, AwaitRegistration, RegistrationTimeout, Ping, ActivityTimeout,
                     AfterPing
<1>11. CASE IterateElements \/ StartSwUpdate \/ IterateSwUpdate
  BY <1>7, <1>11 DEF IterateElements, StartSwUpdate, IterateSwUpdate
<1>12. CASE Environment
  BY <1>7, <1>12 DEF Environment, HandleAction, HandleWebRequest, ServerSends, LinkDrops,
                     NetworkChanges, Recover, Tick
<1>13. CASE UNCHANGED vars
  BY <1>7, <1>13 DEF vars
<1> QED
  BY <1>2, <1>3, <1>4, <1>5, <1>6, <1>8, <1>9, <1>10, <1>11, <1>12, <1>13 DEF Next, MainLoop
-----------------------------------------------------------------------------
(***************************************************************************)
(* Registration.                                                           *)
(***************************************************************************)

\* What message_received does to a registration.
LEMMA ReceivedLemma ==
  ASSUME NEW call, MessageReceived(call)
  PROVE  /\ registered' = registered \/ registered' = 1
         /\ connected' = connected \/ connected' = FALSE
         /\ deviceMode' = deviceMode \/ (deviceMode' = "CONFIG" /\ connected' = FALSE)
<1>1. CASE OnRegistered
  <2>1. registered' = 1 /\ UNCHANGED connected /\ UNCHANGED deviceMode
    BY <1>1, Zenon DEF OnRegistered
  <2> QED
    BY <2>1, Zenon
<1>2. CASE OnRefused(NokWait) \/ OnRefused(VersionErrorWait)
  BY <1>2 DEF OnRefused, Disconnect
<1>3. CASE OnEnterCfgMode
  BY <1>3 DEF OnEnterCfgMode, Disconnect
<1>4. CASE UNCHANGED <<registered, connected, deviceMode>>
  <2>1. UNCHANGED registered /\ UNCHANGED connected /\ UNCHANGED deviceMode
    BY <1>4, Zenon
  <2> QED
    BY <2>1, Zenon
<1> QED
  BY <1>1, <1>2, <1>3, <1>4 DEF MessageReceived

\* Every step keeps one registration to a connection.
LEMMA RegisterStep == ASSUME RegisterInv, [Next]_vars PROVE RegisterInv'
<1>1. CASE SoftRestart
  BY <1>1 DEF SoftRestart, Disconnect, RegisterInv
<1>2. CASE CheckIfRestartIsNeeded \/ HandleLocalActionTriggers
  BY <1>1, <1>2 DEF CheckIfRestartIsNeeded, HandleLocalActionTriggers, Disconnect, RegisterInv,
                    link, history
<1>3. CASE Boot \/ IterateBegin \/ Gate \/ IterateNetworkSetup
  BY <1>3 DEF Boot, IterateBegin, Gate, IterateNetworkSetup, Return, RegisterInv, link, history
<1>4. CASE AlreadyConnected \/ ConnectOk
  BY <1>4 DEF AlreadyConnected, ConnectOk, RegisterInv, link, history
<1>5. CASE ConnectFails
  BY <1>5 DEF ConnectFails, Return, Disconnect, RegisterInv
<1>6. CASE SrpcFailure \/ NothingReceived
  BY <1>6 DEF SrpcFailure, NothingReceived, Return, Disconnect, RegisterInv, history
<1>7. CASE SrpcIterate
  BY <1>7, ReceivedLemma DEF SrpcIterate, RegisterInv
<1>8. CASE Register
  BY <1>8 DEF Register, Return, RegisterInv
<1>9. CASE AwaitRegistration \/ RegistrationTimeout
  BY <1>9 DEF AwaitRegistration, RegistrationTimeout, Return, Disconnect, RegisterInv, link,
              history
<1>10. CASE Ping \/ ActivityTimeout \/ IterateElements
  BY <1>10 DEF Ping, ActivityTimeout, AfterPing, IterateElements, Return, Disconnect,
               RegisterInv, link, history
<1>11. CASE StartSwUpdate \/ IterateSwUpdate
  BY <1>11 DEF StartSwUpdate, IterateSwUpdate, Return, Disconnect, RegisterInv, link, history
<1>12. CASE Environment
  BY <1>12 DEF Environment, HandleAction, HandleWebRequest, ServerSends, LinkDrops,
               NetworkChanges, Recover, Tick, Disconnect, RegisterInv, link, history
<1>13. CASE UNCHANGED vars
  BY <1>13 DEF vars, RegisterInv, link, history
<1> QED
  BY <1>2, <1>3, <1>4, <1>5, <1>6, <1>7, <1>8, <1>9, <1>10, <1>11, <1>12, <1>13
  DEF Next, MainLoop
-----------------------------------------------------------------------------
(***************************************************************************)
(* Configuration mode.                                                     *)
(***************************************************************************)

\* Every step keeps configuration mode off line.
LEMMA ModeStep == ASSUME ModeInv, [Next]_vars PROVE ModeInv'
<1>1. CASE SoftRestart
  BY <1>1 DEF SoftRestart, Disconnect, ModeInv
<1>2. CASE CheckIfRestartIsNeeded \/ HandleLocalActionTriggers
  BY <1>1, <1>2 DEF CheckIfRestartIsNeeded, HandleLocalActionTriggers, Disconnect, ModeInv, link
<1>3. CASE Boot
  BY <1>3 DEF Boot, ModeInv, link
<1>4. CASE IterateBegin \/ Gate \/ IterateNetworkSetup \/ AlreadyConnected
  BY <1>4 DEF IterateBegin, Gate, IterateNetworkSetup, AlreadyConnected, Return, ModeInv, link
<1>5. CASE ConnectOk \/ ConnectFails
  BY <1>5 DEF ConnectOk, ConnectFails, Return, Disconnect, ModeInv
<1>6. CASE SrpcFailure \/ NothingReceived
  BY <1>6 DEF SrpcFailure, NothingReceived, Return, Disconnect, ModeInv
<1>7. CASE SrpcIterate
  BY <1>7, ReceivedLemma DEF SrpcIterate, ModeInv
<1>8. CASE Register \/ AwaitRegistration \/ RegistrationTimeout
  BY <1>8 DEF Register, AwaitRegistration, RegistrationTimeout, Return, Disconnect, ModeInv, link
<1>9. CASE Ping \/ ActivityTimeout \/ IterateElements
  BY <1>9 DEF Ping, ActivityTimeout, AfterPing, IterateElements, Return, Disconnect, ModeInv,
              link
<1>10. CASE StartSwUpdate \/ IterateSwUpdate
  BY <1>10 DEF StartSwUpdate, IterateSwUpdate, Return, Disconnect, ModeInv, link
<1>11. CASE Environment
  BY <1>11 DEF Environment, HandleAction, HandleWebRequest, ServerSends, LinkDrops,
               NetworkChanges, Recover, Tick, Disconnect, ModeInv, link
<1>12. CASE UNCHANGED vars
  BY <1>12 DEF vars, ModeInv, link
<1> QED
  BY <1>2, <1>3, <1>4, <1>5, <1>6, <1>7, <1>8, <1>9, <1>10, <1>11, <1>12 DEF Next, MainLoop
-----------------------------------------------------------------------------
(***************************************************************************)
(* The theorems.                                                           *)
(***************************************************************************)

\* However failures of network and server follow each other, at most SetupPeriod of them pass
\* between two calls of Network::Setup().
THEOREM SetupComesInTime == Spec => []SetupNotStarved
<1>1. Init => SetupInv
  BY InitCounters
<1>2. SetupInv /\ [Next]_vars => SetupInv'
  BY SetupStep
<1>3. SetupInv => SetupNotStarved
  BY DEF SetupInv, SetupNotStarved
<1> QED
  BY <1>1, <1>2, <1>3, PTL DEF Spec

\* The "==" of checkIfRestartIsNeeded() cannot be jumped over.
THEOREM ThresholdIsMet == Spec => []ResetThresholdNotSkipped
<1>1. Init => ThresholdInv
  BY InitCounters
<1>2. ThresholdInv /\ [Next]_vars => ThresholdInv'
  BY ThresholdStep
<1>3. ThresholdInv => ResetThresholdNotSkipped
  BY DEF ThresholdInv, ResetThresholdNotSkipped
<1> QED
  BY <1>1, <1>2, <1>3, PTL DEF Spec

\* Whatever the server answers and wherever a connection breaks, the device sends no second
\* registration on it.
THEOREM OneRegistration == Spec => []RegistersOnce
<1>1. Init => RegisterInv
  BY DEF Init, Begin, RegisterInv
<1>2. RegisterInv /\ [Next]_vars => RegisterInv'
  BY RegisterStep
<1>3. RegisterInv => RegistersOnce
  BY DEF RegisterInv, RegistersOnce
<1> QED
  BY <1>1, <1>2, <1>3, PTL DEF Spec

\* The device has no link to the server in configuration mode, however it got there.
THEOREM ConfigModeHasNoLink == Spec => []ConfigModeIsOffline
<1>1. Init => ModeInv
  BY DEF Init, Begin, ModeInv
<1>2. ModeInv /\ [Next]_vars => ModeInv'
  BY ModeStep
<1>3. ModeInv => ConfigModeIsOffline
  BY DEF ModeInv, ConfigModeIsOffline
<1> QED
  BY <1>1, <1>2, <1>3, PTL DEF Spec

\* Every variable keeps its type, whatever is received, lost or timed out.
THEOREM TypesAreKept == Spec => []TypeOK
<1>1. Init => TypeInv
  BY InitTypes
<1>2. TypeInv /\ [Next]_vars => TypeInv'
  BY TypeStep
<1>3. TypeInv => TypeOK
  BY DEF TypeInv
<1> QED
  BY <1>1, <1>2, <1>3, PTL DEF Spec

\* A device that holds itself registered by what it received on this connection is registered
\* in the eyes of the server, however packets are torn, glued or left behind.
THEOREM FreshResultIsTrue == Spec => []FreshResultAgrees
<1>1. Init => TypeInv /\ AgreeInv
  BY InitTypes DEF Init, Begin, AgreeInv, FreshResultAgrees
<1>2. TypeInv /\ AgreeInv /\ [Next]_vars => TypeInv' /\ AgreeInv'
  BY TypeStep, AgreeStep DEF TypeInv
<1>3. AgreeInv => FreshResultAgrees
  BY DEF AgreeInv
<1> QED
  BY <1>1, <1>2, <1>3, PTL DEF Spec

\* The device tries no connection before the wait owed for the last failure is over, and does
\* not count a network that is not ready before all its waits are.
THEOREM WaitsAreObserved == Spec => WaitsAreKept
<1> DEFINE Inv == TypeInv /\ ModeInv /\ WaitInv /\ NotReadyInv
<1>1. Init => Inv
  BY InitTypes DEF Init, Begin, ModeInv, WaitInv, NotReadyInv
<1>2. Inv /\ [Next]_vars => Inv'
  BY TypeStep, ModeStep, WaitStep, NotReadyStep
<1>3. Inv /\ [Next]_vars =>
        [ /\ ConnectOk \/ ConnectFails => owedAge >= owed
          /\ /\ IterateNetworkSetup /\ connectionFailCounter' # connectionFailCounter
             /\ registered # -1
             => notReadyAge >= NotReadyWait * NotReadyLimit ]_vars
  BY WaitsLemma
<1> QED
  BY <1>1, <1>2, <1>3, PTL DEF Spec, WaitsAreKept
=============================================================================
