------------------------------ MODULE Network ------------------------------
(***************************************************************************)
(* The keep-alive of the link to the Supla server: the time counters of    *)
(* Supla::Network and the ping() the main loop calls while the device is   *)
(* registered.                                                             *)
(*                                                                         *)
(* The code keeps the time stamps lastSentMs, lastResponseMs and           *)
(* lastPingTimeMs and subtracts them from millis(); the model keeps the    *)
(* differences, "millis() - stamp".  They are measured in ticks, Second    *)
(* of them to a second.                                                    *)
(***************************************************************************)
EXTENDS Integers

CONSTANTS
  Second,          \* ticks in a second
  PingGap,         \* least time between two pings (5000 ms), in ticks
  Margin,          \* seconds before the activity timeout when a ping is due (5)
  Grace,           \* seconds after the activity timeout when the link is dead (10)
  Timeouts,        \* the activity timeouts, in seconds, the server may set
  ActivityTimeout, \* the activity timeout the device asks for
  LoopBound,       \* longest time between two calls of ping(), in ticks
  Latency,         \* longest time a live server takes to answer a ping, in ticks
  AgeCap           \* bound: an age stops growing here, above every limit it is compared to

ASSUME TimesAssumption ==
  /\ {Second, PingGap, Margin, Grace, LoopBound, Latency} \subseteq Nat \ {0}
  /\ PingGap <= Margin * Second

\* The server never sets a timeout that leaves no room for a ping.
ASSUME TimeoutsAssumption ==
  /\ Timeouts \subseteq Nat
  /\ ActivityTimeout \in Timeouts
  /\ \A t \in Timeouts : t >= 2 * Margin

\* The main loop comes round, and a live server answers, within a few seconds.
ASSUME SpeedAssumption ==
  /\ LoopBound < Margin * Second
  /\ Latency < PingGap
  /\ LoopBound + Latency <= (Margin + Grace) * Second

ASSUME AgeCapAssumption ==
  /\ AgeCap \in Nat
  /\ \A t \in Timeouts : AgeCap > (t + Grace) * Second + LoopBound

VARIABLES
  link,            \* "down", "up", or "broken": connected() holds, nothing passes
  registered,      \* SuplaDeviceClass::registered = 1: the loop calls ping()
  turn,            \* what the loop does next: "srpc" (srpc_iterate) or "ping"
  sentAge,         \* millis() - lastSentMs
  responseAge,     \* millis() - lastResponseMs
  pingAge,         \* millis() - lastPingTimeMs
  serverActivityTimeoutS,
  loopAge,         \* time since the last ping(), or the registration result before it
  granted,         \* serverActivityTimeoutS at that ping(), 0 before the first one
  replyAge         \* age of the ping the server has not answered yet, -1 if none

vars == <<link, registered, turn, sentAge, responseAge, pingAge,
          serverActivityTimeoutS, loopAge, granted, replyAge>>

TypeOK ==
  /\ link \in {"down", "up", "broken"}
  /\ registered \in BOOLEAN
  /\ turn \in {"srpc", "ping"}
  /\ sentAge \in Nat /\ responseAge \in Nat /\ pingAge \in Nat /\ loopAge \in Nat
  /\ serverActivityTimeoutS \in Timeouts
  /\ granted \in Timeouts \cup {0}
  /\ replyAge \in Nat \cup {-1}

Init ==
  /\ link = "down" /\ registered = FALSE /\ turn = "srpc"
  /\ sentAge = 0 /\ responseAge = 0 /\ pingAge = 0 /\ loopAge = 0
  /\ serverActivityTimeoutS \in Timeouts
  /\ granted = 0 /\ replyAge = -1

-----------------------------------------------------------------------------
\* data_write: a write that gets through stamps lastSentMs.
DataWrite == sentAge' = IF link = "up" THEN 0 ELSE sentAge

Seconds(ticks) == ticks \div Second

Disconnected == /\ link' = "down" /\ registered' = FALSE /\ turn' = "srpc"
                /\ granted' = 0 /\ loopAge' = 0 /\ replyAge' = -1

\* Network::Connect; the registration message goes out on the new link.
Connect ==
  /\ link = "down"
  /\ link' = "up" /\ sentAge' = 0 /\ responseAge' = 0 /\ pingAge' = 0
  /\ UNCHANGED <<registered, turn, serverActivityTimeoutS, loopAge, granted, replyAge>>

\* SUPLA_SD_CALL_REGISTER_DEVICE_RESULT with SUPLA_RESULTCODE_TRUE: the device takes over
\* the server's timeout and, if it is not its own, asks for its own.
OnRegisterResult(timeout) ==
  /\ link = "up" /\ turn = "srpc" /\ ~registered
  /\ registered' = TRUE /\ turn' = "ping"
  /\ responseAge' = 0
  /\ serverActivityTimeoutS' = timeout
  /\ IF timeout # ActivityTimeout THEN DataWrite ELSE UNCHANGED sentAge
  /\ loopAge' = 0
  /\ UNCHANGED <<link, pingAge, granted, replyAge>>

\* Wrong variant, for mutation testing: the timeout is stored in milliseconds.
TimeoutInMilliseconds(timeout) ==
  /\ link = "up" /\ turn = "srpc" /\ registered
  /\ turn' = "ping"
  /\ responseAge' = 0
  /\ serverActivityTimeoutS' = timeout * Second
  /\ UNCHANGED <<link, registered, sentAge, pingAge, loopAge, granted, replyAge>>

\* SUPLA_SDC_CALL_SET_ACTIVITY_TIMEOUT_RESULT
SetActivityTimeoutResult(timeout) ==
  /\ link = "up" /\ turn = "srpc" /\ registered
  /\ turn' = "ping"
  /\ responseAge' = 0
  /\ serverActivityTimeoutS' = timeout
  /\ UNCHANGED <<link, registered, sentAge, pingAge, loopAge, granted, replyAge>>

\* SUPLA_SDC_CALL_PING_SERVER_RESULT: message_received only stamps lastResponseMs.
PingServerResult ==
  /\ link = "up" /\ turn = "srpc" /\ registered /\ replyAge >= 0
  /\ turn' = "ping"
  /\ responseAge' = 0 /\ replyAge' = -1
  /\ UNCHANGED <<link, registered, sentAge, pingAge, serverActivityTimeoutS, loopAge, granted>>

\* Any other call from the server; some are answered at once.
OtherMessage ==
  /\ link = "up" /\ turn = "srpc" /\ registered
  /\ turn' = "ping"
  /\ responseAge' = 0
  /\ DataWrite \/ UNCHANGED sentAge
  /\ UNCHANGED <<link, registered, pingAge, serverActivityTimeoutS, loopAge, granted, replyAge>>

\* srpc_iterate with nothing to read.
NoMessage ==
  /\ link # "down" /\ turn = "srpc" /\ registered
  /\ turn' = "ping"
  /\ UNCHANGED <<link, registered, sentAge, responseAge, pingAge,
                 serverActivityTimeoutS, loopAge, granted, replyAge>>

ServerSilent == Seconds(responseAge) >= serverActivityTimeoutS + Grace

\* Wrong variants: a ping for one of the two reasons only.
PingDueOnSilence ==
  pingAge >= PingGap /\ Seconds(responseAge) >= serverActivityTimeoutS - Margin
PingDueOnIdle ==
  pingAge >= PingGap /\ Seconds(sentAge) >= serverActivityTimeoutS - Margin

PingDue ==
  /\ pingAge >= PingGap
  /\ \/ Seconds(responseAge) >= serverActivityTimeoutS - Margin
     \/ Seconds(sentAge) >= serverActivityTimeoutS - Margin

\* Network::ping and what the main loop makes of its result: no answer for too long ends
\* the connection, otherwise a ping is sent when one is due.
Ping ==
  /\ registered /\ turn = "ping" /\ link # "down"
  /\ IF ServerSilent
       THEN /\ Disconnected
            /\ UNCHANGED <<sentAge, responseAge, pingAge>>
       ELSE /\ turn' = "srpc" /\ loopAge' = 0 /\ granted' = serverActivityTimeoutS
            /\ IF PingDue
                 THEN /\ pingAge' = 0
                      /\ DataWrite
                      /\ replyAge' = IF replyAge = -1 /\ link = "up" THEN 0 ELSE replyAge
                 ELSE UNCHANGED <<pingAge, sentAge, replyAge>>
            /\ UNCHANGED <<link, registered, responseAge>>
  /\ UNCHANGED serverActivityTimeoutS

\* An element reports its value: iterateConnected after ping().
ElementSends ==
  /\ link # "down" /\ turn = "srpc" /\ registered /\ granted # 0
  /\ DataWrite
  /\ UNCHANGED <<link, registered, turn, responseAge, pingAge,
                 serverActivityTimeoutS, loopAge, granted, replyAge>>

\* The server or the network goes away without closing the connection ...
LinkBreaks ==
  /\ link = "up"
  /\ link' = "broken" /\ replyAge' = -1
  /\ UNCHANGED <<registered, turn, sentAge, responseAge, pingAge,
                 serverActivityTimeoutS, loopAge, granted>>

\* ... or it is closed, or registration is refused, and the loop sees Connected() = FALSE.
LinkCloses ==
  /\ link # "down"
  /\ Disconnected
  /\ UNCHANGED <<sentAge, responseAge, pingAge, serverActivityTimeoutS>>

Older(age) == IF age < AgeCap THEN age + 1 ELSE age

\* Time passes, but the loop comes round and a live server answers in time.
Tick ==
  /\ link # "down"
  /\ registered => loopAge < LoopBound
  /\ replyAge < Latency
  /\ sentAge' = Older(sentAge) /\ responseAge' = Older(responseAge)
  /\ pingAge' = Older(pingAge)
  /\ loopAge' = IF registered THEN loopAge + 1 ELSE loopAge
  /\ replyAge' = IF replyAge >= 0 THEN replyAge + 1 ELSE replyAge
  /\ UNCHANGED <<link, registered, turn, serverActivityTimeoutS, granted>>

Message ==
  \/ \E timeout \in Timeouts : OnRegisterResult(timeout) \/ SetActivityTimeoutResult(timeout)
  \/ PingServerResult \/ OtherMessage

Next ==
  \/ Connect \/ Message \/ NoMessage \/ Ping \/ ElementSends
  \/ LinkBreaks \/ LinkCloses \/ Tick

Spec == Init /\ [][Next]_vars

-----------------------------------------------------------------------------
\* ping() keeps a registered device from going quiet: whatever the loop does in between, the
\* device has sent something within the activity timeout that held at the last ping().
KeepAlive == (link = "up" /\ granted # 0) => sentAge < granted * Second

\* ping() never gives up on a server that answers: on a live link the silence that would
\* make it return false is not reached, though each ping may wait for the previous one.
NoFalseTimeout ==
  (link = "up" /\ granted # 0) =>
    responseAge < (serverActivityTimeoutS + Grace) * Second

\* ping() gives up on a server that does not: a registered device whose link is broken
\* leaves it one loop after the grace period at the latest.
DeadLinkDetected ==
  (link # "down" /\ granted # 0) => responseAge < (granted + Grace) * Second + LoopBound

\* ping() tells a silent server from a busy device: neither does an answering server lose its
\* device, nor does a device stay with a dead link.
SilenceIsJudged == NoFalseTimeout /\ DeadLinkDetected
=============================================================================
