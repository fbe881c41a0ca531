----------------------------- MODULE NetDriver -----------------------------
(***************************************************************************)
(* The network drivers behind Supla::Network and what the main loop asks   *)
(* of them: an ESP8266 or ESP32 on Wi-Fi, an ESP32 with an Ethernet PHY,   *)
(* an Arduino with an Ethernet shield, and Linux with OpenSSL.  Each has   *)
(* its own idea of when a client exists, which calls look whether it does, *)
(* and what setup() starts again.                                          *)
(*                                                                         *)
(* A driver is a record; a method is a function of it.  The client is      *)
(* "null", "kept" or "freed" (deleted, its pointer kept), the session      *)
(* "none", "up" or "ended" (by the far end).  used tells what the last     *)
(* read or write worked on.                                                *)
(***************************************************************************)
EXTENDS Naturals, FiniteSets

CONSTANTS
  MostSetups,   \* bound: calls of setup()
  MostTried     \* bound: addresses of the server that refuse, over a run
ASSUME NetDriverAssumption == MostSetups \in Nat /\ MostTried \in Nat

VARIABLES
  net,      \* the driver
  cable,    \* the access point or the cable is there
  loopAt,   \* where the main loop is
  failed    \* connectionFailCounter > 0

driverVars == <<net, cable, loopAt, failed>>

Drivers == {"esp32", "esp8266", "eth", "shield", "linux"}
Wireless(n) == n.driver \in {"esp32", "esp8266"}

Fresh(driver) ==
  [ driver |-> driver, client |-> IF driver = "shield" THEN "kept" ELSE "null",
    session |-> "none", sockets |-> 0, lost |-> 0, ready |-> FALSE, station |-> "off",
    config |-> FALSE, setups |-> 0, handlers |-> 0, used |-> "client" ]

-----------------------------------------------------------------------------
(***************************************************************************)
(* read() and write().  Only the Wi-Fi driver looks for a client first.    *)
(***************************************************************************)
Using(n) ==
  [n EXCEPT !.used = CASE n.client = "null" -> "nothing" [] n.client = "freed" -> "garbage"
                       [] n.client = "kept" -> "client"]
WifiUsing(n) == IF n.client = "null" THEN [n EXCEPT !.used = "skipped"] ELSE Using(n)
Written(n) == IF Wireless(n) THEN WifiUsing(n) ELSE Using(n)

NoSession(n) ==
  [n EXCEPT !.session = "none", !.sockets = IF n.session = "none" THEN @ ELSE @ - 1]

\* disconnect(): the Arduino clients stop, OpenSSL's is freed.
Stopped(n) == IF n.client = "null" THEN n ELSE NoSession(n)
LinuxClosed(n) == [NoSession(n) EXCEPT !.client = "null"]
Dropped(n) == IF n.driver = "linux" THEN LinuxClosed(n) ELSE Stopped(n)

\* SSL_read of a session the far end has closed disconnects; the others only say there is nothing.
LinuxRead(n) == IF n.session = "ended" THEN LinuxClosed(Using(n)) ELSE Using(n)
ReadFrom(n) == IF n.driver = "linux" THEN LinuxRead(n) ELSE Written(n)

-----------------------------------------------------------------------------
(***************************************************************************)
(* connect().                                                              *)
(***************************************************************************)
WithSession(n, ok) ==
  IF ok THEN [NoSession(n) EXCEPT !.session = "up", !.sockets = @ + 1] ELSE NoSession(n)

\* The client of the last session serves again.
WifiConnected(n, ok) ==
  WithSession(Using(IF n.client = "null" THEN [n EXCEPT !.client = "kept"] ELSE n), ok)
\* The last client is deleted and its socket with it.
EthConnected(n, ok) == WithSession(Using([NoSession(n) EXCEPT !.client = "kept"]), ok)
ShieldConnected(n, ok) == WithSession(n, ok)
\* A client even when the server is not found; the descriptor of an address that refuses is
\* overwritten before it is closed.
LinuxConnected(n, ok, refused) ==
  [WithSession([n EXCEPT !.client = "kept"], ok) EXCEPT !.lost = @ + refused,
                                                        !.sockets = @ + refused]

ConnectedBy(n, ok, refused) ==
  CASE Wireless(n) -> WifiConnected(n, ok)
    [] n.driver = "eth" -> EthConnected(n, ok)
    [] n.driver = "shield" -> ShieldConnected(n, ok)
    [] n.driver = "linux" -> LinuxConnected(n, ok, refused)

WifiOpen(n) == n.client # "null" /\ n.session = "up"
LinuxOpen(n) == n.session # "none"
IsOpen(n) == IF n.driver = "linux" THEN LinuxOpen(n) ELSE WifiOpen(n)

WifiReady(n) == n.station = "on"
IsReady(n) == IF Wireless(n) THEN WifiReady(n) ELSE n.ready

-----------------------------------------------------------------------------
(***************************************************************************)
(* setup().                                                                *)
(***************************************************************************)
\* mutant: the deleted client is not forgotten
ForgetsPointer(n) ==
  LET again == IF n.setups = 0 THEN [n EXCEPT !.handlers = 2]
               ELSE IF n.client = "null" THEN n ELSE [NoSession(n) EXCEPT !.client = "freed"]
  IN  [again EXCEPT !.station = IF n.config THEN "off" ELSE "trying"]
\* Handlers once; later the client goes and the station starts again, or stops for the access
\* point of config mode.
WifiSetUp(n) ==
  LET again == IF n.setups = 0 THEN [n EXCEPT !.handlers = 2]
               ELSE IF n.client = "null" THEN n ELSE [NoSession(n) EXCEPT !.client = "null"]
  IN  [again EXCEPT !.station = IF n.config THEN "off" ELSE "trying"]
\* Both handlers once more every time.
EthSetUp(n) == [n EXCEPT !.handlers = @ + 2]
\* Ready with an address of its own, or with the one DHCP gave.
ShieldSetUp(n, ok) == [n EXCEPT !.ready = ok]
\* The context of OpenSSL is made once.
LinuxSetUp(n, ok) == [n EXCEPT !.ready = @ \/ ok]

SetUpBy(n, ok) ==
  [ CASE Wireless(n) -> WifiSetUp(n)
      [] n.driver = "eth" -> EthSetUp(n)
      [] n.driver = "shield" -> ShieldSetUp(n, ok)
      [] n.driver = "linux" -> LinuxSetUp(n, ok)
    EXCEPT !.setups = @ + 1 ]

\* Whether the setup of a driver may go well now.
MaySucceed(n) == IF n.driver = "shield" /\ ~cable THEN {FALSE} ELSE BOOLEAN

ConfigModeEntered(n, ok) == SetUpBy([Dropped(n) EXCEPT !.config = TRUE], ok)

-----------------------------------------------------------------------------
DriverInit ==
  /\ net \in {Fresh(driver) : driver \in Drivers}
  /\ cable = FALSE /\ loopAt = "off" /\ failed = FALSE

\* enterNormalMode() at the end of begin().
NormalMode ==
  /\ loopAt = "off" /\ loopAt' = "top"
  /\ \E ok \in MaySucceed(net) : net' = SetUpBy(net, ok)
  /\ UNCHANGED <<cable, failed>>

(***************************************************************************)
(* One pass of the loop in normal mode.                                    *)
(***************************************************************************)
Passing == loopAt = "top" /\ ~net.config

\* Every sixth failure.
SetUpAgain ==
  /\ Passing /\ failed /\ net.setups < MostSetups
  /\ \E ok \in MaySucceed(net) : net' = SetUpBy(net, ok)
  /\ UNCHANGED <<cable, loopAt, failed>>

NetworkNotReady ==
  /\ Passing /\ ~IsReady(net) /\ failed' \in {failed, TRUE}
  /\ UNCHANGED <<net, cable, loopAt>>

StillConnected ==
  /\ Passing /\ IsReady(net) /\ IsOpen(net) /\ loopAt' = "read"
  /\ UNCHANGED <<net, cable, failed>>

ConnectsToServer ==
  /\ Passing /\ IsReady(net) /\ ~IsOpen(net)
  /\ \E ok \in (IF cable THEN BOOLEAN ELSE {FALSE}), refused \in 0 .. MostTried - net.lost :
       /\ net' = LET asked == ConnectedBy(net, ok, IF net.driver = "linux" THEN refused ELSE 0)
                 IN  IF ok THEN asked ELSE Dropped(asked)
       /\ loopAt' = IF ok THEN "read" ELSE "top"
       /\ failed' = ~ok
  /\ UNCHANGED cable

SrpcReads ==
  /\ loopAt = "read" /\ net' = ReadFrom(net) /\ loopAt' = "handle"
  /\ UNCHANGED <<cable, failed>>

\* A call is answered in srpc_iterate(); one of them enters config mode first.
SrpcHandles ==
  /\ loopAt = "handle" /\ loopAt' = "protocol"
  /\ \/ UNCHANGED net
     \/ net' = Written(net)
     \/ /\ net.setups < MostSetups /\ ~net.config
        /\ \E ok \in MaySucceed(net) : net' = Written(ConfigModeEntered(net, ok))
  /\ UNCHANGED <<cable, failed>>

\* srpc fails, the registration is refused or not answered.
SrpcGivesUp ==
  /\ loopAt \in {"handle", "protocol"} /\ net' = Dropped(net) /\ loopAt' = "top"
  /\ UNCHANGED <<cable, failed>>

\* The registration, or a ping and then the elements; also after a ping that gave up.
RegistersOrPings ==
  /\ loopAt = "protocol"
  /\ \/ net' = Written(net) /\ loopAt' \in {"top", "elements"}
     \/ UNCHANGED net /\ loopAt' \in {"top", "elements"}
     \/ net' = Dropped(net) /\ loopAt' = "elements"
  /\ UNCHANGED <<cable, failed>>

ElementWrites ==
  /\ loopAt = "elements" /\ loopAt' \in {"elements", "top"}
  /\ net' \in {net, Written(net)}
  /\ UNCHANGED <<cable, failed>>

\* A button, or begin() without a configuration.
LocalConfigMode ==
  /\ loopAt \in {"off", "top"} /\ net.setups < MostSetups /\ loopAt' = "top"
  /\ \E ok \in MaySucceed(net) : net' = ConfigModeEntered(net, ok)
  /\ UNCHANGED <<cable, failed>>

\* A software update wants the network for itself.
UpdateStarts ==
  /\ Passing /\ IsReady(net) /\ net' = Dropped(net) /\ UNCHANGED <<cable, loopAt, failed>>

\* softRestart(): the memory is new, the network was left.
LoopRestarts ==
  /\ loopAt = "top" /\ net' = Fresh(net.driver) /\ loopAt' = "off" /\ failed' = FALSE
  /\ UNCHANGED cable

-----------------------------------------------------------------------------
(***************************************************************************)
(* The network, and the handlers that other tasks run.                     *)
(***************************************************************************)
CableMoves ==
  /\ cable' = ~cable /\ UNCHANGED <<net, loopAt, failed>>

StationJoins ==
  /\ Wireless(net) /\ cable /\ net.station = "trying"
  /\ net' = [net EXCEPT !.station = "on"] /\ UNCHANGED <<cable, loopAt, failed>>

\* The handler of an ESP32 calls WiFi.reconnect(), the SDK of an ESP8266 does it by itself; a
\* station that setup() has stopped stays so.
StationDrops ==
  /\ Wireless(net) /\ ~cable /\ net.station = "on" /\ net.handlers > 0
  /\ net' = [net EXCEPT !.station = "trying"] /\ UNCHANGED <<cable, loopAt, failed>>

EthGotIp ==
  /\ net.driver = "eth" /\ cable /\ net.handlers > 0 /\ ~net.ready
  /\ net' = [net EXCEPT !.ready = TRUE] /\ UNCHANGED <<cable, loopAt, failed>>

EthDisconnected ==
  /\ net.driver = "eth" /\ ~cable /\ net.ready
  /\ net' = [net EXCEPT !.ready = FALSE] /\ UNCHANGED <<cable, loopAt, failed>>

PeerEnds ==
  /\ net.session = "up" /\ net' = [net EXCEPT !.session = "ended"]
  /\ UNCHANGED <<cable, loopAt, failed>>

DriverNext ==
  \/ NormalMode \/ SetUpAgain \/ NetworkNotReady \/ StillConnected \/ ConnectsToServer
  \/ SrpcReads \/ SrpcHandles \/ SrpcGivesUp \/ RegistersOrPings \/ ElementWrites
  \/ LocalConfigMode \/ UpdateStarts \/ LoopRestarts
  \/ CableMoves \/ StationJoins \/ StationDrops \/ EthGotIp \/ EthDisconnected \/ PeerEnds
DriverSpec == DriverInit /\ [][DriverNext]_driverVars

-----------------------------------------------------------------------------
DriverTypeOK ==
  /\ net.driver \in Drivers /\ net.client \in {"null", "kept", "freed"}
  /\ net.session \in {"none", "up", "ended"} /\ net.station \in {"off", "trying", "on"}
  /\ net.setups \in 0 .. MostSetups + 1 /\ net.lost \in 0 .. MostTried
  /\ net.used \in {"client", "skipped", "nothing", "garbage"}
  /\ loopAt \in {"off", "top", "read", "handle", "protocol", "elements"}

(***************************************************************************)
(* A read or a write works on a living client, or on none where the driver *)
(* looks; a null one is only used on Linux, for the rest of a pass in      *)
(* which the session was given up.  Every open socket belongs to the       *)
(* session or is one of those Linux has lost.  A session has its client,   *)
(* and in config mode there is neither a session nor a station.            *)
(***************************************************************************)
DriversAgree ==
  /\ net.used # "garbage"
  /\ net.used = "nothing" => net.driver = "linux"
  /\ net.sockets = net.lost + (IF net.session = "none" THEN 0 ELSE 1)
  /\ net.lost > 0 => net.driver = "linux"
  /\ net.session # "none" => net.client = "kept"
  /\ net.used = "skipped" => net.session = "none"
  /\ net.config => net.session = "none" /\ net.station = "off"
  /\ Wireless(net) => net.handlers <= 2
=============================================================================
