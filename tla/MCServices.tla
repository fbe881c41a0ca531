----------------------------- MODULE MCServices -----------------------------
(***************************************************************************)
(* What a device has around its elements, each part on its own: the        *)
(* keep-alive, the link and the calls of srpc, the configuration and its   *)
(* pages, the state storage, the software update, the network drivers, the *)
(* indicators, the clocks, the extended values and the start of a Linux    *)
(* device.  A behaviour moves one of them, the others stay as they were at *)
(* the start.                                                              *)
(***************************************************************************)
EXTENDS Network, SrpcLink, SrpcCalls, MCWebForm, Storage, Ota, EspIdfWifi, NetDriver,
        Indicators, Clocks, ExtendedValue, LinuxDaemon

VARIABLE moving

Services ==
  { "network", "link", "calls", "web", "storage", "update", "wifi", "driver", "indicators",
    "uptime", "clock", "values", "daemon" }

-----------------------------------------------------------------------------
\* Timeouts in half-second ticks.
MCTimeouts == {4, 5}

\* One element of two parts, and two elements with another firmware.
Firmwares == {<<<<1, 1>>, <<1, 2>>>>, <<<<1, 1>>, <<2, 1>>, <<2, 2>>>>}

\* Images that are whole, cut, signed for another application, unsigned or empty.
App(x) == <<"app", x>>
MCFactory == Signed(<<App(0)>>)
MCOffered ==
  { Signed(<<App(1), App(2)>>), Signed(<<App(3)>>), Signed(<<App(1)>>) \o <<App(2)>>,
    <<App(4), Signature(<<App(1)>>), Footer>>, <<App(1), Signature(<<App(1)>>)>>,
    <<Signature(<< >>), Footer>>, << >> }
MCReplies == { <<"url">>, <<"head", "tail">>, << >> }

\* Two texts fill the log; one is longer than the log.
MCTexts ==
  [ registering |-> <<"r", "e", "g", "i">>, ready |-> <<"o", "k">>, config |-> <<"c", "f">>,
    reset |-> <<"r", "s", "t", "s">>, missing |-> [i \in 1 .. 12 |-> "m"] ]
MCRhythms == {<<50, 50>>, <<1000, 0>>}

\* Details of every kind, with less and more than fits together into a value.
Thermostats ==
  { [kind |-> "thermostat", fields |-> fields] :
      fields \in {{}, {"measured"}, {"preset", "time"}, {"flags", "schedule"}} }
Meters ==
  { [kind |-> "meter", version |-> v, bits |-> {"voltage"} \cup more, balanced |-> 0,
     count |-> n, m |-> <<"m1", "m2">>] :
      v \in {1, 2}, more \in {{}, Balanced}, n \in {-1, 0, 2, 3} }
MCGiven == Thermostats \cup Meters \cup {[kind |-> "counter"]}

-----------------------------------------------------------------------------
\* One state of those that do not move.
ServicesInit ==
  /\ moving \in Services
  /\ Init /\ (moving # "network" => serverActivityTimeoutS = ActivityTimeout)
  /\ LinkInit /\ (moving # "link" => ~toDevice /\ ~newer)
  /\ CallsInit /\ (moving # "calls" => ends = <<"device", "server">> /\ version = Newest)
  /\ WebInit /\ (moving # "web" => platform = "arduino")
  /\ StorageInit /\ (moving # "storage" => writeThrough)
  /\ OtaInit /\ (moving # "update" => runs = CHOOSE p \in Partitions : TRUE)
  /\ WifiInit
  /\ DriverInit /\ (moving # "driver" => net.driver = "linux")
  /\ IndicatorsInit /\ (moving # "indicators" => led.mode = "never" /\ ~led.invert)
  /\ ValuesInit
  /\ DaemonInit /\ (moving # "daemon" => ~writable /\ yaml = CHOOSE y \in YamlFiles : TRUE)
  /\ ClocksInit /\ (moving \notin {"uptime", "clock"} => clock.platform = "esp")

Rests(service, itsVars) == IF moving = service THEN TRUE ELSE UNCHANGED itsVars
ServicesNext ==
  /\ UNCHANGED moving
  /\ \/ moving = "network" /\ Next
     \/ moving = "link" /\ LinkNext
     \/ moving = "calls" /\ CallsNext
     \/ moving = "web" /\ WebNext
     \/ moving = "storage" /\ StorageNext
     \/ moving = "update" /\ OtaNext
     \/ moving = "wifi" /\ WifiNext
     \/ moving = "driver" /\ DriverNext
     \/ moving = "indicators" /\ IndicatorsNext
     \/ moving = "uptime" /\ UptimeNext
     \/ moving = "clock" /\ ClockNext
     \/ moving = "values" /\ ValuesNext
     \/ moving = "daemon" /\ DaemonNext
  /\ Rests("network", vars) /\ Rests("link", linkVars) /\ Rests("calls", callVars)
  /\ Rests("web", webVars) /\ Rests("storage", storageVars) /\ Rests("update", otaVars)
  /\ Rests("wifi", wifiVars) /\ Rests("driver", driverVars)
  /\ Rests("indicators", indicatorVars) /\ Rests("values", valueVars)
  /\ Rests("daemon", daemonVars)
  /\ IF moving \in {"uptime", "clock"} THEN TRUE ELSE UNCHANGED clockVars

servicesVars ==
  << moving, vars, linkVars, callVars, webVars, storageVars, otaVars, wifiVars, driverVars,
     indicatorVars, clockVars, valueVars, daemonVars >>

\* Nothing but the link needs fairness.
ServicesSpec == ServicesInit /\ [][ServicesNext]_servicesVars /\ LinkFairness

ServicesTypeOK ==
  /\ moving \in Services
  /\ TypeOK /\ LinkTypeOK /\ CallsTypeOK /\ WebTypeOK /\ StorageTypeOK /\ OtaTypeOK /\ WifiTypeOK
  /\ DriverTypeOK /\ IndicatorsTypeOK /\ ClocksTypeOK /\ ValuesTypeOK /\ DaemonTypeOK

\* What one end puts into a message, a value of a channel or the log of the states, the other
\* gets out of it.
PackedIsUnpacked == BothHalvesAgree /\ ValuesComeBack /\ PageIsWhole

\* The settings of a device, and the identity of a Linux one, outlive its restarts.
SettingsAreKept == SettingsSurvive /\ IdentityIsKept

\* What a device says of itself: its LED and its clocks agree with what it does.
DeviceTells == LedTells /\ ClocksTell
=============================================================================
