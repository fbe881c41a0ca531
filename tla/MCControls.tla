----------------------------- MODULE MCControls -----------------------------
(***************************************************************************)
(* The elements of a device, each on its own: its controls, its sensors    *)
(* and its meters.  A behaviour moves one of them, the others stay as they *)
(* are after their start.                                                  *)
(***************************************************************************)
EXTENDS ActionTrigger, ChannelSync, Relay, Rgbw, Sensor, Meter, PvMeter, LinuxSensors,
  SequenceButton, Fade, TriggerChannel

VARIABLE moving

Elements ==
  {"trigger", "actions", "sequence", "channels", "relay", "rgbw", "fade", "sensor", "meter",
   "inverter", "linux"}

MCActions ==
  {{}, {<<"TURN_ON", 0>>, <<"TOGGLE", 2>>}, {<<"HOLD", 0>>, <<"SHORT_PRESS", 2>>}}
MCLimits == {[color |-> <<0, 12>>, white |-> <<2, 7>>], [color |-> <<3, 12>>, white |-> <<0, 12>>]}
MCSequences == {<< >>, <<4>>, <<2, 4>>}

-----------------------------------------------------------------------------
Order == <<"a", "b">>
TwoValues == {<<0, 0>>, <<1, 1>>}
ServerConfigurations ==
  {{}, {Click(1)}, {Click(2)}, {OnHold}, {OnPress, Click(1)}}

\* The first correction of a channel is the one that counts.
MCCorrections == <<[second |-> FALSE, by |-> 1], [second |-> FALSE, by |-> 2]>>
MCConditions == {[op |-> op, low |-> 4, high |-> 9, second |-> second] :
                   op \in Ops, second \in BOOLEAN}
NearAndFar == <<0, 5>>
TenAndNothing == <<10, 0>>

\* Currents below and above the limit, and a phase that is there without voltage.
Phase(v, p, i) == [voltage |-> v, power_active |-> p, current |-> i, energy |-> v + 1]
MCPhases == {Phase(1, 1, 3), Phase(2, 1, 12), Phase(2, 1, 4), Phase(0, 0, 0)}
MCMeterConditions ==
  {[get |-> "current", phase |-> 0, above |-> 6], [get |-> "voltage", phase |-> 1, above |-> 1]}

MCReports == <<[power |-> 1, energy |-> 2], [power |-> 2, energy |-> 1]>>

\* Files that share a parser, a source, or give a name again; and files that are refused.
Thermometer(source, parser, key) == Channel("ThermometerParsed", source, parser, key, 2)
MCConfigFiles ==
  { << Thermometer(NewSource("s", "f", TRUE), NewParser("p", "Simple"), 0),
       Channel("ImpulseCounterParsed", Absent, Use("p"), 1, 1) >>,
    << Thermometer(NewSource("s", "f", TRUE), NewParser("p", "Json"), 0),
       Channel("VirtualRelay", Absent, Absent, NoKey, 1),
       Thermometer(NewSource("s", "g", FALSE), NewParser("", "Json"), 0) >>,
    << Thermometer(NewSource("s", "f", TRUE), NewParser("p", "Json"), 1),
       Thermometer(NewSource("", "g", FALSE), NewParser("p", "Simple"), 0),
       Channel("BinaryParsed", Absent, Use("p"), 0, 1) >>,
    << Thermometer(NewSource("s", "g", FALSE), NewParser("p", "Json"), 1),
       Channel("BinaryParsed", Use("s"), NewParser("q", "Simple"), 0, 1) >>,
    << Channel("ElectricityMeterParsed", NewSource("s", "f", TRUE), NewParser("p", "Json"), 1, 3),
       Thermometer(Absent, Use("p"), 0), Channel("Fronius", Absent, Absent, 0, 1) >>,
    << Channel("ElectricityMeterParsed", Absent, Absent, 0, 1) >>,
    << Channel("Fronius", Absent, Absent, NoKey, 1) >>,
    << Thermometer(Use("s"), NewParser("p", "Json"), 1) >>,
    << Thermometer(Absent, NewParser("p", "Json"), 1) >>,
    << Thermometer(NewSource("s", "f", TRUE), Wrong, 0) >>,
    << Thermometer(NewSource("s", "f", TRUE), Use("p"), 0) >>,
    << Thermometer(Wrong, Absent, 1) >>,
    << Thermometer(Absent, Absent, 1) >>,
    << Channel("Heater", Absent, Absent, NoKey, 1) >>, << >> }
MCContents == {NoContent, Text, Lines(<<3, 1>>), Lines(<<1>>)}

-----------------------------------------------------------------------------
\* One state of those that do not move.
Init ==
  /\ moving \in Elements
  /\ TriggerInit
  /\ moving # "trigger" => ~bistable /\ ~pressed /\ changeAge = 0 /\ localEvent = OnPress
  /\ TriggerChannelInit /\ (moving # "actions" => attachedTo = "bistable")
  /\ SequenceInit
  /\ moving # "sequence" => matchSequence = << >> /\ ~isPressed
  /\ ChannelInit /\ (moving # "channels" => value["a"] = <<0, 0>>)
  /\ RelayInit
  /\ moving # "relay" => relayKind = "relay" /\ stateOnInit = "off" /\ ~keepDuration
  /\ RgbwInit /\ (moving # "rgbw" => rgbwKind = "rgbw" /\ cur.color = 0)
  /\ FadeInit
  /\ moving # "fade" => /\ lampKind = "dimmer" /\ fadeEffect = LongestOfAll(FadeTimes)
                       /\ limits = CHOOSE l \in Limits : TRUE
  /\ SensorInit /\ (moving # "sensor" => sensorKind = "binary" /\ ~prevState)
  /\ MeterInit /\ (moving # "meter" => meterKind = "single")
  /\ PvInit /\ (moving # "inverter" => inverter = "afore")
  /\ ParsedInit /\ (moving # "linux" => cfgFile = << >>)

Next ==
  /\ UNCHANGED moving
  /\ \/ moving = "trigger" /\ TriggerNext
     \/ moving = "actions" /\ TriggerChannelNext
     \/ moving = "sequence" /\ SequenceNext
     \/ moving = "channels" /\ ChannelNext
     \/ moving = "relay" /\ RelayNext
     \/ moving = "rgbw" /\ RgbwNext
     \/ moving = "fade" /\ FadeNext
     \/ moving = "sensor" /\ SensorNext
     \/ moving = "meter" /\ MeterNext
     \/ moving = "inverter" /\ PvNext
     \/ moving = "linux" /\ ParsedNext
  /\ moving # "trigger" => UNCHANGED triggerAndButtonVars
  /\ moving # "actions" => UNCHANGED triggerChannelVars
  /\ moving # "sequence" => UNCHANGED sequenceVars
  /\ moving # "channels" => UNCHANGED channelVars
  /\ moving # "relay" => UNCHANGED relayVars
  /\ moving # "rgbw" => UNCHANGED rgbwVars
  /\ moving # "fade" => UNCHANGED fadeVars
  /\ moving # "sensor" => UNCHANGED sensorVars
  /\ moving # "meter" => UNCHANGED meterVars
  /\ moving # "inverter" => UNCHANGED pvVars
  /\ moving # "linux" => UNCHANGED parsedVars

vars ==
  <<moving, triggerAndButtonVars, channelVars, relayVars, rgbwVars, sensorVars, meterVars,
    pvVars, parsedVars, sequenceVars, fadeVars, triggerChannelVars>>

\* Nothing but the channels needs fairness here.
Spec == Init /\ [][Next]_vars /\ ChannelFairness

\* (Of what does not move nothing is checked twice.)
ControlsTypeOK ==
  \/ moving = "trigger" /\ TriggerTypeOK
  \/ moving = "actions" /\ TriggerChannelTypeOK
  \/ moving = "sequence" /\ SequenceTypeOK
  \/ moving = "channels" /\ ChannelTypeOK
  \/ moving = "relay" /\ RelayTypeOK
  \/ moving = "rgbw" /\ RgbwTypeOK
  \/ moving = "fade" /\ FadeTypeOK
  \/ moving = "sensor" /\ SensorTypeOK
  \/ moving = "meter" /\ MeterTypeOK
  \/ moving = "inverter" /\ PvTypeOK
  \/ moving = "linux" /\ LinuxTypeOK

\* What the server knows of a channel is what the channel is, and it is told each gesture that it
\* asked for, once nothing waits to be sent.
ServerKnows == ServerIsCurrent /\ ActionsAreTold

\* A light remembers its brightness, the server knows it, and the lamp comes to it in time.
LightsAreRight == BrightnessIsKept /\ LampsFollow

\* What is shown of a sensor, a meter or an inverter is what it answered, however late, broken off,
\* wrong or missing some of the answers were:
\*   - a thermometer, a hygrometer or a distance sensor that is silent says so, at once or after
\*     MostRetries more (the distance sensor only until its count of lost echoes runs over, and a
\*     BME280 not when it answers with something that is not a number);
\*   - each phase of a meter shows what it said last, and a meter that is silent as a whole has no
\*     voltage and no power (the currents stay, and what one silent phase among others said);
\*   - an inverter shows each reply that came as a whole, and no power when it cannot be reached
\*     (one that is reached and never answers keeps its last values, and a SolarEdge always does);
\*     no connection of it leaves a socket behind.
\* And what a button with a sequence reads out of the presses is the rhythm they had.
ReadingsAreShown ==
  /\ moving = "sensor" => ReadingIsHonest
  /\ moving = "meter" => PublishedIsRead
  /\ moving = "inverter" => InverterIsShown /\ NoSocketIsLost
  /\ moving = "sequence" => SequenceIsHeard
=============================================================================
