-------------------------------- MODULE Relay --------------------------------
(***************************************************************************)
(* Relay, LightRelay, VirtualRelay, BistableRelay and InternalPinOutput:   *)
(* switching for a time, what the channel shows, the pulses of a bistable  *)
(* relay, and what is left after a restart.                                *)
(*                                                                         *)
(* Commands come from the server and from actions of other elements, in    *)
(* the main loop and from the timers.  Those are interrupts, tasks or      *)
(* threads of their own (not on the ESP8266): a command may come also when *)
(* iterateAlways() has looked at the clock and not yet toggled.            *)
(***************************************************************************)
EXTENDS Integers

CONSTANTS
  RelayKinds,       \* the classes looked at
  Durations,        \* DurationMS of the server's commands, in ticks
  MinDuration,      \* 1000 ms of BistableRelay::turnOn
  StatusPulse,      \* 200 ms of BistableRelay::iterateAlways
  ReadTime,         \* 100 ms between two reads of the status pin
  Second,           \* 1000 ms of LightRelay::iterateAlways
  MostLate,         \* bound: a pass of the main loop takes no longer
  MostLit,          \* bound of the time the lamp is watched
  MostSwitched      \* bound of the commands to a watched lamp

ASSUME RelayAssumption ==
  /\ RelayKinds \subseteq 
       {"relay", "light", "virtual", "output", "bistable", "blind"}
  /\ Durations \subseteq Nat /\ 0 \in Durations
  /\ \E longest \in Durations : \A d \in Durations : d <= longest
  /\ {MinDuration, StatusPulse, ReadTime, Second, MostLate, MostLit, MostSwitched} \subseteq Nat
  /\ Second > 0 /\ StatusPulse <= MinDuration

VARIABLES
  relayKind,        \* "output" is InternalPinOutput, "blind" a bistable relay without status pin
  stateOnInit,
  keepDuration,     \* keepTurnOnDurationMs; an output has a storedTurnOnDurationMs
  circuit,          \* the circuit is closed: the pin, state of VirtualRelay, the status pin
  shown,            \* value of the channel
  duration, durationAge, storedDuration,
  busy, pulse, pulseAge, readAge,     \* bistable: pulse is the level of the pin
  litAge, counted, lit, switched,     \* light: turnOnTimestamp, turnOnSecondsCumulative, and
                                      \* how long it was on and how often it was switched
  late,             \* since the last pass
  expired,          \* iterateAlways() has found the duration elapsed and not yet toggled
  crossed,          \* a command has switched it off in between
  saved,            \* the state section
  cause             \* what changed the circuit last

switchVars == <<circuit, duration, durationAge, busy, pulse, pulseAge, litAge, switched>>
relayVars == <<relayKind, stateOnInit, keepDuration, switchVars, shown, storedDuration, readAge,
               counted, lit, late, expired, crossed, saved, cause>>

IsBistable == relayKind \in {"bistable", "blind"}
IsOn == circuit /\ relayKind # "blind"

LongAge == 1 + MostLate + CHOOSE d \in Durations \cup {MinDuration, StatusPulse, ReadTime} :
             \A e \in Durations \cup {MinDuration, StatusPulse, ReadTime} : e <= d
Aged(age) == IF age < LongAge THEN age + 1 ELSE age

\* (The relay's own switching is not bounded by MaySwitch, and a command may come before it.)
RelayTypeOK ==
  /\ relayKind \in RelayKinds
  /\ stateOnInit \in {"on", "off", "restore", "restored on", "restored off", "keep"}
  /\ {circuit, shown, busy, pulse, expired, crossed, keepDuration} \subseteq BOOLEAN
  /\ {duration, storedDuration} \subseteq Durations \cup {MinDuration}
  /\ {durationAge, pulseAge, readAge} \subseteq 0 .. LongAge
  /\ litAge \in 0 .. Second + MostLate /\ counted \in Nat
  /\ lit \in 0 .. MostLit /\ switched \in 0 .. MostSwitched + 1
  /\ late \in 0 .. MostLate
  /\ saved \in [duration : Durations, on : BOOLEAN]
  /\ cause \in {"start", "command", "expiry", "hand"}

-----------------------------------------------------------------------------
(***************************************************************************)
(* turnOn, turnOff and toggle of the four classes.                         *)
(***************************************************************************)
Counted == relayKind = "light"
MaySwitch == Counted => switched < MostSwitched
CountSwitch == switched' = IF Counted THEN switched + 1 ELSE switched

\* BistableRelay::internalToggle.  The relay behind the pin changes on the rising edge.
InternalToggle ==
  /\ busy' = TRUE /\ pulse' = TRUE /\ pulseAge' = 0
  /\ circuit' = (circuit # ~pulse)

NoPulse == UNCHANGED <<busy, pulse, pulseAge>>

TurnOnBistable(requested) ==
  LET d == IF requested > 0 /\ requested < MinDuration THEN MinDuration ELSE requested
  IN  /\ duration' = d
      /\ durationAge' = IF d > 0 THEN 0 ELSE durationAge
      /\ IF ~IsOn THEN InternalToggle ELSE NoPulse /\ UNCHANGED circuit
      /\ UNCHANGED <<litAge, switched>>

TurnOffBistable ==
  /\ duration' = 0
  /\ IF IsOn \/ relayKind = "blind" THEN InternalToggle ELSE NoPulse /\ UNCHANGED circuit
  /\ UNCHANGED <<durationAge, litAge, switched>>

\* mutant: durationTimestamp is only taken when the relay was off
StampOnce(on, d) ==
  /\ duration' = d /\ durationAge' = IF circuit THEN durationAge ELSE 0
  /\ circuit' = on /\ shown' = on
  /\ litAge' = IF on THEN 0 ELSE litAge
  /\ CountSwitch /\ NoPulse

SwitchTo(on, d) ==
  /\ duration' = d /\ durationAge' = 0
  /\ circuit' = on /\ shown' = on
  /\ litAge' = IF on THEN 0 ELSE litAge
  /\ CountSwitch /\ NoPulse

\* A bistable relay does nothing while it is busy.
Bistable(Command) ==
  UNCHANGED shown /\ IF busy THEN UNCHANGED switchVars ELSE Command

\* turnOn() takes the stored duration for the one it is given.
TurnOn(d, stored) ==
  LET requested == IF keepDuration THEN stored ELSE d
  IN  IF IsBistable THEN Bistable(TurnOnBistable(requested)) ELSE SwitchTo(TRUE, requested)

TurnOff == IF IsBistable THEN Bistable(TurnOffBistable) ELSE SwitchTo(FALSE, 0)

Toggle ==
  IF IsOn \/ relayKind = "blind" THEN TurnOff ELSE TurnOn(0, storedDuration)

RelayInit ==
  /\ relayKind \in RelayKinds
  /\ stateOnInit \in IF IsBistable THEN {"keep"} ELSE {"on", "off", "restored off"}
  /\ keepDuration \in BOOLEAN
  /\ storedDuration \in IF relayKind = "output" /\ keepDuration THEN Durations \ {0} ELSE {0}
  /\ circuit = (stateOnInit = "on") /\ shown = circuit
  /\ duration = (IF circuit THEN storedDuration ELSE 0) /\ durationAge = 0
  /\ busy = FALSE /\ pulse = FALSE /\ pulseAge = 0 /\ readAge = 0
  /\ litAge = 0 /\ counted = 0 /\ lit = 0 /\ switched = 0
  /\ late = 0 /\ expired = FALSE /\ crossed = FALSE
  /\ saved = [duration |-> 0, on |-> FALSE] /\ cause = "start"

-----------------------------------------------------------------------------
(***************************************************************************)
(* Commands.                                                               *)
(***************************************************************************)
Crossing == crossed' = (expired /\ ~circuit')

ServerTurnsOn(d) ==
  /\ MaySwitch /\ relayKind # "output"
  /\ storedDuration' = IF keepDuration /\ ~(IsBistable /\ busy) THEN d ELSE storedDuration
  /\ TurnOn(d, storedDuration') /\ Crossing
  /\ cause' = "command"
  /\ UNCHANGED <<relayKind, stateOnInit, keepDuration, readAge, counted, lit, late, expired,
                 saved>>

\* The DurationMS of the message is not used.
ServerTurnsOff ==
  /\ MaySwitch /\ relayKind # "output"
  /\ TurnOff /\ Crossing /\ cause' = "command"
  /\ UNCHANGED <<relayKind, stateOnInit, keepDuration, storedDuration, readAge, counted, lit,
                 late, expired, saved>>

RelayHandleAction ==
  /\ MaySwitch
  /\ TurnOn(0, storedDuration) \/ TurnOff \/ Toggle
  /\ Crossing
  /\ cause' = "command"
  /\ UNCHANGED <<relayKind, stateOnInit, keepDuration, storedDuration, readAge, counted, lit,
                 late, expired, saved>>

\* Somebody uses the switch beside a bistable relay.
SwitchedByHand ==
  /\ IsBistable
  /\ circuit' = ~circuit /\ Crossing /\ cause' = "hand"
  /\ UNCHANGED <<relayKind, stateOnInit, keepDuration, shown, duration, durationAge, busy, pulse,
                 pulseAge, litAge, switched, storedDuration, readAge, counted, lit, late,
                 expired, saved>>

-----------------------------------------------------------------------------
(***************************************************************************)
(* iterateAlways().                                                        *)
(***************************************************************************)
TimePasses ==
  /\ ~expired /\ late < MostLate /\ (Counted => lit < MostLit)
  /\ late' = late + 1
  /\ durationAge' = Aged(durationAge) /\ pulseAge' = Aged(pulseAge) /\ readAge' = Aged(readAge)
  /\ litAge' = IF Counted /\ circuit THEN litAge + 1 ELSE litAge
  /\ lit' = IF Counted /\ circuit THEN lit + 1 ELSE lit
  /\ UNCHANGED <<relayKind, stateOnInit, keepDuration, circuit, shown, duration, busy, pulse,
                 switched, storedDuration, counted, expired, crossed, saved, cause>>

\* LightRelay adds the whole seconds since it was turned on and keeps the rest.
CountSeconds ==
  IF Counted /\ circuit /\ litAge >= Second
    THEN counted' = counted + litAge \div Second /\ litAge' = litAge % Second
    ELSE UNCHANGED <<counted, litAge>>

\* mutant: the status pin is only read after a pulse
ReadAfterPulse(closed) ==
  IF relayKind = "bistable" /\ readAge > ReadTime /\ busy
    THEN shown' = closed /\ readAge' = 0
    ELSE UNCHANGED <<shown, readAge>>

\* The end of BistableRelay::iterateAlways: the status pin is read, then a pulse ends.
ReadStatus(closed) ==
  IF relayKind = "bistable" /\ readAge > ReadTime
    THEN shown' = closed /\ readAge' = 0
    ELSE UNCHANGED <<shown, readAge>>

EndOfPulse ==
  IF IsBistable /\ busy /\ pulseAge > StatusPulse
    THEN busy' = FALSE /\ pulse' = FALSE
    ELSE UNCHANGED <<busy, pulse>>

DurationElapsed == duration > 0 /\ durationAge > duration

IterateAlways ==
  /\ ~expired /\ (DurationElapsed => MaySwitch)
  /\ CountSeconds
  /\ IF DurationElapsed
       THEN expired' = TRUE /\ crossed' = FALSE /\ UNCHANGED <<shown, readAge, busy, pulse, late>>
       ELSE /\ expired' = FALSE /\ UNCHANGED crossed
            /\ ReadStatus(circuit) /\ EndOfPulse /\ late' = 0
  /\ UNCHANGED <<relayKind, stateOnInit, keepDuration, circuit, duration, durationAge, pulseAge,
                 switched, storedDuration, lit, saved, cause>>

\* Relay::iterateAlways calls toggle(), then the rest of the pass follows.
ToggleExpired ==
  /\ expired
  /\ expired' = FALSE /\ late' = 0
  /\ IF IsBistable
       THEN /\ IF busy
                 THEN EndOfPulse /\ UNCHANGED <<circuit, duration, durationAge, pulseAge,
                                                litAge, switched>>
                 ELSE IF IsOn \/ relayKind = "blind" THEN TurnOffBistable
                      ELSE TurnOnBistable(IF keepDuration THEN storedDuration ELSE 0)
            /\ ReadStatus(circuit')
       ELSE Toggle /\ UNCHANGED readAge
  /\ cause' = "expiry"
  /\ UNCHANGED <<relayKind, stateOnInit, keepDuration, storedDuration, counted, lit, crossed,
                 saved>>

-----------------------------------------------------------------------------
(***************************************************************************)
(* onSaveState(), and a restart that finds what was saved.                 *)
(***************************************************************************)
SaveState ==
  /\ ~expired /\ relayKind # "output"
  /\ saved' = [duration |-> storedDuration,
               on |-> stateOnInit \in {"restored on", "restored off"} /\ IsOn]
  /\ UNCHANGED <<relayKind, stateOnInit, keepDuration, switchVars, shown, storedDuration,
                 readAge, counted, lit, late, expired, crossed, cause>>

Restart ==
  /\ ~expired
  /\ storedDuration' = IF relayKind = "output" THEN storedDuration
                       ELSE IF keepDuration THEN saved.duration ELSE 0
  /\ stateOnInit' = IF stateOnInit \in {"restored on", "restored off"}
                      THEN IF saved.on THEN "restored on" ELSE "restored off"
                      ELSE stateOnInit
  /\ circuit' = IF IsBistable THEN circuit ELSE stateOnInit' \in {"on", "restored on"}
  /\ shown' = (circuit' /\ relayKind # "blind")
  /\ duration' = IF ~IsBistable /\ circuit' /\ keepDuration THEN storedDuration' ELSE 0
  /\ durationAge' = 0 /\ busy' = FALSE /\ pulse' = FALSE /\ pulseAge' = 0 /\ readAge' = 0
  /\ litAge' = 0 /\ counted' = 0 /\ lit' = 0 /\ switched' = 0 /\ late' = 0 /\ cause' = "start"
  /\ crossed' = FALSE
  /\ UNCHANGED <<relayKind, keepDuration, expired, saved>>

RelayNext ==
  \/ \E d \in Durations : ServerTurnsOn(d)
  \/ ServerTurnsOff \/ RelayHandleAction \/ SwitchedByHand
  \/ TimePasses \/ IterateAlways \/ ToggleExpired
  \/ SaveState \/ Restart

RelaySpec == RelayInit /\ [][RelayNext]_relayVars
-----------------------------------------------------------------------------
\* Between two passes of the loop the channel shows what the relay does; a bistable relay may
\* differ while its status pin is not read again.
ChannelShowsCircuit ==
  ~expired =>
    \/ shown = circuit \/ relayKind = "blind"
    \/ relayKind = "bistable" /\ readAge <= ReadTime + MostLate

\* A relay that was turned on for a time is on no longer than that and one pass of the loop,
\* a busy bistable relay two.
OnNoLonger ==
  ~expired /\ duration > 0 /\ IsOn =>
    durationAge <= duration + late + (IF IsBistable THEN MostLate ELSE 0)

\* A time that is over turns off.  On it turns only what a command switched off between the look
\* at the clock and toggle(), and that for ever when no duration is kept.  (A bistable relay that
\* was switched off by hand in the meantime it does turn on.)
EndsOff == cause = "expiry" /\ ~expired /\ ~IsBistable /\ circuit => crossed

\* The operating time of a lamp is never more than the time it was lit, and loses less than a
\* second and a pass each time it is switched.
OperatingTime ==
  Counted => /\ counted * Second <= lit
             /\ lit < counted * Second + (Second + MostLate) * (switched + 1)

\* No loss of power, late pass or repeated command lengthens a timed turn on, makes the lamp's
\* clock run ahead or stand still, or turns on what was to be turned off, unless it was turned off
\* in that one moment.
RelayTimes == OnNoLonger /\ EndsOff /\ OperatingTime
=============================================================================
