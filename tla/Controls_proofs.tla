-------------------------- MODULE Controls_proofs ---------------------------
(***************************************************************************)
(* Proofs about Relay, SequenceButton, Rgbw, Fade and LinuxSensors, and    *)
(* about the elements of a device together (MCControls): each of them      *)
(* moves as it does alone, so that what is proved of it holds of the       *)
(* device.                                                                 *)
(***************************************************************************)
EXTENDS MCControls, Channels_proofs, Readings_proofs

-----------------------------------------------------------------------------
(***************************************************************************)
(* Relay, for any durations, pulses and passes of the loop: what the       *)
(* channel shows, how long a timed turn on lasts and what it ends with,    *)
(* and the operating time of a lamp.  The inductive invariants first.      *)
(***************************************************************************)

\* The kind does not change, and times and counters are numbers.
NumbersInv ==
  /\ {duration, storedDuration, saved.duration} \subseteq Nat
  /\ {durationAge, pulseAge, readAge, litAge, counted, lit, switched} \subseteq Nat
  /\ late \in 0 .. MostLate

\* A channel shows what was switched, but for the bistable relays, whose status pin is read
\* in each pass unless it was a moment ago.
ShownInv ==
  /\ ~IsBistable => shown = circuit
  /\ relayKind = "bistable" => readAge <= ReadTime + late

\* The time a duration runs is over by no more than the present pass; for a bistable relay that
\* was busy in the pass that saw it over, by no more than the next.
DurationInv ==
  /\ IsBistable => /\ duration = 0 \/ duration >= MinDuration
                   /\ busy /\ duration > 0 => pulseAge = durationAge
  /\ duration > 0 =>
       \/ durationAge <= duration + late
       \/ IsBistable /\ ~busy /\ durationAge <= duration + late + MostLate
  /\ expired => DurationElapsed \/ duration = 0 \/ durationAge = 0

\* Only what is on has a duration, and it is on still when it is switched at the end of it, unless
\* a command came between the look at the clock and the switching.
EndInv ==
  /\ ~IsBistable /\ duration > 0 => circuit
  /\ ~IsBistable /\ expired => circuit \/ crossed
  /\ EndsOff

\* The seconds counted and the time since then are the time lit, less what each switching lost.
MostLost == Second + MostLate - 1
Uncounted == IF circuit THEN litAge ELSE 0
LampInv ==
  Counted => /\ counted * Second + Uncounted <= lit
             /\ lit <= counted * Second + Uncounted + MostLost * switched
             /\ circuit => litAge < Second + late

-----------------------------------------------------------------------------
\* What the proofs need of the assumptions on the constants.
LEMMA ConstantsLemma ==
  /\ Durations \subseteq Nat /\ 0 \in Durations
  /\ MinDuration \in Nat /\ StatusPulse \in Nat /\ ReadTime \in Nat /\ MostLate \in Nat
  /\ Second \in Nat /\ Second > 0 /\ StatusPulse <= MinDuration
BY RelayAssumption

\* Whether something is a member of a set is true or false.
LEMMA MembershipLemma == \A x, S, b : b = (x \in S) => b \in BOOLEAN
OBVIOUS

\* What a command does: a relay is switched, a bistable one is pulsed unless it is busy.
Switch(on, d) == ~IsBistable /\ SwitchTo(on, d) /\ (on \/ d = 0)
Pulse(d) == IsBistable /\ ~busy /\ (TurnOnBistable(d) \/ TurnOffBistable) /\ UNCHANGED shown
Ignored == IsBistable /\ UNCHANGED <<switchVars, shown>>

\* Every command does one of these.
LEMMA CommandLemma ==
  ASSUME storedDuration \in Nat, NEW d \in Nat, NEW stored \in Nat,
         TurnOn(d, stored) \/ TurnOff \/ Toggle
  PROVE  (\E on \in BOOLEAN, e \in Nat : Switch(on, e) \/ Pulse(e)) \/ Ignored
<1>1. ASSUME NEW e \in Nat, NEW s \in Nat, TurnOn(e, s)
      PROVE  (\E f \in Nat : Switch(TRUE, f) \/ Pulse(f)) \/ Ignored
  BY <1>1, ConstantsLemma DEF TurnOn, Bistable, Switch, Pulse, Ignored
<1>2. TurnOff => Switch(FALSE, 0) \/ Pulse(0) \/ Ignored
  BY DEF TurnOff, Bistable, Switch, Pulse, Ignored
<1> QED
  BY <1>1, <1>2 DEF Toggle

\* The commands, with what they leave alone.
Command ==
  /\ Crossing
  /\ (\E on \in BOOLEAN, d \in Nat : Switch(on, d) \/ Pulse(d)) \/ Ignored
  /\ cause' = "command" /\ storedDuration' \in Nat
  /\ UNCHANGED <<relayKind, stateOnInit, keepDuration, readAge, counted, lit, late, expired, saved>>

\* Commands of the server and of other elements are such.
LEMMA CommandsLemma ==
  ASSUME NumbersInv,
         (\E d \in Durations : ServerTurnsOn(d)) \/ ServerTurnsOff \/ RelayHandleAction
  PROVE  Command
<1> USE ConstantsLemma DEF NumbersInv, Command
<1>1. ASSUME NEW d \in Durations, ServerTurnsOn(d) PROVE Command
  <2>1. storedDuration' \in Nat /\ TurnOn(d, storedDuration')
    BY <1>1 DEF ServerTurnsOn
  <2>2. (\E on \in BOOLEAN, e \in Nat : Switch(on, e) \/ Pulse(e)) \/ Ignored
    BY <2>1, CommandLemma
  <2> QED
    BY <1>1, <2>1, <2>2 DEF ServerTurnsOn
<1>2. CASE ServerTurnsOff
  BY <1>2, CommandLemma DEF ServerTurnsOff
<1>3. CASE RelayHandleAction
  <2>1. (\E on \in BOOLEAN, e \in Nat : Switch(on, e) \/ Pulse(e)) \/ Ignored
    BY <1>3, CommandLemma DEF RelayHandleAction
  <2> QED
    BY <1>3, <2>1 DEF RelayHandleAction
<1> QED
  BY <1>1, <1>2, <1>3

\* The end of a pass in which the duration was over: a command of the relay to itself, or the
\* end of the pulse that is in its way.
LEMMA ExpiredLemma ==
  ASSUME NumbersInv, ToggleExpired
  PROVE  /\ ~IsBistable /\ circuit => Switch(FALSE, 0)
         /\ ~IsBistable => (\E on \in BOOLEAN, d \in Nat : Switch(on, d)) /\ UNCHANGED readAge
         /\ IsBistable /\ ~busy =>
              TurnOffBistable \/ \E d \in Nat : TurnOnBistable(d)
         /\ IsBistable /\ busy =>
              EndOfPulse /\ UNCHANGED <<circuit, duration, durationAge, pulseAge, litAge, switched>>
         /\ IsBistable => ReadStatus(circuit')
<1> USE ConstantsLemma DEF NumbersInv
<1>1. ~IsBistable => Toggle /\ UNCHANGED readAge
  BY DEF ToggleExpired
<1>2. ~IsBistable /\ circuit => Switch(FALSE, 0)
  BY <1>1 DEF Toggle, TurnOff, IsOn, IsBistable, Switch
<1>3. ~IsBistable /\ ~circuit => \E d \in Nat : Switch(TRUE, d)
  BY <1>1 DEF Toggle, TurnOn, IsOn, IsBistable, Switch
<1> QED
  BY <1>1, <1>2, <1>3 DEF ToggleExpired

\* Every step keeps times and counters numbers.
LEMMA NumbersStep ==
  ASSUME NumbersInv, [RelayNext]_relayVars
  PROVE  NumbersInv'
<1> USE ConstantsLemma DEF NumbersInv
<1>1. ASSUME NEW on \in BOOLEAN, NEW d \in Nat, Switch(on, d)
      PROVE  {duration', durationAge', pulseAge', litAge', switched'} \subseteq Nat
  BY <1>1 DEF Switch, SwitchTo, CountSwitch, NoPulse
<1>2. ASSUME NEW d \in Nat, TurnOnBistable(d) \/ TurnOffBistable
      PROVE  {duration', durationAge', pulseAge', litAge', switched'} \subseteq Nat
  BY <1>2 DEF TurnOnBistable, TurnOffBistable, InternalToggle, NoPulse
<1>3. CASE Command
  <2>1. {duration', durationAge', pulseAge', litAge', switched'} \subseteq Nat
    BY <1>1, <1>2, <1>3 DEF Command, Pulse, Ignored, switchVars
  <2> QED
    BY <1>3, <2>1 DEF Command
<1>4. CASE SwitchedByHand
  BY <1>4 DEF SwitchedByHand
<1>5. CASE TimePasses
  BY <1>5 DEF TimePasses, Aged
<1>6. CASE IterateAlways
  <2>1. counted' \in Nat /\ litAge' \in Nat
    BY <1>6, SMT DEF IterateAlways, CountSeconds
  <2> QED
    BY <1>6, <2>1 DEF IterateAlways, ReadStatus
<1>7. CASE ToggleExpired
  <2>1. {duration', durationAge', pulseAge', litAge', switched'} \subseteq Nat /\ readAge' \in Nat
    BY <1>1, <1>2, <1>7, ExpiredLemma DEF ReadStatus, EndOfPulse
  <2> QED
    BY <1>7, <2>1 DEF ToggleExpired
<1>8. CASE SaveState
  BY <1>8 DEF SaveState, switchVars
<1>9. CASE Restart
  <2>1. storedDuration' \in Nat
    BY <1>9 DEF Restart
  <2>2. duration' \in Nat
    BY <1>9, <2>1 DEF Restart
  <2>3. {durationAge, pulseAge, readAge, litAge, counted, lit, switched, late}' = {0}
    BY <1>9 DEF Restart
  <2>4. UNCHANGED saved
    BY <1>9 DEF Restart
  <2> QED
    BY <2>1, <2>2, <2>3, <2>4
<1>10. CASE UNCHANGED relayVars
  BY <1>10 DEF relayVars, switchVars
<1> QED
  BY <1>3, <1>4, <1>5, <1>6, <1>7, <1>8, <1>9, <1>10, CommandsLemma DEF RelayNext

\* Every step keeps the channel up to date.
LEMMA ShownStep ==
  ASSUME NumbersInv, ShownInv, [RelayNext]_relayVars
  PROVE  ShownInv'
<1> USE ConstantsLemma DEF NumbersInv, ShownInv, IsBistable
<1>1. CASE Command
  BY <1>1 DEF Command, Switch, SwitchTo, Pulse, Ignored, switchVars
<1>2. CASE SwitchedByHand
  BY <1>2 DEF SwitchedByHand
<1>3. CASE TimePasses
  BY <1>3 DEF TimePasses, Aged
<1>4. CASE IterateAlways
  BY <1>4 DEF IterateAlways, ReadStatus
<1>5. CASE ToggleExpired
  <2>1. CASE ~IsBistable
    <3>1. PICK on \in BOOLEAN, d \in Nat : Switch(on, d)
      BY <1>5, <2>1, ExpiredLemma
    <3> QED
      BY <1>5, <2>1, <3>1 DEF ToggleExpired, Switch, SwitchTo
  <2>2. CASE IsBistable
    <3>1. ReadStatus(circuit') /\ late' = 0 /\ UNCHANGED relayKind
      BY <1>5, <2>2 DEF ToggleExpired
    <3>2. readAge <= ReadTime \/ readAge' = 0 \/ relayKind # "bistable"
      BY <3>1 DEF ReadStatus
    <3> QED
      BY <2>2, <3>1, <3>2 DEF ReadStatus
  <2> QED
    BY <2>1, <2>2
<1>6. CASE SaveState
  BY <1>6 DEF SaveState, switchVars
<1>7. CASE Restart
  <2>1. UNCHANGED relayKind /\ readAge' = 0 /\ late' = 0
    BY <1>7 DEF Restart
  <2>2. ~IsBistable => circuit' = (stateOnInit' \in {"on", "restored on"})
    BY <1>7 DEF Restart
  <2>3. ~IsBistable => shown' = circuit'
    <3>1. SUFFICES ASSUME ~IsBistable PROVE shown' = circuit'
      OBVIOUS
    <3>2. circuit' = (stateOnInit' \in {"on", "restored on"})
      BY <2>2, <3>1
    <3>3. circuit' \in BOOLEAN
      BY <3>2, MembershipLemma
    <3>4. shown' = (circuit' /\ relayKind # "blind") /\ relayKind # "blind"
      BY <1>7, <3>1 DEF Restart
    <3> QED
      BY <3>3, <3>4, Zenon
  <2> QED
    BY <2>1, <2>3
<1>8. CASE UNCHANGED relayVars
  BY <1>8 DEF relayVars, switchVars
<1> QED
  BY <1>1, <1>2, <1>3, <1>4, <1>5, <1>6, <1>7, <1>8, CommandsLemma DEF RelayNext

\* Every step keeps the durations.
LEMMA DurationStep ==
  ASSUME NumbersInv, DurationInv, [RelayNext]_relayVars
  PROVE  DurationInv'
<1> USE ConstantsLemma DEF NumbersInv, DurationInv, IsBistable
<1>0. duration' \in Nat /\ late' \in Nat
  BY NumbersStep
<1>1. CASE SwitchedByHand
  BY <1>1 DEF SwitchedByHand, DurationElapsed
<1>2. CASE TimePasses
  BY <1>2 DEF TimePasses, Aged, DurationElapsed
<1>3. CASE IterateAlways
  BY <1>3 DEF IterateAlways, EndOfPulse, DurationElapsed
<1>4. CASE ToggleExpired
  <2>1. late' = 0 /\ ~expired' /\ UNCHANGED relayKind
    BY <1>4 DEF ToggleExpired
  <2>2. CASE ~IsBistable
    <3>1. PICK on \in BOOLEAN, d \in Nat : Switch(on, d)
      BY <1>4, <2>2, ExpiredLemma
    <3>2. duration' = d /\ durationAge' = 0
      BY <3>1 DEF Switch, SwitchTo
    <3> QED
      BY <2>1, <2>2, <3>2
  <2>3. CASE IsBistable /\ ~busy
    <3>1. TurnOffBistable \/ \E d \in Nat : TurnOnBistable(d)
      BY <1>4, <2>3, ExpiredLemma
    <3>2. duration' = 0 \/ (duration' >= MinDuration /\ durationAge' = 0)
      BY <3>1 DEF TurnOnBistable, TurnOffBistable
    <3>3. busy' => pulseAge' = 0
      BY <2>3, <3>1 DEF TurnOnBistable, TurnOffBistable, InternalToggle, NoPulse
    <3> QED
      BY <1>0, <2>1, <2>3, <3>2, <3>3
  <2>4. CASE IsBistable /\ busy
    <3>1. EndOfPulse /\ UNCHANGED <<duration, durationAge, pulseAge>>
      BY <1>4, <2>4, ExpiredLemma
    <3>2. duration = 0 \/ durationAge = 0 \/ ~busy'
      <4>1. SUFFICES ASSUME duration > 0, durationAge # 0
                     PROVE  ~busy'
        OBVIOUS
      <4>2. pulseAge > StatusPulse
        BY <1>4, <2>4, <4>1 DEF ToggleExpired, DurationElapsed
      <4> QED
        BY <2>4, <3>1, <4>2 DEF EndOfPulse
    <3>3. busy' => busy
      BY <2>4
    <3>4. duration > 0 => durationAge <= duration + late
      BY <2>4
    <3> QED
      BY <2>1, <2>4, <3>1, <3>2, <3>3, <3>4
  <2> QED
    BY <2>2, <2>3, <2>4
<1>5. CASE SaveState
  BY <1>5 DEF SaveState, switchVars, DurationElapsed
<1>6. CASE Restart
  <2>1. IsBistable => duration' = 0
    BY <1>6 DEF Restart
  <2>2. durationAge' = 0 /\ late' = 0 /\ ~busy' /\ ~expired' /\ UNCHANGED relayKind
    BY <1>6 DEF Restart
  <2>3. duration' > 0 => durationAge' <= duration' + late'
    <3>1. PICK d \in Nat : duration' = d
      BY <1>0
    <3>2. 0 <= d + 0
      OBVIOUS
    <3> QED
      BY <2>2, <3>1, <3>2
  <2>4. IsBistable' <=> IsBistable
    BY <2>2
  <2> QED
    BY <1>0, <2>1, <2>2, <2>3, <2>4
<1>7. CASE UNCHANGED relayVars
  <2>1. UNCHANGED <<relayKind, duration, durationAge, busy, pulseAge, late, expired>>
    BY <1>7 DEF relayVars, switchVars
  <2> QED
    BY <2>1 DEF DurationElapsed
<1>8. CASE Command
  <2>1. CASE Ignored
    <3>1. UNCHANGED <<relayKind, duration, durationAge, busy, pulseAge, late, expired>>
      BY <1>8, <2>1 DEF Command, Ignored, switchVars
    <3> QED
      BY <3>1 DEF DurationElapsed
  <2>2. ASSUME NEW on \in BOOLEAN, NEW d \in Nat, Switch(on, d)
        PROVE  DurationInv'
    BY <1>8, <2>2 DEF Command, Switch, SwitchTo, DurationElapsed
  <2>3. ASSUME NEW d \in Nat, Pulse(d)
        PROVE  DurationInv'
    <3>1. duration' = 0 \/ (duration' >= MinDuration /\ durationAge' = 0)
      BY <2>3 DEF Pulse, TurnOnBistable, TurnOffBistable
    <3>2. busy' => pulseAge' = 0
      BY <2>3 DEF Pulse, TurnOnBistable, TurnOffBistable, InternalToggle, NoPulse
    <3> QED
      BY <1>0, <1>8, <2>3, <3>1, <3>2 DEF Command, Pulse
  <2> QED
    BY <1>8, <2>1, <2>2, <2>3 DEF Command
<1> QED
  BY <1>1, <1>2, <1>3, <1>4, <1>5, <1>6, <1>7, <1>8, CommandsLemma DEF RelayNext

\* Every step keeps that the end of a time finds what is on, or what a command just switched off.
LEMMA EndStep ==
  ASSUME NumbersInv, EndInv, [RelayNext]_relayVars
  PROVE  EndInv'
<1> USE ConstantsLemma DEF NumbersInv, EndInv, EndsOff, IsBistable
<1>1. CASE Command
  <2>1. cause' = "command" /\ UNCHANGED <<relayKind, expired>> /\ crossed' = (expired /\ ~circuit')
    BY <1>1 DEF Command, Crossing
  <2>2. ~IsBistable /\ duration' > 0 => circuit'
    BY <1>1, <2>1 DEF Command, Switch, SwitchTo, Pulse, Ignored, switchVars
  <2>3. expired' => circuit' \/ crossed'
    BY <2>1
  <2> QED
    BY <2>1, <2>2, <2>3
<1>2. CASE SwitchedByHand
  BY <1>2 DEF SwitchedByHand
<1>3. CASE TimePasses
  BY <1>3 DEF TimePasses
<1>4. CASE IterateAlways
  <2>1. UNCHANGED <<relayKind, duration, circuit, cause>> /\ ~expired
    BY <1>4 DEF IterateAlways
  <2>2. expired' => DurationElapsed
    BY <1>4 DEF IterateAlways
  <2>3. ~expired' => crossed' = crossed
    BY <1>4 DEF IterateAlways
  <2> QED
    BY <2>1, <2>2, <2>3 DEF DurationElapsed
<1>5. CASE ToggleExpired
  <2>1. expired /\ ~expired' /\ UNCHANGED <<relayKind, crossed>>
    BY <1>5 DEF ToggleExpired
  <2>2. CASE circuit /\ ~IsBistable
    <3>1. Switch(FALSE, 0)
      BY <1>5, <2>2, ExpiredLemma
    <3>2. duration' = 0 /\ ~circuit'
      BY <3>1 DEF Switch, SwitchTo
    <3> QED
      BY <2>1, <3>2
  <2>3. CASE ~circuit /\ ~IsBistable
    <3>1. \E on \in BOOLEAN, d \in Nat : Switch(on, d)
      BY <1>5, <2>3, ExpiredLemma
    <3>2. duration' > 0 => circuit'
      BY <3>1 DEF Switch, SwitchTo
    <3>3. crossed'
      BY <2>1, <2>3
    <3> QED
      BY <2>1, <3>2, <3>3
  <2> QED
    BY <2>1, <2>2, <2>3
<1>6. CASE SaveState
  BY <1>6 DEF SaveState, switchVars
<1>7. CASE Restart
  <2>1. ~expired' /\ cause' = "start" /\ UNCHANGED relayKind
    BY <1>7 DEF Restart
  <2>2. duration' = IF ~IsBistable /\ circuit' /\ keepDuration THEN storedDuration' ELSE 0
    BY <1>7 DEF Restart
  <2>3. duration' > 0 => circuit'
    BY <2>2
  <2> QED
    BY <2>1, <2>3
<1>8. CASE UNCHANGED relayVars
  BY <1>8 DEF relayVars, switchVars
<1> QED
  BY <1>1, <1>2, <1>3, <1>4, <1>5, <1>6, <1>7, <1>8, CommandsLemma DEF RelayNext

-----------------------------------------------------------------------------
(***************************************************************************)
(* The operating time of a lamp.                                           *)
(***************************************************************************)

\* A lamp that is switched loses what was not counted yet.
LEMMA SwitchedLamp ==
  ASSUME NumbersInv, LampInv, Counted, NEW on \in BOOLEAN, NEW d \in Nat, Switch(on, d),
         UNCHANGED <<relayKind, counted, lit>>, late' \in Nat
  PROVE  LampInv'
<1>0. PICK l \in Nat : late' = l
  OBVIOUS
<1> USE ConstantsLemma DEF NumbersInv, Counted
<1>1. switched' = switched + 1 /\ circuit' = on /\ litAge' = IF on THEN 0 ELSE litAge
  BY DEF Switch, SwitchTo, CountSwitch
<1>2. Uncounted' = 0
  BY <1>1 DEF Uncounted
<1>3. Uncounted \in 0 .. MostLost
  BY DEF Uncounted, MostLost, LampInv
<1>4. MostLost \in Int
  BY DEF MostLost
<1>5. MostLost * (switched + 1) = MostLost * switched + MostLost
  BY <1>4
<1>6. circuit' => litAge' < Second + late'
  <2>1. SUFFICES ASSUME circuit' PROVE litAge' < Second + late'
    OBVIOUS
  <2>2. litAge' = 0
    BY <1>1, <2>1
  <2> QED
    BY <1>0, <2>2
<1>7. /\ counted * Second + Uncounted <= lit
      /\ lit <= counted * Second + Uncounted + MostLost * switched
  BY DEF LampInv
<1>8. counted * Second \in Int /\ MostLost * switched \in Int
  BY <1>4
<1>9. /\ counted * Second + 0 <= lit
      /\ lit <= counted * Second + 0 + MostLost * (switched + 1)
  BY <1>3, <1>4, <1>5, <1>7, <1>8
<1>10. MostLost' = MostLost
  BY DEF MostLost
<1> QED
  BY <1>1, <1>2, <1>6, <1>9, <1>10 DEF LampInv

\* Every step keeps the operating time.
LEMMA LampStep ==
  ASSUME NumbersInv, LampInv, [RelayNext]_relayVars
  PROVE  LampInv'
<1> USE ConstantsLemma DEF NumbersInv
<1>0. Counted' = Counted /\ (Counted => ~IsBistable)
  BY DEF RelayNext, ServerTurnsOn, ServerTurnsOff, RelayHandleAction, SwitchedByHand, TimePasses,
         IterateAlways, ToggleExpired, SaveState, Restart, relayVars, Counted, IsBistable
<1> SUFFICES ASSUME Counted PROVE LampInv'
  BY <1>0 DEF LampInv
<1>1. CASE Command
  <2>1. PICK on \in BOOLEAN, d \in Nat : Switch(on, d)
    BY <1>0, <1>1 DEF Command, Pulse, Ignored
  <2> QED
    BY <1>1, <2>1, SwitchedLamp DEF Command
<1>2. CASE TimePasses
  BY <1>2 DEF TimePasses, LampInv, Uncounted, MostLost
<1>3. CASE IterateAlways
  <2>1. UNCHANGED <<relayKind, circuit, lit, switched>>
    BY <1>3 DEF IterateAlways
  <2>2. late' \in Nat /\ (circuit /\ litAge' < Second => litAge' < Second + late')
    <3>1. late' = late \/ late' = 0
      BY <1>3 DEF IterateAlways
    <3>2. litAge' \in Nat
      BY <1>3, NumbersStep DEF RelayNext
    <3> QED
      BY <3>1, <3>2
  <2>3. CASE circuit /\ litAge >= Second
    <3>1. counted' = counted + litAge \div Second /\ litAge' = litAge % Second
      BY <1>3, <2>3 DEF IterateAlways, CountSeconds
    <3>2. litAge \div Second \in Nat /\ litAge % Second \in 0 .. Second - 1
      OBVIOUS
    <3>3. litAge = (litAge \div Second) * Second + (litAge % Second)
      OBVIOUS
    <3>4. counted' * Second = counted * Second + (litAge \div Second) * Second
      BY <3>1, <3>2
    <3>6. counted * Second \in Int /\ (litAge \div Second) * Second \in Int
      BY <3>2
    <3>7. counted' * Second + litAge' = counted * Second + litAge
      BY <3>1, <3>2, <3>3, <3>4, <3>6
    <3>8. Uncounted = litAge /\ Uncounted' = litAge'
      BY <2>1, <2>3 DEF Uncounted
    <3> QED
      BY <2>1, <2>2, <3>1, <3>2, <3>7, <3>8 DEF LampInv, MostLost
  <2>4. CASE ~(circuit /\ litAge >= Second)
    <3>1. UNCHANGED <<counted, litAge>>
      BY <1>3, <2>4 DEF IterateAlways, CountSeconds
    <3> QED
      BY <2>1, <2>2, <2>4, <3>1 DEF LampInv, Uncounted, MostLost
  <2> QED
    BY <2>3, <2>4
<1>4. CASE ToggleExpired
  <2>1. PICK on \in BOOLEAN, d \in Nat : Switch(on, d)
    BY <1>0, <1>4, ExpiredLemma
  <2> QED
    BY <1>4, <2>1, SwitchedLamp DEF ToggleExpired
<1>5. CASE SaveState
  BY <1>5 DEF SaveState, switchVars, LampInv, Uncounted, MostLost
<1>6. CASE Restart
  <2>1. litAge' = 0 /\ counted' = 0 /\ lit' = 0 /\ switched' = 0 /\ late' = 0
    BY <1>6 DEF Restart
  <2>2. Uncounted' = 0
    BY <2>1 DEF Uncounted
  <2>3. MostLost \in Int
    BY DEF MostLost
  <2> QED
    BY <2>1, <2>2, <2>3 DEF LampInv, MostLost
<1>7. CASE UNCHANGED relayVars
  BY <1>7 DEF relayVars, switchVars, LampInv, Uncounted, MostLost
<1>8. ~SwitchedByHand
  BY <1>0 DEF SwitchedByHand
<1> QED
  BY <1>1, <1>2, <1>3, <1>4, <1>5, <1>6, <1>7, <1>8, CommandsLemma DEF RelayNext

\* The bounds of the operating time follow.
LEMMA LampLemma ==
  ASSUME NumbersInv, LampInv
  PROVE  OperatingTime
<1> USE ConstantsLemma DEF NumbersInv
<1> SUFFICES ASSUME Counted PROVE OperatingTime
  BY DEF OperatingTime
<1>1. Uncounted \in 0 .. MostLost /\ MostLost \in Int
  BY DEF Uncounted, MostLost, LampInv
<1>2. /\ counted * Second + Uncounted <= lit
      /\ lit <= counted * Second + Uncounted + MostLost * switched
  BY DEF LampInv
<1>3. (MostLost + 1) * (switched + 1) = MostLost * switched + MostLost + switched + 1
  BY <1>1
<1>4. counted * Second \in Int /\ MostLost * switched \in Int
  BY <1>1
<1>5. lit < counted * Second + (MostLost + 1) * (switched + 1)
  BY <1>1, <1>2, <1>3, <1>4
<1>6. counted * Second <= lit
  BY <1>1, <1>2, <1>4
<1>7. MostLost + 1 = Second + MostLate
  BY DEF MostLost
<1> QED
  BY <1>5, <1>6, <1>7 DEF OperatingTime

-----------------------------------------------------------------------------
(***************************************************************************)
(* The theorems.                                                           *)
(***************************************************************************)

\* A relay starts like that.
LEMMA RelayInitLemma ==
  ASSUME RelayInit
  PROVE  NumbersInv /\ ShownInv /\ DurationInv /\ EndInv /\ LampInv
<1> USE ConstantsLemma
<1>1. storedDuration \in Nat /\ saved.duration = 0
  BY DEF RelayInit
<1>2. duration = IF circuit THEN storedDuration ELSE 0
  BY DEF RelayInit
<1>3. duration \in Nat /\ (duration > 0 => circuit)
  BY <1>1, <1>2
<1>4. /\ durationAge = 0 /\ pulseAge = 0 /\ readAge = 0 /\ litAge = 0
      /\ counted = 0 /\ lit = 0 /\ switched = 0 /\ late = 0
  BY DEF RelayInit
<1>5. shown = circuit /\ ~busy /\ ~expired /\ cause = "start"
  BY DEF RelayInit
<1>6. IsBistable => ~circuit
  <2>1. IsBistable => stateOnInit = "keep"
    BY DEF RelayInit
  <2>2. circuit = (stateOnInit = "on")
    BY DEF RelayInit
  <2> QED
    BY <2>1, <2>2
<1>7. NumbersInv /\ ShownInv /\ EndInv
  <2>1. NumbersInv
    BY <1>1, <1>3, <1>4 DEF NumbersInv
  <2>2. ShownInv
    BY <1>4, <1>5 DEF ShownInv
  <2>3. EndInv
    BY <1>3, <1>5 DEF EndInv, EndsOff
  <2> QED
    BY <2>1, <2>2, <2>3
<1>8. DurationInv
  BY <1>2, <1>3, <1>4, <1>5, <1>6 DEF DurationInv
<1>9. LampInv
  <2>1. MostLost \in Int
    BY DEF MostLost
  <2>2. Uncounted = 0
    BY <1>4 DEF Uncounted
  <2>3. counted * Second = 0 /\ MostLost * switched = 0
    BY <1>4, <2>1
  <2> QED
    BY <1>4, <2>1, <2>2, <2>3 DEF LampInv
<1> QED
  BY <1>7, <1>8, <1>9

\* Whatever the commands, losses of power and pulses in progress, the channel of a relay shows
\* what is switched, and that of a bistable relay did at the last read of its status pin, which
\* was not long ago.
THEOREM ChannelIsTrue == RelaySpec => []ChannelShowsCircuit
<1> DEFINE IInv == NumbersInv /\ ShownInv
<1>1. RelayInit => IInv
  BY RelayInitLemma
<1>2. IInv /\ [RelayNext]_relayVars => IInv'
  BY NumbersStep, ShownStep
<1>3. IInv => ChannelShowsCircuit
  BY ConstantsLemma DEF NumbersInv, ShownInv, ChannelShowsCircuit, IsBistable
<1> QED
  BY <1>1, <1>2, <1>3, PTL DEF RelaySpec

\* What was turned on for a time is on no longer than that and one pass of the loop, or two, also
\* when commands come in the middle of a pass; and a lamp's operating time is right.
THEOREM TimesAreKept == RelaySpec => []OnNoLonger /\ []OperatingTime
<1> DEFINE IInv == NumbersInv /\ DurationInv /\ LampInv
<1>1. RelayInit => IInv
  BY RelayInitLemma
<1>2. IInv /\ [RelayNext]_relayVars => IInv'
  BY NumbersStep, DurationStep, LampStep
<1>3. IInv => OnNoLonger /\ OperatingTime
  <2>1. NumbersInv /\ DurationInv => OnNoLonger
    BY ConstantsLemma DEF NumbersInv, DurationInv, OnNoLonger
  <2> QED
    BY <2>1, LampLemma
<1> QED
  BY <1>1, <1>2, <1>3, PTL DEF RelaySpec

\* The above, and what was turned on for a time is turned off at its end, unless a command
\* switches it off between iterateAlways()'s look at the clock and its toggle().
THEOREM RelayTimesAreRight == RelaySpec => []RelayTimes
<1>1. RelayInit => NumbersInv /\ EndInv
  BY RelayInitLemma
<1>2. NumbersInv /\ EndInv /\ [RelayNext]_relayVars => (NumbersInv /\ EndInv)'
  BY NumbersStep, EndStep
<1>3. EndInv => EndsOff
  BY DEF EndInv
<1>4. RelaySpec => []EndsOff
  BY <1>1, <1>2, <1>3, PTL DEF RelaySpec
<1>5. OnNoLonger /\ EndsOff /\ OperatingTime => RelayTimes
  BY DEF RelayTimes
<1> QED
  BY <1>4, <1>5, TimesAreKept, PTL

-----------------------------------------------------------------------------
(***************************************************************************)
(* SequenceButton.                                                         *)
(***************************************************************************)

\* What is recorded are the times of the gesture, as far as they are counted and kept.
RecordedInv ==
  /\ matchSequence \in MatchSequences /\ gaps \in Seq(Nat)
  /\ sinceChange \in Nat /\ clicks \in Nat /\ DOMAIN currentSequence = 1 .. SequenceSize
  /\ sequenceSaid # "recording" => clicks = 0
  /\ sequenceSaid = "recording" /\ Len(gaps) + 1 < CounterRange =>
       /\ clicks = Len(gaps) + 1
       /\ \A i \in 1 .. SequenceSize :
            i <= Len(gaps) => currentSequence[i] = gaps[i] % WordRange

HeardInv == RecordedInv /\ SequenceIsHeard

\* A remainder of what is smaller is all of it.
LEMMA SmallLemma == \A a, b \in Nat : a < b => a % b = a
OBVIOUS

\* A time that was set is not shorter than its tolerance.
LEMMA MarginLemma ==
  \A t \in Nat : t >= LeastMargin => MarginOf(t) \in Nat /\ MarginOf(t) <= t
<1> SUFFICES ASSUME NEW t \in Nat, t >= LeastMargin PROVE MarginOf(t) \in Nat /\ MarginOf(t) <= t
  OBVIOUS
<1>1. LeastMargin \in Nat /\ MarginPart \in Nat /\ MarginPart > 0
  BY SequenceAssumption
<1> DEFINE q == t \div MarginPart
<1>2. q \in Nat /\ q * MarginPart <= t
  BY <1>1
<1>3. q <= q * MarginPart
  BY <1>1, <1>2
<1> HIDE DEF q
<1>4. q <= t
  BY <1>1, <1>2, <1>3
<1> QED
  BY <1>1, <1>2, <1>4 DEF MarginOf, q

\* A recorded gesture is judged as it was meant.
LEMMA JudgedLemma ==
  ASSUME RecordedInv, sequenceSaid = "recording", IsHeld
  PROVE  Matches(currentSequence, GapsRecorded) <=> IsMeant
<1>1. /\ Len(gaps) \in Nat /\ gaps \in Seq(Nat) /\ matchSequence \in Seq(Nat)
      /\ SequenceSize \in Nat /\ WordRange \in Nat /\ WordRange > 0
      /\ \A i \in DOMAIN matchSequence : matchSequence[i] >= LeastMargin
  BY SequenceAssumption DEF RecordedInv
<1>2. clicks = Len(gaps) + 1 /\ Len(gaps) <= SequenceSize
  BY DEF RecordedInv, IsHeld
<1>3. GapsRecorded = Len(gaps)
  BY <1>1, <1>2 DEF GapsRecorded, AtMostAll
<1>4. ASSUME NEW i \in 1 .. Len(gaps)
      PROVE  gaps[i] \in Nat /\ currentSequence[i] = gaps[i]
  <2>1. gaps[i] \in Nat /\ gaps[i] < WordRange /\ i \in 1 .. SequenceSize
    BY <1>1, <1>2 DEF IsHeld
  <2>2. currentSequence[i] = gaps[i] % WordRange
    BY <1>1, <2>1 DEF RecordedInv, IsHeld
  <2> QED
    BY <1>1, <2>1, <2>2, SmallLemma
<1>5. ASSUME Len(matchSequence) = Len(gaps), NEW i \in 1 .. Len(gaps)
      PROVE  IsWithin(matchSequence[i], currentSequence[i]) <=>
               /\ matchSequence[i] - MarginOf(matchSequence[i]) <= gaps[i]
               /\ gaps[i] <= matchSequence[i] + MarginOf(matchSequence[i])
  <2>1. matchSequence[i] \in Nat /\ matchSequence[i] >= LeastMargin
    BY <1>1, <1>5
  <2>2. MarginOf(matchSequence[i]) <= matchSequence[i]
    BY <2>1, MarginLemma
  <2> QED
    BY <1>4, <2>2 DEF IsWithin
<1>6. CASE Len(matchSequence) = Len(gaps)
  <2>1. DOMAIN gaps = 1 .. Len(gaps)
    BY <1>1
  <2> QED
    BY <1>3, <1>5, <1>6, <2>1 DEF Matches, IsMeant
<1>7. CASE Len(matchSequence) # Len(gaps)
  BY <1>3, <1>7 DEF Matches, IsMeant
<1> QED
  BY <1>6, <1>7

\* Every step records and judges so.
LEMMA SequenceStep == ASSUME HeardInv, [SequenceNext]_sequenceVars PROVE HeardInv'
<1>0. /\ CounterRange \in Nat /\ CounterRange > SequenceSize + 1 /\ SequenceSize \in Nat
      /\ WordRange \in Nat /\ WordRange > 0 /\ LongestGap \in Nat
  BY SequenceAssumption
<1>1. CASE ButtonChanges
  <2>1. /\ matchSequence' = matchSequence /\ sinceChange' = 0 /\ sequenceSaid' = "recording"
        /\ clicks' = (clicks + 1) % CounterRange
        /\ gaps \in Seq(Nat) /\ clicks \in Nat /\ sinceChange \in Nat /\ Len(gaps) \in Nat
    BY <1>1 DEF ButtonChanges, HeardInv, RecordedInv
  <2>2. clicks' \in Nat
    BY <1>0, <2>1
  <2>3. DOMAIN currentSequence' = 1 .. SequenceSize
    BY <1>1 DEF ButtonChanges, HeardInv, RecordedInv, Unused
  <2>4. CASE clicks = 0 /\ sequenceSaid # "recording"
    <3>1. gaps' = << >> /\ clicks' = 1
      BY <1>0, <1>1, <2>1, <2>4 DEF ButtonChanges
    <3> QED
      BY <2>1, <2>2, <2>3, <3>1 DEF HeardInv, RecordedInv, SequenceIsHeard
  <2>5. CASE ~(clicks = 0 /\ sequenceSaid # "recording")
    <3>1. sequenceSaid = "recording" /\ gaps' = Append(gaps, sinceChange)
      BY <1>1, <2>5 DEF ButtonChanges, HeardInv, RecordedInv
    <3>2. gaps' \in Seq(Nat) /\ Len(gaps') = Len(gaps) + 1
      BY <2>1, <3>1
    <3>3. ASSUME Len(gaps') + 1 < CounterRange
          PROVE  /\ clicks' = Len(gaps') + 1
                 /\ \A i \in 1 .. SequenceSize :
                      i <= Len(gaps') => currentSequence'[i] = gaps'[i] % WordRange
      <4>1. /\ clicks = Len(gaps) + 1
            /\ \A i \in 1 .. SequenceSize :
                 i <= Len(gaps) => currentSequence[i] = gaps[i] % WordRange
        BY <1>0, <2>1, <3>1, <3>2, <3>3 DEF HeardInv, RecordedInv
      <4>2. clicks' = Len(gaps') + 1
        <5>1. clicks + 1 \in Nat /\ clicks + 1 < CounterRange /\ clicks + 1 = Len(gaps') + 1
          BY <1>0, <2>1, <3>2, <3>3, <4>1
        <5> QED
          BY <1>0, <2>1, <5>1, SmallLemma
      <4>3. /\ clicks < SequenceSize + 1 =>
                 currentSequence' = [currentSequence EXCEPT ![clicks] = sinceChange % WordRange]
            /\ ~(clicks < SequenceSize + 1) => currentSequence' = currentSequence
        BY <1>1, <2>1, <4>1 DEF ButtonChanges
      <4>4. ASSUME NEW i \in 1 .. SequenceSize, i <= Len(gaps')
            PROVE  currentSequence'[i] = gaps'[i] % WordRange
        <5>1. CASE i <= Len(gaps)
          <6>1. i # clicks /\ currentSequence'[i] = currentSequence[i]
            <7>1. i # clicks
              BY <2>1, <4>1, <5>1
            <7>2. DOMAIN currentSequence = 1 .. SequenceSize
              BY DEF HeardInv, RecordedInv
            <7>3. CASE clicks < SequenceSize + 1
              BY <4>3, <7>1, <7>2, <7>3
            <7>4. CASE ~(clicks < SequenceSize + 1)
              BY <4>3, <7>1, <7>4
            <7> QED
              BY <7>1, <7>3, <7>4
          <6>2. gaps'[i] = gaps[i]
            BY <2>1, <3>1, <5>1
          <6> QED
            BY <4>1, <5>1, <6>1, <6>2
        <5>2. CASE i = Len(gaps) + 1
          BY <1>0, <2>1, <3>1, <4>1, <4>3, <5>2 DEF HeardInv, RecordedInv
        <5> QED
          BY <2>1, <3>2, <4>4, <5>1, <5>2
      <4> QED
        BY <4>2, <4>4
    <3> QED
      BY <2>1, <2>2, <2>3, <3>2, <3>3 DEF HeardInv, RecordedInv, SequenceIsHeard
  <2> QED
    BY <2>4, <2>5
<1>2. CASE Judged
  <2>1. /\ sequenceSaid = "recording" /\ clicks' = 0
        /\ UNCHANGED <<matchSequence, isPressed, sinceChange, currentSequence, gaps>>
        /\ sequenceSaid' = IF Matches(currentSequence, GapsRecorded) THEN "ON_SEQUENCE_MATCH"
                           ELSE "ON_SEQUENCE_DOESNT_MATCH"
    BY <1>2 DEF Judged, SequenceIsOver, HeardInv, RecordedInv
  <2>2. RecordedInv'
    BY <2>1 DEF HeardInv, RecordedInv
  <2>3. (IsHeld' <=> IsHeld) /\ (IsMeant' <=> IsMeant)
    BY <2>1 DEF IsHeld, IsMeant
  <2>4. SequenceIsHeard'
    BY <2>1, <2>3, JudgedLemma DEF HeardInv, SequenceIsHeard
  <2> QED
    BY <2>2, <2>4 DEF HeardInv
<1>3. CASE NothingChanges
  <2>1. UNCHANGED <<matchSequence, isPressed, clicks, currentSequence, sequenceSaid, gaps>>
    BY <1>3 DEF NothingChanges
  <2>2. sinceChange' \in Nat
    BY <1>0, <1>3 DEF NothingChanges, HeardInv, RecordedInv
  <2> QED
    BY <2>1, <2>2 DEF HeardInv, RecordedInv, SequenceIsHeard, IsHeld, IsMeant
<1>4. CASE UNCHANGED sequenceVars
  BY <1>4 DEF sequenceVars, HeardInv, RecordedInv, SequenceIsHeard, IsHeld, IsMeant
<1> QED
  BY <1>1, <1>2, <1>3, <1>4 DEF SequenceNext

\* It starts so.
LEMMA SequenceStarts == SequenceInit => HeardInv
BY DEF SequenceInit, HeardInv, RecordedInv, SequenceIsHeard, Unused

-----------------------------------------------------------------------------
(***************************************************************************)
(* Rgbw.                                                                   *)
(***************************************************************************)
BrightnessInv ==
  /\ copied \in BOOLEAN
  /\ DOMAIN cur = {"hue", "color", "white"} /\ cur = [f \in DOMAIN cur |-> cur[f]]
  /\ last.color # Keep /\ last.white # Keep
  /\ BrightnessIsKept

\* A brightness that is set is remembered, one that is kept already was.
LEMMA RememberLemma ==
  ASSUME NEW curLevel, NEW lastLevel, NEW arg, NEW toggle \in BOOLEAN, lastLevel # Keep,
         NEW level, level = Level(arg, curLevel, lastLevel, toggle), NEW raw
  PROVE  /\ Remember(lastLevel, raw, level) # Keep
         /\ NewValue(curLevel, level) > 0 =>
              \/ arg # Keep /\ Remember(lastLevel, raw, level) = NewValue(curLevel, level)
              \/ /\ arg = Keep /\ NewValue(curLevel, level) = curLevel
                 /\ Remember(lastLevel, raw, level) = lastLevel
<1>1. Keep = -1 /\ ~(-1 > 0)
  BY DEF Keep
<1>2. Brightest # Keep
  BY RgbwAssumption, <1>1
<1>3. level = Keep => arg = Keep
  BY <1>2 DEF Level
<1>4. arg = Keep => level = Keep
  BY <1>2 DEF Level
<1>5. CASE level = Keep
  BY <1>1, <1>3, <1>5 DEF Remember, NewValue
<1>6. CASE level # Keep
  <2>1. NewValue(curLevel, level) = level /\ arg # Keep
    BY <1>4, <1>6 DEF NewValue
  <2>2. CASE level > 0
    BY <1>1, <1>6, <2>1, <2>2 DEF Remember
  <2>3. CASE ~(level > 0)
    BY <2>1, <2>3 DEF Remember
  <2> QED
    BY <2>2, <2>3
<1> QED
  BY <1>5, <1>6

\* What a command asks for is remembered, kept and reported.
LEMMA SetRGBWLemma ==
  ASSUME BrightnessInv, NEW h, NEW c, NEW w, NEW toggle \in BOOLEAN, SetRGBW(h, c, w, toggle)
  PROVE  BrightnessInv'
<1> DEFINE args == Arguments(h, c, w)
<1> DEFINE color == Level(args[2], cur.color, last.color, toggle)
<1> DEFINE white == Level(args[3], cur.white, last.white, toggle)
<1>1. /\ msgAge' = IF toggle THEN ReportDelay + 1 ELSE 0
      /\ last' = [color |-> Remember(last.color, args[2], color),
                  white |-> Remember(last.white, args[3], white)]
      /\ cur' = [hue |-> NewValue(cur.hue, args[1]), color |-> NewValue(cur.color, color),
                 white |-> NewValue(cur.white, white)]
      /\ copied' = (copied /\ args[3] = Keep)
  BY DEF SetRGBW
<1> HIDE DEF args
<1>2. /\ Remember(last.color, args[2], color) # Keep
      /\ NewValue(cur.color, color) > 0 =>
           \/ args[2] # Keep /\ Remember(last.color, args[2], color) = NewValue(cur.color, color)
           \/ /\ args[2] = Keep /\ NewValue(cur.color, color) = cur.color
              /\ Remember(last.color, args[2], color) = last.color
  BY RememberLemma DEF BrightnessInv
<1>3. /\ Remember(last.white, args[3], white) # Keep
      /\ NewValue(cur.white, white) > 0 =>
           \/ args[3] # Keep /\ Remember(last.white, args[3], white) = NewValue(cur.white, white)
           \/ /\ args[3] = Keep /\ NewValue(cur.white, white) = cur.white
              /\ Remember(last.white, args[3], white) = last.white
  BY RememberLemma DEF BrightnessInv
<1> HIDE DEF color, white
<1>4. /\ cur'.color = NewValue(cur.color, color) /\ cur'.white = NewValue(cur.white, white)
      /\ last'.color = Remember(last.color, args[2], color)
      /\ last'.white = Remember(last.white, args[3], white)
      /\ DOMAIN cur' = {"hue", "color", "white"} /\ cur' = [f \in DOMAIN cur' |-> cur'[f]]
  BY <1>1
<1>5. msgAge' # NoMsg
  <2>1. ReportDelay + 1 # -1
    BY RgbwAssumption
  <2> QED
    BY <1>1, <2>1 DEF NoMsg
<1>6. cur'.color > 0 => last'.color = cur'.color
  BY <1>2, <1>4 DEF BrightnessInv, BrightnessIsKept, RemembersBrightness
<1>7. cur'.white > 0 /\ ~copied' => last'.white = cur'.white
  BY <1>1, <1>3, <1>4 DEF BrightnessInv, BrightnessIsKept, RemembersBrightness
<1>8. copied' \in BOOLEAN
  BY <1>1 DEF BrightnessInv
<1> QED
  BY <1>2, <1>3, <1>4, <1>5, <1>6, <1>7, <1>8
  DEF BrightnessInv, BrightnessIsKept, RemembersBrightness, ReportedIsCurrent

\* A light starts at the brightness it remembers.
LEMMA BrightnessStarts == RgbwInit => BrightnessInv
<1> SUFFICES ASSUME RgbwInit PROVE BrightnessInv
  OBVIOUS
<1>1. PICK level \in {0, Brightest} :
       cur = [hue |-> 0,
              color |-> IF rgbwKind = "dimmer" THEN 0 ELSE level,
              white |-> IF rgbwKind = "rgb" THEN 0 ELSE level]
  BY DEF RgbwInit
<1>2. last.color = Brightest /\ last.white = Brightest /\ msgAge = 0 /\ copied = FALSE
  BY DEF RgbwInit
<1>3. Brightest # -1 /\ ~(0 > 0)
  BY RgbwAssumption
<1>4. cur.color \in {0, Brightest} /\ cur.white \in {0, Brightest}
  BY <1>1
<1>5. DOMAIN cur = {"hue", "color", "white"} /\ cur = [f \in DOMAIN cur |-> cur[f]]
  BY <1>1
<1>6. msgAge # NoMsg
  BY <1>2 DEF NoMsg
<1> QED
  BY <1>2, <1>3, <1>4, <1>5, <1>6
  DEF BrightnessInv, BrightnessIsKept, RemembersBrightness, ReportedIsCurrent, Keep

\* Commands, buttons and recoveries keep what the server knows of the brightness true.
LEMMA BrightnessStep == BrightnessInv /\ [RgbwNext]_rgbwVars => BrightnessInv'
<1> SUFFICES ASSUME BrightnessInv, [RgbwNext]_rgbwVars PROVE BrightnessInv'
  OBVIOUS
<1>1. ASSUME NEW h, NEW c, NEW w, RgbwCommand(h, c, w) PROVE BrightnessInv'
  BY <1>1, SetRGBWLemma DEF RgbwCommand
<1>2. ASSUME NEW h, NEW c, NEW w, NEW toggle \in BOOLEAN, RgbwFromServer(h, c, w, toggle)
      PROVE  BrightnessInv'
  BY <1>2, SetRGBWLemma DEF RgbwFromServer
<1>3. CASE TurnOnRgbw \/ TurnOffRgbw \/ ToggleRgbw \/ BrightenOrDim \/ TurnOnDimmed
  BY <1>1, <1>3 DEF TurnOnRgbw, TurnOffRgbw, ToggleRgbw, BrightenOrDim, TurnOnDimmed
<1>4. ASSUME NEW colorStep, NEW whiteStep, IterateDim(colorStep, whiteStep) PROVE BrightnessInv'
  <2> DEFINE white0 == IF colorStep > 0 /\ whiteStep > 0 THEN cur.color ELSE cur.white
  <2>1. Rests(white0) \/ \E turns : IterateWith(turns, colorStep, whiteStep, white0)
    BY <1>4 DEF IterateDim
  <2> HIDE DEF white0
  <2>2. ASSUME NEW turns, IterateWith(turns, colorStep, whiteStep, white0) PROVE BrightnessInv'
    BY <2>2, SetRGBWLemma DEF IterateWith
  <2>3. CASE Rests(white0)
    <3>1. /\ cur' = [cur EXCEPT !.white = white0] /\ copied' = (copied \/ white0 # cur.white)
          /\ UNCHANGED <<last, msgAge, reported>>
      BY <2>3 DEF Rests
    <3>2. /\ DOMAIN cur' = {"hue", "color", "white"} /\ cur' = [f \in DOMAIN cur' |-> cur'[f]]
          /\ cur'.color = cur.color /\ cur'.white = white0
      BY <3>1 DEF BrightnessInv
    <3>3. ~copied' => ~copied /\ cur' = cur
      BY <3>1 DEF BrightnessInv
    <3>4. copied' \in BOOLEAN
      BY <3>1 DEF BrightnessInv
    <3>5. BrightnessIsKept'
      BY <3>1, <3>2, <3>3 DEF BrightnessInv, BrightnessIsKept, RemembersBrightness, ReportedIsCurrent
    <3> QED
      BY <3>1, <3>2, <3>4, <3>5 DEF BrightnessInv
  <2> QED
    BY <2>1, <2>2, <2>3
<1>5. CASE RgbwIterate
  BY <1>4, <1>5 DEF RgbwIterate
<1>6. CASE RgbwTime
  <2>1. /\ msgAge \in 0 .. ReportDelay /\ msgAge' = msgAge + 1
        /\ UNCHANGED <<cur, last, reported, copied>>
    BY <1>6 DEF RgbwTime
  <2>2. PICK age \in 0 .. ReportDelay : msgAge = age
    BY <2>1
  <2>3. age + 1 # -1
    BY RgbwAssumption
  <2>4. msgAge' # NoMsg
    BY <2>1, <2>2, <2>3 DEF NoMsg
  <2> QED
    BY <2>1, <2>4 DEF BrightnessInv, BrightnessIsKept, RemembersBrightness, ReportedIsCurrent
<1>7. CASE Report
  BY <1>7 DEF Report, BrightnessInv, BrightnessIsKept, RemembersBrightness, ReportedIsCurrent
<1>8. CASE RestartRgbw
  <2>1. /\ cur' = [hue |-> IF rgbwKind = "dimmer" THEN 0 ELSE cur.hue,
                   color |-> SavedColor, white |-> SavedWhite]
        /\ last' = [color |-> IF rgbwKind = "dimmer" THEN Brightest
                              ELSE Remember(last.color, SavedColor, SavedColor),
                    white |-> IF rgbwKind = "rgb" THEN Brightest
                              ELSE Remember(last.white, SavedWhite, SavedWhite)]
        /\ msgAge' = 0 /\ copied' = FALSE
    BY <1>8 DEF RestartRgbw
  <2>2. /\ cur'.color = SavedColor /\ cur'.white = SavedWhite
        /\ DOMAIN cur' = {"hue", "color", "white"} /\ cur' = [f \in DOMAIN cur' |-> cur'[f]]
        /\ last'.color = (IF rgbwKind = "dimmer" THEN Brightest
                          ELSE Remember(last.color, SavedColor, SavedColor))
        /\ last'.white = (IF rgbwKind = "rgb" THEN Brightest
                          ELSE Remember(last.white, SavedWhite, SavedWhite))
    BY <2>1
  <2>3. Brightest # -1 /\ ~(-1 > 0) /\ ~(0 > 0) /\ Keep = -1
    BY RgbwAssumption DEF Keep
  <2>4. last'.color # Keep /\ (cur'.color > 0 => last'.color = cur'.color)
    BY <2>2, <2>3 DEF Remember, SavedColor, BrightnessInv
  <2>5. last'.white # Keep /\ (cur'.white > 0 => last'.white = cur'.white)
    BY <2>2, <2>3 DEF Remember, SavedWhite, BrightnessInv
  <2>6. msgAge' # NoMsg
    BY <2>1 DEF NoMsg
  <2> QED
    BY <2>1, <2>2, <2>4, <2>5, <2>6
    DEF BrightnessInv, BrightnessIsKept, RemembersBrightness, ReportedIsCurrent
<1>9. CASE UNCHANGED rgbwVars
  BY <1>9 DEF rgbwVars, BrightnessInv, BrightnessIsKept, RemembersBrightness, ReportedIsCurrent
<1> QED
  BY <1>2, <1>3, <1>5, <1>6, <1>7, <1>8, <1>9 DEF RgbwNext

-----------------------------------------------------------------------------
(***************************************************************************)
(* Fade.                                                                   *)
(***************************************************************************)
Gap(a, b) == IF a < b THEN b - a ELSE a - b

\* How far a lamp may be from what was commanded, so long after the command.
Near(f) ==
  \/ hw[f] = Target(f)
  \/ fadeEffect > 0 /\ Gap(hw[f], Target(f)) * (2 * fadeEffect) + Top * calm <= (Top + 1) * (2 * fadeEffect)
  \/ fadeEffect = 0 /\ (calm = 0 \/ (calm <= LongestOfAll(Delays) /\ Gap(hw[f], Target(f)) <= 1))

FadeInv ==
  /\ fadeEffect \in Nat /\ calm \in Nat
  /\ wanted = [f \in LampFields |-> wanted[f]] /\ \A f \in LampFields : wanted[f] \in 0 .. MostOf(f)
  /\ hw = [f \in LampFields |-> hw[f]] /\ \A f \in LampFields : hw[f] \in -1 .. Top
  /\ \A f \in LampFields : Near(f)
  /\ hw.red = -1 \/ pins = Output(hw)

-----------------------------------------------------------------------------
\* A quotient is the number of whole times.
LEMMA DivLemma ==
  ASSUME NEW a \in Int, NEW b \in Nat \ {0}
  PROVE  (a \div b) \in Int /\ b * (a \div b) <= a /\ a < b * (a \div b) + b
OBVIOUS

\* There is a longest delay.
LEMMA LongestLemma ==
  /\ LongestOfAll(Delays) \in Nat \ {0} /\ \A delay \in Delays : delay <= LongestOfAll(Delays)
<1>1. \E longest \in Delays : \A delay \in Delays : delay <= longest
  BY FadeAssumption
<1>2. LongestOfAll(Delays) \in Delays /\ \A delay \in Delays : delay <= LongestOfAll(Delays)
  BY <1>1 DEF LongestOfAll
<1> QED
  BY <1>2, FadeAssumption

\* What is commanded lies in the range of the lamp.
LEMMA TargetLemma ==
  ASSUME NEW f \in LampFields, wanted[f] \in 0 .. MostOf(f)
  PROVE  Target(f) \in 0 .. Top
<1> DEFINE v == wanted[f]
<1> DEFINE most == MostOf(f)
<1>1. Top \in Nat \ {0} /\ most \in Nat \ {0} /\ v \in 0 .. most
  BY FadeAssumption DEF MostOf
<1>2. Target(f) = 0 + (v * (Top - 0)) \div most
  BY DEF Target, Adjusted
<1> HIDE DEF v, most
<1>3. (v * Top) \div most \in 0 .. Top
  BY <1>1
<1> QED
  BY <1>1, <1>2, <1>3

\* A step of at least 1 goes on at least by the half of it, and not beyond.
LEMMA MoveLemma ==
  ASSUME NEW from \in Int, NEW to \in Int, NEW over \in Nat, NEW under \in Nat \ {0}, over >= under,
         NEW now, now = Moved(from, to, [over |-> over, under |-> under])
  PROVE  /\ now \in Int /\ ((from <= now /\ now <= to) \/ (to <= now /\ now <= from))
         /\ now = to \/ Gap(now, to) * (2 * under) + over <= Gap(from, to) * (2 * under)
         /\ now = to \/ Gap(now, to) * under + over < Gap(from, to) * under + under
<1> DEFINE up == (from * under + over) \div under
<1> DEFINE down == (from * under - over) \div under
<1>1. now = IF from < to THEN (IF up > to THEN to ELSE up)
            ELSE IF from > to THEN (IF down < to THEN to ELSE down) ELSE from
  BY DEF Moved
<1>2. from * under + over \in Int /\ from * under - over \in Int
  OBVIOUS
<1>3. up \in Int /\ from * under + over < under * up + under
  BY <1>2, DivLemma
<1>4. down \in Int /\ under * down <= from * under - over
  BY <1>2, DivLemma
<1> HIDE DEF up, down
<1>5. PICK k \in Int : k = up - from
  BY <1>3
<1>6. PICK j \in Int : j = from - down
  BY <1>4
<1>7. under * k > over - under
  <2>1. under * up = under * from + under * k
    BY <1>3, <1>5
  <2> QED
    BY <1>3, <1>5, <2>1
<1>8. k >= 1 /\ 2 * (under * k) >= over
  <2>1. k >= 1
    BY <1>5, <1>7
  <2>2. under * k >= under
    BY <2>1
  <2> QED
    BY <1>7, <2>1, <2>2
<1>9. under * j >= over
  <2>1. under * down = under * from - under * j
    BY <1>4, <1>6
  <2> QED
    BY <1>4, <1>6, <2>1
<1>10. j >= 1
  BY <1>6, <1>9
<1>11. CASE from < to /\ up <= to
  <2>1. now = up /\ Gap(from, to) = Gap(now, to) + k /\ Gap(now, to) \in Nat
    BY <1>1, <1>3, <1>5, <1>11 DEF Gap
  <2>2. (Gap(now, to) + k) * (2 * under) = Gap(now, to) * (2 * under) + 2 * (under * k)
    <3>1. PICK gap \in Nat : gap = Gap(now, to)
      BY <2>1
    <3>2. (gap + k) * (2 * under) = gap * (2 * under) + 2 * (under * k)
      OBVIOUS
    <3> QED
      BY <3>1, <3>2
  <2>3. from <= now /\ now <= to
    BY <1>3, <1>5, <1>8, <1>11, <2>1
  <2>4. Gap(now, to) * (2 * under) \in Int /\ under * k \in Int /\ Gap(now, to) * under \in Int
    BY <2>1
  <2>5. (Gap(now, to) + k) * under = Gap(now, to) * under + under * k
    BY <2>1
  <2> QED
    BY <1>3, <1>7, <1>8, <2>1, <2>2, <2>3, <2>4, <2>5
<1>12. CASE from > to /\ down >= to
  <2>1. now = down /\ Gap(from, to) = Gap(now, to) + j /\ Gap(now, to) \in Nat
    BY <1>1, <1>4, <1>6, <1>12 DEF Gap
  <2>2. (Gap(now, to) + j) * (2 * under) = Gap(now, to) * (2 * under) + 2 * (under * j)
    <3>1. PICK gap \in Nat : gap = Gap(now, to)
      BY <2>1
    <3>2. (gap + j) * (2 * under) = gap * (2 * under) + 2 * (under * j)
      OBVIOUS
    <3> QED
      BY <3>1, <3>2
  <2>3. to <= now /\ now <= from
    BY <1>4, <1>6, <1>10, <1>12, <2>1
  <2>4. Gap(now, to) * (2 * under) \in Int /\ under * j \in Int /\ Gap(now, to) * under \in Int
    BY <2>1
  <2>5. (Gap(now, to) + j) * under = Gap(now, to) * under + under * j
    BY <2>1
  <2> QED
    BY <1>4, <1>9, <2>1, <2>2, <2>3, <2>4, <2>5
<1>13. CASE ~(from < to /\ up <= to) /\ ~(from > to /\ down >= to)
  <2>1. now = to
    BY <1>1, <1>3, <1>4, <1>13
  <2> QED
    BY <2>1
<1> QED
  BY <1>11, <1>12, <1>13

\* The steps the timer takes.
LEMMA StepOfLemma ==
  ASSUME NEW delay \in Delays, fadeEffect \in Nat
  PROVE  \E over \in Nat, under \in Nat \ {0} :
           /\ StepOf(delay) = [over |-> over, under |-> under] /\ over >= under
           /\ fadeEffect = 0 => over = Top /\ under = 1
           /\ fadeEffect > 0 => \/ over = 1 /\ under = 1 /\ Top * delay < fadeEffect
                                \/ over = Top * delay /\ under = fadeEffect
<1>1. Top \in Nat \ {0} /\ delay \in Nat \ {0}
  BY FadeAssumption
<1>2. Top * delay \in Nat
  BY <1>1
<1>3. CASE fadeEffect = 0
  BY <1>1, <1>3 DEF StepOf
<1>4. CASE fadeEffect > 0 /\ Top * delay < fadeEffect
  BY <1>2, <1>4 DEF StepOf
<1>5. CASE fadeEffect > 0 /\ ~(Top * delay < fadeEffect)
  BY <1>2, <1>5 DEF StepOf
<1> QED
  BY <1>2, <1>3, <1>4, <1>5

\* A call of the timer brings each lamp as near as the time that has passed asks for.
LEMMA NearLemma ==
  ASSUME FadeInv, NEW delay \in Delays, LampOnTimer(delay), NEW f \in LampFields
  PROVE  hw'[f] \in -1 .. Top /\ Near(f)' /\ (hw[f] = -1 => hw'[f] # -1)
<1>1. /\ hw' = [g \in LampFields |-> Moved(hw[g], Target(g), StepOf(delay))]
      /\ calm' = IF calm + delay > SettleTime THEN SettleTime ELSE calm + delay
      /\ UNCHANGED <<lampKind, fadeEffect, limits, wanted>>
  BY DEF LampOnTimer
<1>2. PICK from \in -1 .. Top : from = hw[f]
  BY DEF FadeInv
<1>3. PICK to \in 0 .. Top : to = Target(f)
  BY TargetLemma DEF FadeInv
<1>4. Target(f)' = to
  BY <1>1, <1>3 DEF Target
<1>5. Top \in Nat \ {0} /\ delay \in Nat \ {0} /\ fadeEffect \in Nat /\ calm \in Nat
  BY FadeAssumption DEF FadeInv
<1>6. PICK over \in Nat, under \in Nat \ {0} :
           /\ StepOf(delay) = [over |-> over, under |-> under] /\ over >= under
           /\ fadeEffect = 0 => over = Top /\ under = 1
           /\ fadeEffect > 0 => \/ over = 1 /\ under = 1 /\ Top * delay < fadeEffect
                                \/ over = Top * delay /\ under = fadeEffect
  BY <1>5, StepOfLemma
<1>7. PICK now : now = Moved(from, to, [over |-> over, under |-> under])
  OBVIOUS
<1>8. hw'[f] = now
  BY <1>1, <1>2, <1>3, <1>6, <1>7
<1>9. /\ now \in Int /\ ((from <= now /\ now <= to) \/ (to <= now /\ now <= from))
      /\ now = to \/ Gap(now, to) * (2 * under) + over <= Gap(from, to) * (2 * under)
      /\ now = to \/ Gap(now, to) * under + over < Gap(from, to) * under + under
  <2>1. from \in Int /\ to \in Int /\ over \in Nat /\ under \in Nat \ {0} /\ over >= under
    BY <1>2, <1>3, <1>5, <1>6
  <2> QED
    BY <2>1, <1>7, MoveLemma
<1>10. now \in -1 .. Top /\ Gap(now, to) \in Nat /\ Gap(from, to) \in Nat
  <2>1. now \in -1 .. Top
    BY <1>2, <1>3, <1>5, <1>9
  <2> QED
    BY <2>1, <1>2, <1>3, <1>5 DEF Gap
<1>11. LongestOfAll(Delays) \in Nat \ {0} /\ delay <= LongestOfAll(Delays)
  BY LongestLemma
<1>12. SettleTime \in Nat
  BY <1>5, <1>11 DEF SettleTime
<1>13. PICK then \in Nat : calm' = then /\ then <= calm + delay /\ (fadeEffect = 0 /\ calm = 0 => then = delay)
  BY <1>1, <1>5, <1>11, <1>12 DEF SettleTime
<1>14. from = -1 => now # -1
  <2> SUFFICES ASSUME from = -1, now = -1 PROVE FALSE
    OBVIOUS
  <2>1. now # to
    BY <1>3
  <2>2. Gap(now, to) * (2 * under) + over <= Gap(now, to) * (2 * under)
    BY <1>9, <2>1
  <2>3. Gap(now, to) * (2 * under) \in Int /\ over >= 1
    BY <1>6, <1>10
  <2> QED
    BY <2>2, <2>3
<1>15. CASE now = to
  BY <1>4, <1>8, <1>10, <1>14, <1>15, <1>2 DEF Near
<1>16. CASE now # to /\ fadeEffect > 0
  <2>1. from # to
    BY <1>9, <1>16
  <2>2. Gap(from, to) * (2 * fadeEffect) + Top * calm <= (Top + 1) * (2 * fadeEffect)
    BY <1>2, <1>3, <1>16, <2>1 DEF FadeInv, Near
  <2>3. /\ Gap(from, to) * (2 * fadeEffect) \in Int /\ Gap(now, to) * (2 * fadeEffect) \in Int
        /\ Top * calm \in Int /\ Top * delay \in Int /\ Top * then \in Int
    BY <1>5, <1>10, <1>13
  <2>4. Gap(now, to) * (2 * fadeEffect) + Top * delay <= Gap(from, to) * (2 * fadeEffect)
    <3>1. CASE over = 1 /\ under = 1 /\ Top * delay < fadeEffect
      <4>1. Gap(now, to) + 1 <= Gap(from, to)
        BY <1>9, <1>10, <1>16, <3>1
      <4>2. (Gap(now, to) + 1) * (2 * fadeEffect) <= Gap(from, to) * (2 * fadeEffect)
        BY <1>5, <1>10, <4>1
      <4>3. (Gap(now, to) + 1) * (2 * fadeEffect) = Gap(now, to) * (2 * fadeEffect) + 2 * fadeEffect
        BY <1>5, <1>10
      <4> QED
        BY <1>5, <2>3, <3>1, <4>2, <4>3
    <3>2. CASE over = Top * delay /\ under = fadeEffect
      BY <1>9, <1>16, <3>2
    <3> QED
      BY <1>6, <1>16, <3>1, <3>2
  <2>5. Top * then <= Top * calm + Top * delay
    <3>1. Top * then <= Top * (calm + delay)
      BY <1>5, <1>13
    <3>2. Top * (calm + delay) = Top * calm + Top * delay
      BY <1>5
    <3> QED
      BY <3>1, <3>2
  <2>6. Gap(now, to) * (2 * fadeEffect) + Top * then <= (Top + 1) * (2 * fadeEffect)
    <3> DEFINE room == (Top + 1) * (2 * fadeEffect)
    <3>1. room \in Int
      BY <1>5
    <3>2. Gap(from, to) * (2 * fadeEffect) + Top * calm <= room
      BY <2>2
    <3> HIDE DEF room
    <3>3. Gap(now, to) * (2 * fadeEffect) + Top * then <= room
      BY <2>3, <2>4, <2>5, <3>1, <3>2
    <3> QED
      BY <3>3 DEF room
  <2>7. fadeEffect' > 0 /\ Gap(hw'[f], Target(f)') * (2 * fadeEffect') + Top * calm' <= (Top + 1) * (2 * fadeEffect')
    BY <1>1, <1>4, <1>8, <1>13, <1>16, <2>6
  <2>8. Near(f)'
    BY <2>7 DEF Near
  <2> QED
    BY <1>2, <1>8, <1>10, <1>14, <2>8
<1>17. CASE now # to /\ fadeEffect = 0
  <2>1. Gap(now, to) + Top < Gap(from, to) + 1
    BY <1>6, <1>9, <1>10, <1>17
  <2>2. Gap(from, to) <= Top + 1
    BY <1>2, <1>3, <1>5 DEF Gap
  <2>3. from # to
    BY <1>9, <1>17
  <2>4. calm = 0 \/ Gap(from, to) <= 1
    BY <1>2, <1>3, <1>17, <2>3 DEF FadeInv, Near
  <2>5. calm # 0 => Gap(now, to) = 0
    BY <1>5, <1>10, <2>1, <2>4
  <2>6. Gap(now, to) # 0
    BY <1>3, <1>10, <1>17 DEF Gap
  <2>7. then <= LongestOfAll(Delays) /\ Gap(now, to) <= 1
    BY <1>5, <1>10, <1>11, <1>13, <1>17, <2>1, <2>2, <2>5, <2>6
  <2>8. Near(f)'
    BY <1>1, <1>4, <1>8, <1>13, <1>17, <2>7 DEF Near
  <2> QED
    BY <1>2, <1>8, <1>10, <1>14, <2>8
<1> QED
  BY <1>5, <1>15, <1>16, <1>17

\* A lamp is dark and calm at the start.
LEMMA FadeStarts == FadeInit => FadeInv
<1> SUFFICES ASSUME FadeInit PROVE FadeInv
  OBVIOUS
<1>1. Top \in Nat \ {0} /\ MostRed \in Nat \ {0} /\ MostLevel \in Nat \ {0}
      /\ fadeEffect \in Nat
  BY FadeAssumption DEF FadeInit
<1>2. \A f \in LampFields : wanted[f] = 0 /\ hw[f] \in {-1, 0} /\ MostOf(f) \in Nat \ {0}
  BY <1>1 DEF FadeInit, LampFields, MostOf
<1>3. ASSUME NEW f \in LampFields PROVE Near(f)
  <2>1. CASE fadeEffect = 0
    BY <2>1 DEF Near, FadeInit
  <2>2. CASE fadeEffect > 0
    <3>1. Target(f) \in 0 .. Top
      BY <1>2, TargetLemma
    <3>2. Target(f) = 0
      <4>1. Target(f) = 0 + (0 * (Top - 0)) \div MostOf(f)
        BY <1>2 DEF Target, Adjusted
      <4> QED
        BY <1>1, <1>2, <4>1
    <3>3. Gap(hw[f], 0) \in {0, 1}
      BY <1>2 DEF Gap
    <3>4. Gap(hw[f], 0) * (2 * fadeEffect) <= (Top + 1) * (2 * fadeEffect)
      BY <1>1, <3>3
    <3>5. Top * calm = 0 /\ Gap(hw[f], 0) * (2 * fadeEffect) \in Int
      BY <1>1, <3>3 DEF FadeInit
    <3> QED
      BY <2>2, <3>2, <3>4, <3>5 DEF Near
  <2> QED
    BY <1>1, <2>1, <2>2
<1>4. hw.red = -1
  BY DEF FadeInit, LampFields
<1> QED
  BY <1>1, <1>2, <1>3, <1>4 DEF FadeInv, FadeInit

\* Every command and every call of the timer keeps a lamp near.
LEMMA FadeStep == FadeInv /\ [FadeNext]_fadeVars => FadeInv'
<1> SUFFICES ASSUME FadeInv, [FadeNext]_fadeVars PROVE FadeInv'
  OBVIOUS
<1>1. ASSUME NEW delay \in Delays, LampOnTimer(delay) PROVE FadeInv'
  <2>1. /\ hw' = [g \in LampFields |-> Moved(hw[g], Target(g), StepOf(delay))]
        /\ pins' = IF ValueChanged(hw, hw') THEN Output(hw') ELSE pins
        /\ calm' = IF calm + delay > SettleTime THEN SettleTime ELSE calm + delay
        /\ UNCHANGED <<lampKind, fadeEffect, limits, wanted>>
    BY <1>1 DEF LampOnTimer
  <2>2. \A f \in LampFields : hw'[f] \in -1 .. Top /\ Near(f)' /\ (hw[f] = -1 => hw'[f] # -1)
    BY <1>1, NearLemma
  <2>3. calm' \in Nat
    <3>1. delay \in Nat /\ LongestOfAll(Delays) \in Nat /\ calm \in Nat /\ fadeEffect \in Nat
      BY LongestLemma, FadeAssumption DEF FadeInv
    <3>2. SettleTime \in Nat /\ calm + delay \in Nat
      BY <3>1 DEF SettleTime
    <3> QED
      BY <2>1, <3>2
  <2>4. hw' = [f \in LampFields |-> hw'[f]]
    BY <2>1
  <2>5. hw'.red = -1 \/ pins' = Output(hw)'
    <3>1. Output(hw)' = Output(hw')
      BY <2>1 DEF Output, RgbwLeds, RgbLeds, DimmerLeds, ColorPin, WhitePin
    <3>2. hw.red = -1 => hw'.red # -1
      BY <2>2 DEF LampFields
    <3>3. CASE hw' = hw
      BY <2>1, <3>2, <3>3, <3>1 DEF FadeInv, ValueChanged
    <3>4. CASE hw' # hw
      BY <2>1, <3>1, <3>4 DEF ValueChanged
    <3> QED
      BY <3>3, <3>4
  <2> QED
    BY <2>1, <2>2, <2>3, <2>4, <2>5 DEF FadeInv
<1>2. ASSUME NEW field \in LampFields, NEW new \in IF field = "red" THEN Reds ELSE FadeLevels,
             Assign(field, new)
      PROVE  FadeInv'
  <2>1. /\ wanted' = [wanted EXCEPT ![field] = new] /\ calm' = 0
        /\ UNCHANGED <<lampKind, fadeEffect, limits, hw, pins>>
    BY <1>2 DEF Assign
  <2>2. new \in 0 .. MostOf(field)
    BY FadeAssumption DEF MostOf
  <2>3. /\ wanted' = [f \in LampFields |-> wanted'[f]]
        /\ \A f \in LampFields : wanted'[f] \in 0 .. MostOf(f)
    BY <2>1, <2>2 DEF FadeInv
  <2>4. ASSUME NEW f \in LampFields PROVE Near(f)'
    <3>1. PICK to \in 0 .. Top : to = Target(f)'
      <4>1. Target(f)' = Adjusted(wanted'[f], MostOf(f), <<0, Top>>)
        BY DEF Target, MostOf
      <4> DEFINE v == wanted'[f]
      <4> DEFINE most == MostOf(f)
      <4>2. Top \in Nat \ {0} /\ most \in Nat \ {0} /\ v \in 0 .. most
        BY <2>3, FadeAssumption DEF MostOf
      <4>3. Target(f)' = 0 + (v * (Top - 0)) \div most
        BY <4>1 DEF Adjusted
      <4> HIDE DEF v, most
      <4>4. (v * Top) \div most \in 0 .. Top
        BY <4>2
      <4>5. Target(f)' \in 0 .. Top
        BY <4>2, <4>3, <4>4
      <4> QED
        BY <4>5
    <3>2. PICK at \in -1 .. Top : at = hw[f]
      BY DEF FadeInv
    <3>3. Top \in Nat \ {0} /\ fadeEffect \in Nat
      BY FadeAssumption DEF FadeInv
    <3>4. Gap(at, to) \in 0 .. Top + 1
      BY <3>1, <3>2, <3>3 DEF Gap
    <3>5. Gap(at, to) * (2 * fadeEffect) <= (Top + 1) * (2 * fadeEffect)
      BY <3>3, <3>4
    <3>6. Top * 0 = 0 /\ Gap(at, to) * (2 * fadeEffect) \in Int
      BY <3>3, <3>4
    <3>7. CASE fadeEffect > 0
      BY <2>1, <3>1, <3>2, <3>5, <3>6, <3>7 DEF Near
    <3>8. CASE fadeEffect = 0
      BY <2>1, <3>8 DEF Near
    <3> QED
      BY <3>3, <3>7, <3>8
  <2>5. Output(hw)' = Output(hw)
    BY <2>1 DEF Output, RgbwLeds, RgbLeds, DimmerLeds, ColorPin, WhitePin
  <2> QED
    BY <2>1, <2>3, <2>4, <2>5 DEF FadeInv
<1>3. CASE UNCHANGED fadeVars
  <2>1. UNCHANGED <<lampKind, fadeEffect, limits, wanted, hw, pins, calm>>
    BY <1>3 DEF fadeVars
  <2>2. \A f \in LampFields : Near(f)' <=> Near(f)
    BY <2>1 DEF Near, Target
  <2>3. Output(hw)' = Output(hw)
    BY <2>1 DEF Output, RgbwLeds, RgbLeds, DimmerLeds, ColorPin, WhitePin
  <2> QED
    BY <2>1, <2>2, <2>3 DEF FadeInv
<1> QED
  BY <1>1, <1>2, <1>3 DEF FadeNext

\* In the time of the fade effect twice over, near is there.
LEMMA FadeIsThere == FadeInv => LampsFollow
<1> SUFFICES ASSUME FadeInv PROVE LampsFollow
  OBVIOUS
<1>1. LongestOfAll(Delays) \in Nat \ {0} /\ Top \in Nat \ {0} /\ calm \in Nat /\ fadeEffect \in Nat
  BY LongestLemma, FadeAssumption DEF FadeInv
<1>2. ASSUME Settled, NEW f \in LampFields PROVE hw[f] = Target(f)
  <2> SUFFICES ASSUME hw[f] # Target(f) PROVE FALSE
    OBVIOUS
  <2>1. PICK to \in 0 .. Top : to = Target(f)
    BY TargetLemma DEF FadeInv
  <2>2. PICK at \in -1 .. Top : at = hw[f]
    BY DEF FadeInv
  <2>3. Gap(at, to) \in Nat \ {0}
    BY <1>1, <2>1, <2>2 DEF Gap
  <2>4. calm >= 2 * fadeEffect + 2 /\ calm > LongestOfAll(Delays)
    BY <1>1, <1>2 DEF Settled, SettleTime
  <2>5. CASE fadeEffect = 0
    BY <1>1, <2>4, <2>5 DEF FadeInv, Near
  <2>6. CASE fadeEffect > 0
    <3>1. Gap(at, to) * (2 * fadeEffect) + Top * calm <= (Top + 1) * (2 * fadeEffect)
      BY <2>1, <2>2, <2>6 DEF FadeInv, Near
    <3>2. Gap(at, to) * (2 * fadeEffect) >= 2 * fadeEffect
      BY <1>1, <2>3
    <3>3. Top * calm >= Top * (2 * fadeEffect + 2)
      BY <1>1, <2>4
    <3>4. Top * (2 * fadeEffect + 2) = Top * (2 * fadeEffect) + Top * 2
      BY <1>1
    <3>5. (Top + 1) * (2 * fadeEffect) = Top * (2 * fadeEffect) + 2 * fadeEffect
      BY <1>1
    <3>6. Top * (2 * fadeEffect) \in Int /\ Gap(at, to) * (2 * fadeEffect) \in Int /\ Top * calm \in Int
      BY <1>1, <2>3
    <3> QED
      BY <1>1, <3>1, <3>2, <3>3, <3>4, <3>5, <3>6
  <2> QED
    BY <1>1, <2>5, <2>6
<1>3. Settled => hw.red # -1
  <2>1. Target("red") \in 0 .. Top
    BY TargetLemma DEF FadeInv, LampFields
  <2> QED
    BY <1>2, <2>1 DEF LampFields
<1> QED
  BY <1>2, <1>3 DEF FadeInv, LampsFollow

-----------------------------------------------------------------------------
(***************************************************************************)
(* The types of what the controls keep: sequence buttons, relays, lights,  *)
(* lamps and the channels of a Linux device.                               *)
(***************************************************************************)

\* What is set, counted and recorded stays within its width.
LEMMA SequenceTypesStart == SequenceInit => SequenceTypeOK
<1> SUFFICES ASSUME SequenceInit PROVE SequenceTypeOK
  OBVIOUS
<1>1. {CounterRange, WordRange} \subseteq Nat \ {0} /\ LongestGap \in Nat /\ MostGaps \in Nat
  BY SequenceAssumption
<1>2. 0 \in 0 .. CounterRange - 1 /\ 0 \in 0 .. WordRange - 1 /\ 0 \in 0 .. LongestGap
  BY <1>1
<1>3. Len(gaps) <= MostGaps
  BY <1>1 DEF SequenceInit
<1> QED
  BY <1>2, <1>3 DEF SequenceInit, SequenceTypeOK, Unused

\* And so it does whenever the button is pressed, released or read.
LEMMA SequenceTypesStep ==
  ASSUME HeardInv, SequenceTypeOK, [SequenceNext]_sequenceVars
  PROVE  SequenceTypeOK'
<1>1. /\ CounterRange \in Nat \ {0} /\ WordRange \in Nat \ {0}
      /\ LongestGap \in Nat /\ MostGaps \in Nat /\ SequenceSize \in Nat
  BY SequenceAssumption
<1>2. /\ gaps \in Seq(Nat) /\ clicks \in Nat /\ sinceChange \in Nat
  BY DEF HeardInv, RecordedInv
<1>3. CASE ButtonChanges
  <2>1. /\ isPressed' \in BOOLEAN /\ sinceChange' = 0 /\ matchSequence' = matchSequence
        /\ clicks' = (clicks + 1) % CounterRange
    BY <1>3 DEF ButtonChanges
  <2>2. clicks' \in 0 .. CounterRange - 1
    BY <1>1, <1>2, <2>1
  <2>3. sinceChange % WordRange \in 0 .. WordRange - 1 /\ 0 \in 0 .. WordRange - 1
    BY <1>1, <1>2
  <2>4. currentSequence' \in [1 .. SequenceSize -> 0 .. WordRange - 1]
    BY <1>3, <2>3 DEF ButtonChanges, Unused, SequenceTypeOK
  <2>5. Len(gaps') <= MostGaps
    <3>1. CASE clicks = 0 /\ sequenceSaid # "recording"
      BY <1>1, <1>3, <3>1 DEF ButtonChanges
    <3>2. CASE ~(clicks = 0 /\ sequenceSaid # "recording")
      <4>1. gaps' = Append(gaps, sinceChange) /\ Len(gaps) < MostGaps
        BY <1>3, <3>2 DEF ButtonChanges
      <4> QED
        BY <1>1, <1>2, <4>1
    <3> QED
      BY <3>1, <3>2
  <2> QED
    BY <1>1, <2>1, <2>2, <2>4, <2>5 DEF SequenceTypeOK
<1>4. CASE Judged
  BY <1>1, <1>4 DEF Judged, SequenceTypeOK
<1>5. CASE NothingChanges
  BY <1>1, <1>5 DEF NothingChanges, SequenceTypeOK
<1>6. CASE UNCHANGED sequenceVars
  BY <1>6 DEF sequenceVars, SequenceTypeOK
<1> QED
  BY <1>3, <1>4, <1>5, <1>6 DEF SequenceNext

\* The longest of the times is one of them, so that an age can be more than each.
LEMMA LongAgeLemma ==
  /\ LongAge \in Nat \ {0}
  /\ \A age \in 0 .. LongAge : Aged(age) \in 0 .. LongAge
<1> DEFINE Times == Durations \cup {MinDuration, StatusPulse, ReadTime}
           Longer(a, b) == IF a < b THEN b ELSE a
<1>1. Durations \subseteq Nat /\ {MinDuration, StatusPulse, ReadTime, MostLate} \subseteq Nat
  BY RelayAssumption
<1>2. PICK longest \in Durations : \A d \in Durations : d <= longest
  BY RelayAssumption
<1>3. \E t \in Times : \A u \in Times : u <= t
  <2> DEFINE most == Longer(longest, Longer(MinDuration, Longer(StatusPulse, ReadTime)))
  <2>1. most \in Times /\ \A u \in Times : u <= most
    BY <1>1, <1>2
  <2> QED
    BY <2>1
<1> DEFINE chosen == CHOOSE t \in Times : \A u \in Times : u <= t
<1>4. chosen \in Times
  BY <1>3
<1>5. chosen \in Nat
  BY <1>1, <1>4
<1>6. LongAge = 1 + MostLate + chosen
  BY DEF LongAge
<1> HIDE DEF chosen
<1>7. LongAge \in Nat \ {0}
  BY <1>1, <1>5, <1>6
<1> QED
  BY <1>7 DEF Aged

\* A command stores what it is given, and the lamp is on since it or as long as before.
SwitchTyped ==
  /\ circuit' \in BOOLEAN /\ shown' \in BOOLEAN /\ busy' \in BOOLEAN /\ pulse' \in BOOLEAN
  /\ duration' \in Durations \cup {MinDuration}
  /\ durationAge' \in 0 .. LongAge /\ pulseAge' \in 0 .. LongAge
  /\ litAge' = 0 \/ (litAge' = litAge /\ (circuit' = FALSE \/ ~Counted))
  /\ switched' = switched \/ (Counted /\ switched' = switched + 1)

\* What is typed, with what the bounds need: a lamp that is lit is looked at in each pass, and
\* the relay's own switching has been counted in when it was found to be due.
RelayTypes ==
  /\ RelayTypeOK /\ storedDuration \in Durations
  /\ Counted /\ circuit => litAge < Second + late
  /\ Counted /\ expired => switched <= MostSwitched

\* A command, whether it stores a duration or not, switches as it should or not at all.
LEMMA CommandTypes ==
  ASSUME RelayTypes, NEW d \in Durations, NEW stored \in Durations,
         TurnOn(d, stored) \/ TurnOff \/ Toggle
  PROVE  SwitchTyped \/ (UNCHANGED switchVars /\ UNCHANGED shown)
<1>0. circuit \in BOOLEAN /\ shown \in BOOLEAN /\ busy \in BOOLEAN /\ pulse \in BOOLEAN
  BY Zenon DEF RelayTypes, RelayTypeOK
<1>1. /\ duration \in Durations \cup {MinDuration} /\ storedDuration \in Durations
      /\ durationAge \in 0 .. LongAge /\ pulseAge \in 0 .. LongAge
  BY DEF RelayTypes, RelayTypeOK
<1>9. 0 \in 0 .. LongAge
  BY LongAgeLemma
<1>2. 0 \in Durations /\ (IsBistable => ~Counted)
  BY RelayAssumption DEF IsBistable, Counted
<1>3. InternalToggle => /\ circuit' \in BOOLEAN /\ busy' \in BOOLEAN /\ pulse' \in BOOLEAN
                         /\ pulseAge' \in 0 .. LongAge
  BY <1>0, <1>9 DEF InternalToggle
<1>4. ASSUME NEW on \in BOOLEAN, NEW e \in Durations, SwitchTo(on, e) PROVE SwitchTyped
  <2>1. /\ duration' = e /\ durationAge' = 0 /\ circuit' = on /\ shown' = on
        /\ litAge' = (IF on THEN 0 ELSE litAge)
        /\ switched' = (IF Counted THEN switched + 1 ELSE switched)
        /\ UNCHANGED <<busy, pulse, pulseAge>>
    BY <1>4 DEF SwitchTo, CountSwitch, NoPulse
  <2>2. litAge' = 0 \/ (litAge' = litAge /\ circuit' = FALSE)
    BY <2>1
  <2>3. switched' = switched \/ (Counted /\ switched' = switched + 1)
    BY <2>1, Zenon
  <2> QED
    BY <1>0, <1>1, <1>9, <2>1, <2>2, <2>3 DEF SwitchTyped
<1>5. ASSUME NEW e \in Durations, TurnOnBistable(e), IsBistable, UNCHANGED shown PROVE SwitchTyped
  <2> DEFINE t == IF e > 0 /\ e < MinDuration THEN MinDuration ELSE e
  <2>1. t \in Durations \cup {MinDuration}
    OBVIOUS
  <2>2. /\ duration' = t /\ UNCHANGED <<litAge, switched>>
        /\ durationAge' = IF t > 0 THEN 0 ELSE durationAge
        /\ InternalToggle \/ (NoPulse /\ UNCHANGED circuit)
    BY <1>5 DEF TurnOnBistable
  <2> HIDE DEF t
  <2>3. /\ circuit' \in BOOLEAN /\ shown' \in BOOLEAN /\ busy' \in BOOLEAN /\ pulse' \in BOOLEAN
        /\ pulseAge' \in 0 .. LongAge
    BY <1>0, <1>1, <1>3, <1>5, <2>2 DEF NoPulse
  <2>4. durationAge' \in 0 .. LongAge /\ duration' \in Durations \cup {MinDuration}
    BY <1>1, <1>9, <2>1, <2>2
  <2>5. litAge' = litAge /\ switched' = switched /\ ~Counted
    BY <1>2, <1>5, <2>2, Zenon
  <2> QED
    BY <2>3, <2>4, <2>5, Zenon DEF SwitchTyped
<1>6. ASSUME TurnOffBistable, IsBistable, UNCHANGED shown PROVE SwitchTyped
  BY <1>0, <1>1, <1>2, <1>3, <1>6, RelayAssumption DEF TurnOffBistable, SwitchTyped, NoPulse
<1>7. ASSUME NEW e \in Durations, NEW s \in Durations, TurnOn(e, s)
      PROVE  SwitchTyped \/ (UNCHANGED switchVars /\ UNCHANGED shown)
  BY <1>4, <1>5, <1>7 DEF TurnOn, Bistable
<1>8. TurnOff => SwitchTyped \/ (UNCHANGED switchVars /\ UNCHANGED shown)
  BY <1>4, <1>6, RelayAssumption DEF TurnOff, Bistable
<1> QED
  BY <1>1, <1>7, <1>8, RelayAssumption DEF Toggle

\* A relay starts typed, with whatever state it was left in.
LEMMA RelayTypesStart == RelayInit => RelayTypes
<1> SUFFICES ASSUME RelayInit PROVE RelayTypes
  OBVIOUS
<1> USE RelayAssumption, LongAgeLemma
<1>1. /\ circuit \in BOOLEAN /\ shown \in BOOLEAN /\ keepDuration \in BOOLEAN
      /\ busy = FALSE /\ pulse = FALSE /\ expired = FALSE /\ crossed = FALSE
  BY Zenon DEF RelayInit
<1>2. /\ stateOnInit \in {"on", "off", "restore", "restored on", "restored off", "keep"}
      /\ storedDuration \in Durations /\ duration \in Durations
  BY DEF RelayInit
<1>3. /\ durationAge = 0 /\ pulseAge = 0 /\ readAge = 0 /\ litAge = 0 /\ counted = 0 /\ lit = 0
      /\ switched = 0 /\ late = 0 /\ relayKind \in RelayKinds /\ cause = "start"
      /\ saved = [duration |-> 0, on |-> FALSE]
  BY DEF RelayInit
<1>4. /\ 0 \in 0 .. LongAge /\ 0 \in 0 .. Second + MostLate /\ 0 \in 0 .. MostLit
      /\ 0 \in 0 .. MostSwitched + 1 /\ 0 \in 0 .. MostLate /\ 0 < Second + 0
  OBVIOUS
<1>5. saved \in [duration : Durations, on : BOOLEAN]
  BY <1>3
<1> QED
  BY <1>1, <1>2, <1>3, <1>4, <1>5 DEF RelayTypes, RelayTypeOK

\* What the types of a relay are made of, after a step.
LEMMA RelayPartsLemma ==
  ASSUME relayKind' \in RelayKinds,
         stateOnInit' \in {"on", "off", "restore", "restored on", "restored off", "keep"},
         circuit' \in BOOLEAN, shown' \in BOOLEAN, busy' \in BOOLEAN, pulse' \in BOOLEAN,
         expired' \in BOOLEAN, crossed' \in BOOLEAN, keepDuration' \in BOOLEAN,
         duration' \in Durations \cup {MinDuration}, storedDuration' \in Durations,
         durationAge' \in 0 .. LongAge, pulseAge' \in 0 .. LongAge, readAge' \in 0 .. LongAge,
         litAge' \in 0 .. Second + MostLate, counted' \in Nat,
         lit' \in 0 .. MostLit, switched' \in 0 .. MostSwitched + 1,
         late' \in 0 .. MostLate,
         saved' \in [duration : Durations, on : BOOLEAN],
         cause' \in {"start", "command", "expiry", "hand"},
         Counted' /\ circuit' => litAge' < Second + late',
         Counted' /\ expired' => switched' <= MostSwitched
  PROVE  RelayTypes'
BY DEF RelayTypes, RelayTypeOK

\* Every step of a relay keeps them, commands that come between the look and the switching
\* included.
LEMMA RelayTypesStep == ASSUME RelayTypes, [RelayNext]_relayVars PROVE RelayTypes'
<1>0. /\ circuit \in BOOLEAN /\ shown \in BOOLEAN /\ busy \in BOOLEAN /\ pulse \in BOOLEAN
      /\ expired \in BOOLEAN /\ keepDuration \in BOOLEAN
  BY Zenon DEF RelayTypes, RelayTypeOK
<1>1. /\ duration \in Durations \cup {MinDuration} /\ storedDuration \in Durations
      /\ durationAge \in 0 .. LongAge /\ pulseAge \in 0 .. LongAge /\ readAge \in 0 .. LongAge
      /\ litAge \in 0 .. Second + MostLate /\ counted \in Nat /\ lit \in 0 .. MostLit
      /\ switched \in 0 .. MostSwitched + 1 /\ late \in 0 .. MostLate
      /\ saved \in [duration : Durations, on : BOOLEAN]
  BY DEF RelayTypes, RelayTypeOK
<1>2. /\ 0 \in Durations /\ Second \in Nat \ {0} /\ MostLate \in Nat /\ MostLit \in Nat
      /\ MostSwitched \in Nat /\ 0 \in 0 .. LongAge /\ LongAge \in Nat
  BY RelayAssumption, LongAgeLemma
<1>3. relayKind \in RelayKinds
      /\ stateOnInit \in {"on", "off", "restore", "restored on", "restored off", "keep"}
      /\ cause \in {"start", "command", "expiry", "hand"}
      /\ (Counted /\ circuit => litAge < Second + late)
      /\ (Counted /\ expired => switched <= MostSwitched)
  BY DEF RelayTypes, RelayTypeOK
<1>14. crossed' \in BOOLEAN
  <2>1. (expired /\ ~circuit') \in BOOLEAN
    BY Zenon
  <2>2. crossed \in BOOLEAN
    BY Zenon DEF RelayTypes, RelayTypeOK
  <2>3. Crossing \/ crossed' = crossed \/ crossed' = FALSE
    <3>1. (\E d \in Durations : ServerTurnsOn(d)) \/ ServerTurnsOff \/ RelayHandleAction \/ SwitchedByHand
          => Crossing
      BY Zenon DEF ServerTurnsOn, ServerTurnsOff, RelayHandleAction, SwitchedByHand
    <3>2. TimePasses \/ ToggleExpired \/ SaveState => crossed' = crossed
      BY Zenon DEF TimePasses, ToggleExpired, SaveState
    <3>3. IterateAlways => crossed' = crossed \/ crossed' = FALSE
      BY Zenon DEF IterateAlways
    <3>4. Restart => crossed' = FALSE
      BY Zenon DEF Restart
    <3>5. UNCHANGED relayVars => crossed' = crossed
      BY Zenon DEF relayVars
    <3> QED
      BY <3>1, <3>2, <3>3, <3>4, <3>5, Zenon DEF RelayNext
  <2> QED
    BY <2>1, <2>2, <2>3, Zenon DEF Crossing
<1>4. ASSUME SwitchTyped \/ (UNCHANGED switchVars /\ UNCHANGED shown), MaySwitch, late' = late,
             UNCHANGED <<relayKind, stateOnInit, keepDuration, readAge, counted, lit, expired, saved>>,
             storedDuration' \in Durations, cause' = "command"
      PROVE  RelayTypes'
  <2>1. /\ circuit' \in BOOLEAN /\ shown' \in BOOLEAN /\ busy' \in BOOLEAN /\ pulse' \in BOOLEAN
        /\ duration' \in Durations \cup {MinDuration}
        /\ durationAge' \in 0 .. LongAge /\ pulseAge' \in 0 .. LongAge
        /\ litAge' = 0 \/ (litAge' = litAge /\ (circuit' = FALSE \/ ~Counted \/ circuit' = circuit))
        /\ switched' = switched \/ (Counted /\ switched' = switched + 1)
    BY <1>0, <1>1, <1>4 DEF SwitchTyped, switchVars
  <2>2. Counted' = Counted
    BY <1>4 DEF Counted
  <2>3. switched' \in 0 .. MostSwitched + 1 /\ (Counted /\ expired => switched' <= MostSwitched)
    <3>1. switched < MostSwitched => switched + 1 \in 0 .. MostSwitched + 1 /\ switched + 1 <= MostSwitched
      BY <1>1, <1>2
    <3>2. Counted => switched < MostSwitched
      BY <1>4, Zenon DEF MaySwitch
    <3> QED
      BY <1>1, <1>3, <2>1, <3>1, <3>2, Zenon
  <2>4. litAge' \in 0 .. Second + MostLate /\ (Counted /\ circuit' => litAge' < Second + late)
    <3>1. 0 \in 0 .. Second + MostLate /\ 0 < Second + late
      BY <1>1, <1>2
    <3>2. CASE litAge' = 0
      BY <3>1, <3>2, Zenon
    <3>3. CASE litAge' = litAge /\ (circuit' = FALSE \/ ~Counted \/ circuit' = circuit)
      <4>1. CASE circuit' = FALSE
        BY <1>1, <3>3, <4>1
      <4>2. CASE ~Counted
        BY <1>1, <3>3, <4>2, Zenon
      <4>3. CASE circuit' = circuit
        <5>1. Counted /\ circuit' => Counted /\ circuit
          BY <4>3, Zenon
        <5> QED
          BY <1>1, <1>3, <3>3, <5>1, Zenon
      <4> QED
        BY <3>3, <4>1, <4>2, <4>3, Zenon
    <3> QED
      BY <2>1, <3>2, <3>3, Zenon
  <2>5. /\ relayKind' \in RelayKinds /\ readAge' \in 0 .. LongAge /\ counted' \in Nat
        /\ stateOnInit' \in {"on", "off", "restore", "restored on", "restored off", "keep"}
        /\ expired' \in BOOLEAN /\ keepDuration' \in BOOLEAN /\ lit' \in 0 .. MostLit
        /\ late' \in 0 .. MostLate /\ saved' \in [duration : Durations, on : BOOLEAN]
        /\ cause' \in {"start", "command", "expiry", "hand"} /\ storedDuration' \in Durations
    BY <1>0, <1>1, <1>3, <1>4, Zenon
  <2>6. Counted' /\ circuit' => litAge' < Second + late'
    BY <1>4, <2>2, <2>4, Zenon
  <2>7. Counted' /\ expired' => switched' <= MostSwitched
    BY <1>4, <2>2, <2>3, Zenon
  <2> QED
    BY <2>1, <2>3, <2>4, <2>5, <2>6, <2>7, <1>14, RelayPartsLemma, Zenon
<1>5. ASSUME NEW d \in Durations, ServerTurnsOn(d) PROVE RelayTypes'
  <2>1. storedDuration' \in Durations
    BY <1>1, <1>5 DEF ServerTurnsOn
  <2>2. TurnOn(d, storedDuration')
    BY <1>5 DEF ServerTurnsOn
  <2>3. SwitchTyped \/ (UNCHANGED switchVars /\ UNCHANGED shown)
    BY <2>1, <2>2, CommandTypes
  <2> QED
    BY <1>4, <1>5, <2>1, <2>3 DEF ServerTurnsOn
<1>6. CASE ServerTurnsOff \/ RelayHandleAction
  <2>1. /\ TurnOn(0, storedDuration) \/ TurnOff \/ Toggle
        /\ MaySwitch /\ cause' = "command"
        /\ UNCHANGED <<relayKind, stateOnInit, keepDuration, storedDuration, readAge, counted, lit,
                       late, expired, saved>>
    BY <1>6 DEF ServerTurnsOff, RelayHandleAction
  <2>2. SwitchTyped \/ (UNCHANGED switchVars /\ UNCHANGED shown)
    BY <1>1, <1>2, <2>1, CommandTypes
  <2> QED
    BY <1>1, <1>4, <2>1, <2>2
<1>7. CASE SwitchedByHand
  <2>1. /\ IsBistable /\ circuit' = ~circuit /\ cause' = "hand"
        /\ UNCHANGED <<relayKind, stateOnInit, keepDuration, shown, duration, durationAge, busy,
                       pulse, pulseAge, litAge, switched, storedDuration, readAge, counted, lit,
                       late, expired, saved>>
    BY <1>7, Zenon DEF SwitchedByHand
  <2>2. ~Counted'
    BY <2>1 DEF IsBistable, Counted
  <2>3. /\ circuit' \in BOOLEAN /\ shown' \in BOOLEAN /\ busy' \in BOOLEAN /\ pulse' \in BOOLEAN
        /\ expired' \in BOOLEAN /\ keepDuration' \in BOOLEAN
    BY <1>0, <2>1, Zenon
  <2>4. /\ duration' \in Durations \cup {MinDuration} /\ storedDuration' \in Durations
        /\ durationAge' \in 0 .. LongAge /\ pulseAge' \in 0 .. LongAge
        /\ readAge' \in 0 .. LongAge /\ litAge' \in 0 .. Second + MostLate /\ counted' \in Nat
        /\ lit' \in 0 .. MostLit /\ switched' \in 0 .. MostSwitched + 1
        /\ late' \in 0 .. MostLate /\ saved' \in [duration : Durations, on : BOOLEAN]
    BY <1>1, <2>1, Zenon
  <2>5. /\ relayKind' \in RelayKinds /\ cause' \in {"start", "command", "expiry", "hand"}
        /\ stateOnInit' \in {"on", "off", "restore", "restored on", "restored off", "keep"}
    BY <1>3, <2>1, Zenon
  <2> QED
    BY <1>14, <2>2, <2>3, <2>4, <2>5, RelayPartsLemma, Zenon
<1>8. CASE TimePasses
  <2>1. /\ late' = late + 1 /\ late < MostLate /\ (Counted => lit < MostLit) /\ ~expired
        /\ durationAge' \in 0 .. LongAge /\ pulseAge' \in 0 .. LongAge /\ readAge' \in 0 .. LongAge
        /\ UNCHANGED <<relayKind, stateOnInit, keepDuration, circuit, shown, duration, busy, pulse,
                       switched, storedDuration, counted, expired, saved, cause>>
    BY <1>1, <1>8, LongAgeLemma DEF TimePasses
  <2>2. Counted' = Counted
    BY <2>1 DEF Counted
  <2>3. \/ (Counted /\ circuit) /\ litAge' = litAge + 1 /\ lit' = lit + 1
        \/ ~(Counted /\ circuit) /\ litAge' = litAge /\ lit' = lit
    BY <1>8, Zenon DEF TimePasses
  <2>4. litAge' \in 0 .. Second + MostLate /\ lit' \in 0 .. MostLit
        /\ (Counted /\ circuit => litAge' < Second + late')
    <3>1. litAge < Second + late /\ lit < MostLit =>
            /\ litAge + 1 \in 0 .. Second + MostLate /\ lit + 1 \in 0 .. MostLit
            /\ litAge + 1 < Second + (late + 1)
      BY <1>1, <1>2, <2>1
    <3> QED
      BY <1>1, <1>3, <2>1, <2>3, <3>1, Zenon
  <2>5. late' \in 0 .. MostLate
    BY <1>1, <1>2, <2>1
  <2>6. Counted' /\ expired' => switched' <= MostSwitched
    BY <1>3, <2>1, <2>2, Zenon
  <2>7. Counted' /\ circuit' => litAge' < Second + late'
    BY <2>1, <2>2, <2>4, Zenon
  <2>8. /\ relayKind' \in RelayKinds
        /\ stateOnInit' \in {"on", "off", "restore", "restored on", "restored off", "keep"}
        /\ circuit' \in BOOLEAN /\ shown' \in BOOLEAN /\ busy' \in BOOLEAN /\ pulse' \in BOOLEAN
        /\ expired' \in BOOLEAN /\ keepDuration' \in BOOLEAN
        /\ duration' \in Durations \cup {MinDuration} /\ storedDuration' \in Durations
        /\ counted' \in Nat /\ switched' \in 0 .. MostSwitched + 1
        /\ saved' \in [duration : Durations, on : BOOLEAN]
        /\ cause' \in {"start", "command", "expiry", "hand"}
    BY <1>0, <1>1, <1>3, <2>1, ZenonT(30)
  <2> QED
    BY <1>14, <2>1, <2>4, <2>5, <2>6, <2>7, <2>8, RelayPartsLemma, Zenon
<1>9. CASE IterateAlways
  <2>1. /\ UNCHANGED <<relayKind, stateOnInit, keepDuration, circuit, duration, durationAge, pulseAge,
                       switched, storedDuration, lit, saved, cause>>
        /\ CountSeconds /\ (DurationElapsed => MaySwitch)
        /\ \/ /\ DurationElapsed /\ expired' = TRUE
              /\ UNCHANGED <<shown, readAge, busy, pulse, late>>
           \/ expired' = FALSE /\ ReadStatus(circuit) /\ EndOfPulse /\ late' = 0
    BY <1>9, Zenon DEF IterateAlways
  <2>2. Counted' = Counted
    BY <2>1 DEF Counted
  <2>3. counted' \in Nat /\ litAge' \in 0 .. Second + MostLate
        /\ (Counted /\ circuit => litAge' < Second)
    <3>1. CASE Counted /\ circuit /\ litAge >= Second
      <4>1. litAge \div Second \in Nat /\ litAge % Second \in 0 .. Second - 1
        BY <1>1, <1>2
      <4>2. counted' = counted + litAge \div Second /\ litAge' = litAge % Second
        BY <2>1, <3>1 DEF CountSeconds
      <4> QED
        BY <1>1, <1>2, <4>1, <4>2
    <3>2. CASE ~(Counted /\ circuit /\ litAge >= Second)
      <4>1. counted' = counted /\ litAge' = litAge
        BY <2>1, <3>2, Zenon DEF CountSeconds
      <4> QED
        BY <1>1, <1>2, <3>2, <4>1
    <3> QED
      BY <3>1, <3>2
  <2>4. late' \in 0 .. MostLate
    BY <1>1, <1>2, <2>1
  <2>5. shown' \in BOOLEAN /\ readAge' \in 0 .. LongAge /\ busy' \in BOOLEAN /\ pulse' \in BOOLEAN
        /\ expired' \in BOOLEAN
    BY <1>0, <1>1, <1>2, <2>1 DEF ReadStatus, EndOfPulse
  <2>6. Counted /\ expired' => switched <= MostSwitched
    BY <1>1, <1>2, <2>1 DEF MaySwitch
  <2>7. Counted /\ circuit => litAge' < Second + late'
    <3>1. litAge' < Second => litAge' < Second + late'
      <4>1. litAge' \in 0 .. Second + MostLate
        BY <2>3, Zenon
      <4>2. \A x \in Nat, y \in Nat : x < Second => x < Second + y
        BY <1>2
      <4>3. litAge' \in Nat /\ late' \in Nat
        BY <2>4, <4>1
      <4> QED
        BY <4>2, <4>3, Zenon
    <3> QED
      BY <2>3, <3>1, Zenon
  <2> QED
    <3>1. /\ relayKind' \in RelayKinds /\ keepDuration' \in BOOLEAN /\ circuit' \in BOOLEAN
          /\ stateOnInit' \in {"on", "off", "restore", "restored on", "restored off", "keep"}
          /\ cause' \in {"start", "command", "expiry", "hand"}
          /\ saved' \in [duration : Durations, on : BOOLEAN]
          /\ duration' \in Durations \cup {MinDuration} /\ storedDuration' \in Durations
          /\ durationAge' \in 0 .. LongAge /\ pulseAge' \in 0 .. LongAge
          /\ lit' \in 0 .. MostLit /\ switched' \in 0 .. MostSwitched + 1
      BY <1>0, <1>1, <1>3, <2>1
    <3>2. /\ (Counted' /\ circuit' => litAge' < Second + late')
          /\ (Counted' /\ expired' => switched' <= MostSwitched)
      <4>1. circuit' = circuit /\ switched' = switched
        BY <2>1
      <4> QED
        BY <2>2, <2>6, <2>7, <4>1, Zenon
    <3> QED
      BY <2>3, <2>4, <2>5, <3>1, <3>2, <1>14, RelayPartsLemma, Zenon
<1>10. CASE ToggleExpired
  <2>1. /\ expired /\ expired' = FALSE /\ late' = 0 /\ cause' = "expiry"
        /\ UNCHANGED <<relayKind, stateOnInit, keepDuration, storedDuration, counted, lit, saved>>
    BY <1>10 DEF ToggleExpired
  <2>2. Counted' = Counted /\ (IsBistable => ~Counted)
    BY <2>1 DEF Counted, IsBistable
  <2>3. CASE ~IsBistable
    <3>1. Toggle /\ UNCHANGED readAge
      BY <1>10, <2>3 DEF ToggleExpired
    <3>2. SwitchTo(FALSE, 0) \/ (~circuit /\ \E d \in Durations : SwitchTo(TRUE, d))
      <4>1. CASE circuit
        BY <2>3, <3>1, <4>1 DEF Toggle, TurnOff, IsOn, IsBistable
      <4>2. CASE ~circuit
        BY <1>1, <1>2, <2>3, <3>1, <4>2 DEF Toggle, TurnOn, IsOn, IsBistable
      <4> QED
        BY <4>1, <4>2
    <3>3. /\ circuit' \in BOOLEAN /\ shown' \in BOOLEAN /\ UNCHANGED <<busy, pulse, pulseAge>>
          /\ duration' \in Durations /\ durationAge' = 0
          /\ litAge' = 0 \/ (litAge' = litAge /\ circuit' = FALSE)
          /\ switched' = IF Counted THEN switched + 1 ELSE switched
      BY <1>2, <3>2 DEF SwitchTo, NoPulse, CountSwitch
    <3>4. switched' \in 0 .. MostSwitched + 1
      <4>1. switched <= MostSwitched => switched + 1 \in 0 .. MostSwitched + 1
        BY <1>1, <1>2
      <4>2. Counted => switched <= MostSwitched
        BY <1>3, <2>1, Zenon
      <4> QED
        BY <1>1, <3>3, <4>1, <4>2, Zenon
    <3>5. litAge' \in 0 .. Second + MostLate /\ (Counted /\ circuit' => litAge' < Second + late')
      BY <1>1, <1>2, <2>1, <3>3
    <3> QED
      <4>1. /\ relayKind' \in RelayKinds /\ keepDuration' \in BOOLEAN
            /\ stateOnInit' \in {"on", "off", "restore", "restored on", "restored off", "keep"}
            /\ cause' \in {"start", "command", "expiry", "hand"}
            /\ saved' \in [duration : Durations, on : BOOLEAN]
            /\ duration' \in Durations \cup {MinDuration} /\ storedDuration' \in Durations
            /\ durationAge' \in 0 .. LongAge /\ pulseAge' \in 0 .. LongAge
            /\ readAge' \in 0 .. LongAge /\ lit' \in 0 .. MostLit /\ counted' \in Nat
            /\ late' \in 0 .. MostLate
            /\ busy' \in BOOLEAN /\ pulse' \in BOOLEAN /\ expired' = FALSE
        <5>1. 0 \in 0 .. MostLate
          BY <1>2
        <5>2. /\ relayKind' = relayKind /\ keepDuration' = keepDuration /\ stateOnInit' = stateOnInit
              /\ saved' = saved /\ storedDuration' = storedDuration /\ lit' = lit
              /\ counted' = counted /\ readAge' = readAge
          BY <2>1, <3>1
        <5>3. busy' = busy /\ pulse' = pulse /\ pulseAge' = pulseAge
          BY <3>3
        <5> QED
          BY <1>0, <1>1, <1>2, <1>3, <2>1, <3>3, <5>1, <5>2, <5>3, Zenon
      <4>2. (Counted' /\ expired' => switched' <= MostSwitched) /\ expired' \in BOOLEAN
        BY <4>1
      <4>3. Counted' /\ circuit' => litAge' < Second + late'
        BY <2>2, <3>5, Zenon
      <4> QED
        BY <3>3, <3>4, <3>5, <4>1, <4>2, <4>3, <1>14, RelayPartsLemma, Zenon
  <2>4. CASE IsBistable
    <3>1. /\ ReadStatus(circuit')
          /\ IF busy
               THEN EndOfPulse /\ UNCHANGED <<circuit, duration, durationAge, pulseAge, litAge, switched>>
               ELSE IF IsOn \/ relayKind = "blind" THEN TurnOffBistable
                    ELSE TurnOnBistable(IF keepDuration THEN storedDuration ELSE 0)
      BY <1>10, <2>4 DEF ToggleExpired
    <3>2. /\ circuit' \in BOOLEAN /\ busy' \in BOOLEAN /\ pulse' \in BOOLEAN
          /\ duration' \in Durations \cup {MinDuration}
          /\ durationAge' \in 0 .. LongAge /\ pulseAge' \in 0 .. LongAge
          /\ litAge' = litAge /\ switched' = switched
      <4>1. InternalToggle => /\ circuit' \in BOOLEAN /\ busy' \in BOOLEAN /\ pulse' \in BOOLEAN
                               /\ pulseAge' \in 0 .. LongAge
        BY <1>0, <1>2 DEF InternalToggle
      <4>2. CASE busy
        BY <1>0, <1>1, <3>1, <4>2 DEF EndOfPulse
      <4>3. ASSUME ~busy, TurnOffBistable PROVE <3>2!:
        BY <1>0, <1>1, <1>2, <4>1, <4>3 DEF TurnOffBistable, NoPulse
      <4>4. ASSUME NEW e \in Durations, TurnOnBistable(e) PROVE <3>2!:
        <5> DEFINE t == IF e > 0 /\ e < MinDuration THEN MinDuration ELSE e
        <5>1. t \in Durations \cup {MinDuration}
          OBVIOUS
        <5>2. /\ duration' = t /\ UNCHANGED <<litAge, switched>>
              /\ durationAge' = IF t > 0 THEN 0 ELSE durationAge
              /\ InternalToggle \/ (NoPulse /\ UNCHANGED circuit)
          BY <4>4 DEF TurnOnBistable
        <5> HIDE DEF t
        <5> QED
          BY <1>0, <1>1, <1>2, <4>1, <5>1, <5>2 DEF NoPulse
      <4> QED
        BY <1>1, <1>2, <3>1, <4>2, <4>3, <4>4
    <3>3. shown' \in BOOLEAN /\ readAge' \in 0 .. LongAge
      BY <1>0, <1>1, <1>2, <3>1, <3>2 DEF ReadStatus
    <3> QED
      <4>1. /\ relayKind' \in RelayKinds /\ keepDuration' \in BOOLEAN
            /\ stateOnInit' \in {"on", "off", "restore", "restored on", "restored off", "keep"}
            /\ cause' \in {"start", "command", "expiry", "hand"}
            /\ saved' \in [duration : Durations, on : BOOLEAN]
            /\ storedDuration' \in Durations
            /\ lit' \in 0 .. MostLit /\ counted' \in Nat /\ late' \in 0 .. MostLate
            /\ litAge' \in 0 .. Second + MostLate /\ switched' \in 0 .. MostSwitched + 1
            /\ expired' = FALSE
        <5>1. 0 \in 0 .. MostLate
          BY <1>2
        <5>2. /\ relayKind' = relayKind /\ keepDuration' = keepDuration /\ stateOnInit' = stateOnInit
              /\ saved' = saved /\ storedDuration' = storedDuration /\ lit' = lit
              /\ counted' = counted
          BY <2>1
        <5> QED
          BY <1>0, <1>1, <1>3, <2>1, <3>2, <5>1, <5>2, Zenon
      <4>2. (Counted' /\ expired' => switched' <= MostSwitched) /\ expired' \in BOOLEAN
        BY <4>1
      <4>3. Counted' /\ circuit' => litAge' < Second + late'
        BY <2>2, <2>4, Zenon
      <4> QED
        BY <3>2, <3>3, <4>1, <4>2, <4>3, <1>14, RelayPartsLemma, Zenon
  <2> QED
    BY <2>3, <2>4
<1>11. CASE SaveState
  <2>1. saved' \in [duration : Durations, on : BOOLEAN]
    <3>1. (stateOnInit \in {"restored on", "restored off"} /\ IsOn) \in BOOLEAN
      BY Zenon
    <3> QED
      BY <1>1, <1>11, <3>1 DEF SaveState
  <2> QED
    BY <1>14, <1>0, <1>1, <1>3, <1>11, <2>1 DEF SaveState, switchVars, RelayTypes, RelayTypeOK, Counted
<1>12. CASE Restart
  <2>1. /\ UNCHANGED <<relayKind, keepDuration, expired, saved>> /\ ~expired
        /\ durationAge' = 0 /\ busy' = FALSE /\ pulse' = FALSE /\ pulseAge' = 0 /\ readAge' = 0
        /\ litAge' = 0 /\ counted' = 0 /\ lit' = 0 /\ switched' = 0 /\ late' = 0 /\ cause' = "start"
    BY <1>12 DEF Restart
  <2>2. saved.duration \in Durations
    BY <1>1
  <2>3. storedDuration' \in Durations
    BY <1>1, <1>2, <1>12, <2>2 DEF Restart
  <2>4. duration' \in Durations
    BY <1>2, <1>12, <2>3 DEF Restart
  <2>5. stateOnInit' \in {"on", "off", "restore", "restored on", "restored off", "keep"}
    BY <1>3, <1>12 DEF Restart
  <2>6. circuit' \in BOOLEAN /\ shown' \in BOOLEAN
    <3>1. (stateOnInit' \in {"on", "restored on"}) \in BOOLEAN
      OBVIOUS
    <3>2. circuit' = IF IsBistable THEN circuit ELSE stateOnInit' \in {"on", "restored on"}
      BY <1>12, Zenon DEF Restart
    <3>3. shown' = (circuit' /\ relayKind # "blind")
      BY <1>12, Zenon DEF Restart
    <3>4. circuit' \in BOOLEAN
      BY <1>0, <3>1, <3>2, Zenon
    <3>5. CASE relayKind = "blind"
      BY <3>3, <3>4, <3>5
    <3>6. CASE relayKind # "blind"
      BY <3>3, <3>4, <3>6
    <3> QED
      BY <3>5, <3>6
  <2>7. 0 \in 0 .. Second + MostLate /\ 0 \in 0 .. MostLit /\ 0 \in 0 .. MostSwitched + 1
        /\ 0 \in 0 .. MostLate /\ 0 < Second + 0
    BY <1>2
  <2> QED
    BY <1>14, <1>0, <1>1, <1>2, <1>3, <2>1, <2>3, <2>4, <2>5, <2>6, <2>7 DEF RelayTypes, RelayTypeOK
<1>13. CASE UNCHANGED relayVars
  BY <1>14, <1>13 DEF relayVars, switchVars, RelayTypes, RelayTypeOK, Counted
<1> QED
  BY <1>5, <1>6, <1>7, <1>8, <1>9, <1>10, <1>11, <1>12, <1>13 DEF RelayNext

\* A sum that is held within its limits.
LEMMA LimitLemma ==
  \A limit \in Nat : \A level \in 0 .. limit, addition \in Int :
    AddWithLimit(level, addition, limit) \in 0 .. limit
BY DEF AddWithLimit

\* The colours go from zero to the largest of them.
LEMMA HuesLemma ==
  /\ MostHue \in Hues /\ MostHue \in Nat
  /\ \A hue \in Hues : hue \in 0 .. MostHue
  /\ 0 .. MostHue \subseteq Hues
<1>1. \E most \in Hues : \A hue \in Hues : hue <= most
  BY RgbwAssumption
<1>2. MostHue \in Hues /\ \A hue \in Hues : hue <= MostHue
  BY <1>1 DEF MostHue
<1> QED
  BY <1>2, RgbwAssumption

\* What the levels and the configured value are made of.
LEMMA RgbwNumbers ==
  /\ Brightest \in Nat \ {0} /\ ButtonStep \in 1 .. Brightest /\ MinIteration \in 1 .. Brightest
  /\ Dimmed \in 1 .. Brightest /\ ServerLevels \subseteq Levels /\ 0 \in Hues /\ 0 \in Levels
  /\ Brightest \in Levels /\ IterationDelay \in Nat \ {0} /\ ReportDelay \in Nat /\ Keep = -1
BY RgbwAssumption DEF Levels, Keep

\* A command leaves a brightness and a colour.
LEMMA SetTypes ==
  ASSUME RgbwTypeOK, NEW h \in Hues \cup {Keep}, NEW c \in Levels \cup {Keep},
         NEW w \in Levels \cup {Keep}, NEW toggle \in BOOLEAN, SetRGBW(h, c, w, toggle)
  PROVE  /\ cur' \in Values /\ last' \in Lasts /\ copied' \in BOOLEAN
         /\ msgAge' \in {NoMsg} \cup 0 .. ReportDelay + 1
         /\ UNCHANGED <<rgbwKind, reported>>
<1>1. cur \in Values /\ last \in Lasts /\ copied \in BOOLEAN
  BY DEF RgbwTypeOK
<1>2. /\ cur.hue \in Hues /\ cur.color \in Levels /\ cur.white \in Levels
      /\ last.color \in 1 .. Brightest /\ last.white \in 1 .. Brightest
  BY <1>1 DEF Values, Lasts
<1> DEFINE args == Arguments(h, c, w)
<1>3. args[1] \in Hues \cup {Keep} /\ args[2] \in Levels \cup {Keep} /\ args[3] \in Levels \cup {Keep}
  <2>1. rgbwKind \in {"rgbw", "rgb", "dimmer"}
    BY RgbwAssumption DEF RgbwTypeOK
  <2> QED
    BY <2>1, RgbwNumbers DEF Arguments
<1> HIDE DEF args
<1>4. ASSUME NEW arg \in Levels \cup {Keep}, NEW level \in Levels, NEW before \in 1 .. Brightest
      PROVE  Level(arg, level, before, toggle) \in Levels \cup {Keep}
  BY <1>4, RgbwNumbers DEF Level, Levels
<1>5. ASSUME NEW arg, NEW level \in Levels \cup {Keep}, NEW before \in 1 .. Brightest
      PROVE  Remember(before, arg, level) \in 1 .. Brightest
  BY <1>5, RgbwNumbers DEF Remember, Levels
<1>6. ASSUME NEW S, NEW old \in S, NEW arg \in S \cup {Keep} PROVE NewValue(old, arg) \in S
  BY <1>6 DEF NewValue
<1> DEFINE color == Level(args[2], cur.color, last.color, toggle)
           white == Level(args[3], cur.white, last.white, toggle)
<1>7. color \in Levels \cup {Keep} /\ white \in Levels \cup {Keep}
  BY <1>2, <1>3, <1>4
<1>8. /\ msgAge' = IF toggle THEN ReportDelay + 1 ELSE 0
      /\ last' = [color |-> Remember(last.color, args[2], color),
                  white |-> Remember(last.white, args[3], white)]
      /\ cur' = [hue |-> NewValue(cur.hue, args[1]), color |-> NewValue(cur.color, color),
                 white |-> NewValue(cur.white, white)]
      /\ copied' = (copied /\ args[3] = Keep)
      /\ UNCHANGED <<rgbwKind, reported>>
  BY DEF SetRGBW, args
<1> HIDE DEF color, white
<1>9. Remember(last.color, args[2], color) \in 1 .. Brightest
      /\ Remember(last.white, args[3], white) \in 1 .. Brightest
  BY <1>2, <1>5, <1>7
<1>10. last' \in Lasts
  BY <1>8, <1>9 DEF Lasts
<1>11. NewValue(cur.hue, args[1]) \in Hues /\ NewValue(cur.color, color) \in Levels
       /\ NewValue(cur.white, white) \in Levels
  BY <1>2, <1>3, <1>6, <1>7
<1>12. cur' \in Values
  BY <1>8, <1>11 DEF Values
<1>13. msgAge' \in {NoMsg} \cup 0 .. ReportDelay + 1
  BY <1>8, RgbwNumbers
<1>14. copied' \in BOOLEAN
  BY <1>8
<1> QED
  BY <1>8, <1>10, <1>12, <1>13, <1>14

\* What a light keeps has its type.
LEMMA RgbwTypesStart == RgbwInit => RgbwTypeOK
<1> SUFFICES ASSUME RgbwInit PROVE RgbwTypeOK
  OBVIOUS
<1>1. PICK level \in {0, Brightest} :
       cur = [hue |-> 0,
              color |-> IF rgbwKind = "dimmer" THEN 0 ELSE level,
              white |-> IF rgbwKind = "rgb" THEN 0 ELSE level]
  BY DEF RgbwInit
<1>2. cur \in Values
  BY <1>1, RgbwNumbers DEF Values
<1>3. last \in Lasts /\ reported \in Values
  BY RgbwNumbers DEF RgbwInit, Values, Lasts
<1>4. delayCounter \in 0 .. IterationDelay - 1 /\ msgAge \in {NoMsg} \cup 0 .. ReportDelay + 1
  BY RgbwNumbers DEF RgbwInit
<1> QED
  BY <1>2, <1>3, <1>4 DEF RgbwInit, RgbwTypeOK

\* And keeps it through every command, button and recovery.
LEMMA RgbwTypesStep == ASSUME RgbwTypeOK, [RgbwNext]_rgbwVars PROVE RgbwTypeOK'
<1>1. /\ rgbwKind \in RgbwKinds /\ cur \in Values /\ last \in Lasts
      /\ dimming \in BOOLEAN /\ delayCounter \in 0 .. IterationDelay - 1
      /\ msgAge \in {NoMsg} \cup 0 .. ReportDelay + 1
      /\ reported \in Values /\ copied \in BOOLEAN
  BY DEF RgbwTypeOK
<1>2. /\ cur.hue \in Hues /\ cur.color \in Levels /\ cur.white \in Levels
      /\ last.color \in 1 .. Brightest /\ last.white \in 1 .. Brightest
      /\ last.color \in Levels /\ last.white \in Levels
  BY <1>1, RgbwNumbers DEF Values, Lasts, Levels
<1>3. ASSUME NEW h \in Hues \cup {Keep}, NEW c \in Levels \cup {Keep}, NEW w \in Levels \cup {Keep},
             NEW toggle \in BOOLEAN, SetRGBW(h, c, w, toggle), dimming' \in BOOLEAN,
             delayCounter' \in 0 .. IterationDelay - 1
      PROVE  RgbwTypeOK'
  BY <1>1, <1>3, SetTypes DEF RgbwTypeOK
<1>4. ASSUME NEW h \in Hues \cup {Keep}, NEW c \in Levels \cup {Keep}, NEW w \in Levels \cup {Keep},
             RgbwCommand(h, c, w)
      PROVE  RgbwTypeOK'
  BY <1>1, <1>3, <1>4 DEF RgbwCommand
<1>5. ASSUME NEW h \in Hues, NEW c \in ServerLevels, NEW w \in ServerLevels, NEW toggle \in BOOLEAN,
             RgbwFromServer(h, c, w, toggle)
      PROVE  RgbwTypeOK'
  BY <1>1, <1>3, <1>5, RgbwNumbers DEF RgbwFromServer
<1>6. Keep \in Levels \cup {Keep} /\ Keep \in Hues \cup {Keep} /\ 0 \in Levels /\ Dimmed \in Levels
  BY RgbwNumbers DEF Levels
<1>7. CASE TurnOnRgbw \/ TurnOffRgbw \/ TurnOnDimmed
  BY <1>2, <1>4, <1>6, <1>7 DEF TurnOnRgbw, TurnOffRgbw, TurnOnDimmed
<1>8. CASE ToggleRgbw
  <2>1. Toggled(cur.color, last.color) \in Levels /\ Toggled(cur.white, last.white) \in Levels
    BY <1>2, <1>6 DEF Toggled
  <2> QED
    BY <1>4, <1>6, <1>8, <2>1 DEF ToggleRgbw
<1>9. CASE BrightenOrDim
  <2>1. PICK step \in {ButtonStep, -ButtonStep} :
          \/ RgbwCommand(Keep, Shifted(step).color, Shifted(step).white)
          \/ RgbwCommand(Shifted(step).hue, Keep, Keep)
          \/ RgbwCommand(Keep, Shifted(step).color, Keep)
          \/ RgbwCommand(Keep, Keep, Shifted(step).white)
    BY <1>9 DEF BrightenOrDim
  <2>2. step \in Int
    BY RgbwNumbers
  <2>3. /\ Shifted(step).hue = AddWithLimit(cur.hue, step, MostHue)
        /\ Shifted(step).color = AddWithLimit(cur.color, step, Brightest)
        /\ Shifted(step).white = AddWithLimit(cur.white, step, Brightest)
    BY DEF Shifted
  <2>4. Shifted(step).hue \in Hues
    BY <1>2, <2>2, <2>3, HuesLemma, LimitLemma
  <2>5. Shifted(step).color \in Levels /\ Shifted(step).white \in Levels
    BY <1>2, <2>2, <2>3, RgbwNumbers, LimitLemma DEF Levels
  <2> QED
    BY <1>4, <1>6, <2>1, <2>4, <2>5
<1>10. ASSUME NEW colorStep \in {0, ButtonStep}, NEW whiteStep \in {0, ButtonStep},
              IterateDim(colorStep, whiteStep)
       PROVE  RgbwTypeOK'
  <2> DEFINE white0 == IF colorStep > 0 /\ whiteStep > 0 THEN cur.color ELSE cur.white
             level == IF colorStep > 0 THEN cur.color ELSE white0
  <2>1. white0 \in Levels
    BY <1>2
  <2>2. \/ delayCounter + 1 < IterationDelay /\ Rests(white0)
        \/ IterateWith(AtEnd(level), colorStep, whiteStep, white0)
    BY <1>10 DEF IterateDim
  <2> HIDE DEF white0, level
  <2>3. CASE delayCounter + 1 < IterationDelay /\ Rests(white0)
    <3>1. delayCounter' \in 0 .. IterationDelay - 1
      BY <1>1, <2>3, RgbwNumbers DEF Rests
    <3>2. cur' \in Values
      BY <1>1, <2>1, <2>3 DEF Rests, Values
    <3>3. copied' \in BOOLEAN
      BY <2>3 DEF Rests
    <3> QED
      BY <1>1, <2>3, <3>1, <3>2, <3>3 DEF Rests, RgbwTypeOK
  <2>4. CASE IterateWith(AtEnd(level), colorStep, whiteStep, white0)
    <3>1. ASSUME NEW from \in Levels, NEW by \in {0, ButtonStep}, NEW step \in {by, -by}
          PROVE  AddWithLimit(from, StepFor(from, step), Brightest) \in Levels
      <4>1. step \in Int /\ from \in Int /\ MinIteration \in Int /\ Brightest \in Nat
        BY <3>1, RgbwNumbers DEF Levels
      <4>2. StepFor(from, step) \in Int
        BY <4>1 DEF StepFor
      <4> QED
        BY <4>1, <4>2, LimitLemma DEF Levels
    <3>2. PICK color \in Levels, white \in Levels : SetRGBW(Keep, color, white, FALSE)
      <4> DEFINE down == dimming # AtEnd(level)
                 c == IF down THEN -colorStep ELSE colorStep
                 w == IF down THEN -whiteStep ELSE whiteStep
      <4>1. c \in {colorStep, -colorStep} /\ w \in {whiteStep, -whiteStep}
        OBVIOUS
      <4>2. SetRGBW(Keep, AddWithLimit(cur.color, StepFor(cur.color, c), Brightest),
                    AddWithLimit(white0, StepFor(white0, w), Brightest), FALSE)
        BY <2>4 DEF IterateWith
      <4> HIDE DEF c, w
      <4>3. /\ AddWithLimit(cur.color, StepFor(cur.color, c), Brightest) \in Levels
            /\ AddWithLimit(white0, StepFor(white0, w), Brightest) \in Levels
        BY <1>2, <2>1, <3>1, <4>1
      <4> QED
        BY <4>2, <4>3
    <3>3. dimming' \in BOOLEAN /\ delayCounter' = 0
      BY <2>4 DEF IterateWith
    <3>4. 0 \in 0 .. IterationDelay - 1
      BY RgbwNumbers
    <3>5. PICK no \in BOOLEAN : no = FALSE
      OBVIOUS
    <3> QED
      BY <1>3, <1>6, <3>2, <3>3, <3>4, <3>5
  <2> QED
    BY <2>2, <2>3, <2>4
<1>11. CASE RgbwIterate
  BY <1>10, <1>11 DEF RgbwIterate
<1>12. CASE RgbwTime
  <2>1. msgAge' \in 0 .. ReportDelay + 1
    BY <1>12, RgbwNumbers DEF RgbwTime
  <2> QED
    BY <1>1, <1>12, <2>1 DEF RgbwTime, RgbwTypeOK
<1>13. CASE Report
  BY <1>1, <1>13 DEF Report, RgbwTypeOK
<1>14. CASE RestartRgbw
  <2>1. SavedColor \in Levels /\ SavedWhite \in Levels
    BY <1>2, <1>6 DEF SavedColor, SavedWhite
  <2>2. cur' \in Values
    BY <1>2, <1>14, <2>1, RgbwNumbers DEF RestartRgbw, Values
  <2>3. Remember(last.color, SavedColor, SavedColor) \in 1 .. Brightest
        /\ Remember(last.white, SavedWhite, SavedWhite) \in 1 .. Brightest
    BY <1>2, <2>1, RgbwNumbers DEF Remember, Levels
  <2>4. last' \in Lasts
    BY <1>14, <2>3, RgbwNumbers DEF RestartRgbw, Lasts
  <2>5. reported' \in Values
    BY <1>14, RgbwNumbers DEF RestartRgbw, Values
  <2>6. 0 \in 0 .. IterationDelay - 1 /\ 0 \in 0 .. ReportDelay + 1
    BY RgbwNumbers
  <2> QED
    BY <1>1, <1>14, <2>2, <2>4, <2>5, <2>6 DEF RestartRgbw, RgbwTypeOK
<1>15. CASE UNCHANGED rgbwVars
  BY <1>1, <1>15 DEF rgbwVars, RgbwTypeOK
<1> QED
  BY <1>5, <1>7, <1>8, <1>9, <1>11, <1>12, <1>13, <1>14, <1>15 DEF RgbwNext

\* What is written to a pin fits it, from the start on, when the lamp is not yet at anything.
LEMMA PinLemma ==
  ASSUME NEW now \in -1 .. Top, NEW level \in -1 .. Top, NEW field \in {"color", "white"},
         limits \in Limits
  PROVE  /\ Adjusted(level, Top, limits[field]) \in -1 .. Top
         /\ (now * level) \div Top \in -1 .. Top
<1>1. Top \in Nat \ {0}
  BY FadeAssumption
<1>2. PICK low \in 0 .. Top, high \in 0 .. Top : limits[field] = <<low, high>> /\ low <= high
  <2>1. limits[field] \in (0 .. Top) \X (0 .. Top) /\ limits[field][1] <= limits[field][2]
    BY FadeAssumption
  <2> QED
    BY <2>1
<1>3. ASSUME NEW a \in Int, NEW b \in Nat, -Top <= a, a <= Top * b PROVE a \div Top \in -1 .. b
  <2>1. a \div Top \in Int /\ Top * (a \div Top) <= a /\ a < Top * (a \div Top) + Top
    BY <1>1, DivLemma
  <2>2. PICK q \in Int : q = a \div Top
    BY <2>1
  <2>3. Top * q <= Top * b /\ Top * (q + 2) > 0
    <3>1. Top * q <= a /\ a < Top * q + Top
      BY <2>1, <2>2
    <3>2. Top * (q + 2) = Top * q + Top + Top /\ Top * q \in Int /\ Top * b \in Int
      BY <1>1
    <3> QED
      BY <1>1, <1>3, <3>1, <3>2
  <2>4. q <= b
    BY <1>1, <2>3
  <2>5. q + 2 > 0
    BY <1>1, <2>3
  <2> QED
    BY <2>2, <2>4, <2>5
<1>4. Adjusted(level, Top, limits[field]) \in -1 .. Top
  <2>1. PICK d \in 0 .. Top : d = high - low
    BY <1>1, <1>2
  <2>2. -Top <= level * d /\ level * d <= Top * d /\ level * d \in Int
    <3>1. CASE level >= 0
      <4>1. level * d >= 0 /\ level * d <= Top * d
        BY <1>1, <3>1
      <4> QED
        BY <1>1, <4>1
    <3>2. CASE level = -1
      <4>1. level * d = -d /\ Top * d >= 0
        BY <1>1, <3>2
      <4> QED
        BY <1>1, <4>1
    <3> QED
      BY <1>1, <3>1, <3>2
  <2>3. (level * d) \div Top \in -1 .. d
    BY <1>3, <2>2
  <2>4. Adjusted(level, Top, limits[field]) = low + (level * d) \div Top
    BY <1>2, <2>1 DEF Adjusted
  <2> QED
    BY <1>1, <1>2, <2>1, <2>3, <2>4
<1>5. -Top <= now * level /\ now * level <= Top * Top /\ now * level \in Int
  <2>1. CASE now >= 0 /\ level >= 0
    <3>1. now * level >= 0 /\ now * level <= Top * Top
      BY <1>1, <2>1
    <3> QED
      BY <1>1, <3>1
  <2>2. CASE now = -1
    <3>1. now * level = -level /\ Top * Top >= Top
      BY <1>1, <2>2
    <3> QED
      BY <1>1, <3>1
  <2>3. CASE level = -1
    <3>1. now * level = -now /\ Top * Top >= Top
      BY <1>1, <2>3
    <3> QED
      BY <1>1, <3>1
  <2> QED
    BY <1>1, <2>1, <2>2, <2>3
<1>6. (now * level) \div Top \in -1 .. Top
  BY <1>1, <1>3, <1>5
<1> QED
  BY <1>4, <1>6

\* What a lamp is at, and what is written to its pins, has its type.
LEMMA OutputTypes ==
  ASSUME limits \in Limits, lampKind \in FadeKinds, NEW now \in [LampFields -> -1 .. Top]
  PROVE  Output(now) \in [{"red", "white"} -> -1 .. Top]
<1>1. Top \in Nat \ {0} /\ lampKind \in {"rgbw", "rgb", "dimmer"}
  BY FadeAssumption
<1>2. now.red \in -1 .. Top /\ now.color \in -1 .. Top /\ now.white \in -1 .. Top
  BY DEF LampFields
<1>3. ColorPin(now) \in -1 .. Top
  <2>1. Adjusted(now.color, Top, limits["color"]) \in -1 .. Top
    BY <1>2, PinLemma
  <2> QED
    BY <1>2, <2>1, PinLemma DEF ColorPin
<1>4. WhitePin(now) \in -1 .. Top
  BY <1>2, PinLemma DEF WhitePin
<1>5. NotWritten \in -1 .. Top
  BY <1>1 DEF NotWritten
<1>6. ASSUME NEW r \in -1 .. Top, NEW w \in -1 .. Top
      PROVE  [red |-> r, white |-> w] \in [{"red", "white"} -> -1 .. Top]
  OBVIOUS
<1> QED
  BY <1>1, <1>3, <1>4, <1>5, <1>6 DEF Output, RgbwLeds, RgbLeds, DimmerLeds

\* What is commanded fits the larger of the two ranges.
LEMMA MostLemma ==
  \A f \in LampFields : 0 .. MostOf(f) \subseteq 0 .. LongestOfAll({MostRed, MostLevel})
<1> DEFINE most == LongestOfAll({MostRed, MostLevel})
<1>1. MostRed \in Nat /\ MostLevel \in Nat
  BY FadeAssumption
<1>2. \E t \in {MostRed, MostLevel} : \A u \in {MostRed, MostLevel} : u <= t
  BY <1>1
<1>3. most \in Nat /\ MostRed <= most /\ MostLevel <= most
  BY <1>1, <1>2 DEF LongestOfAll
<1> HIDE DEF most
<1>4. \A f \in LampFields : 0 .. MostOf(f) \subseteq 0 .. most
  BY <1>1, <1>3 DEF MostOf
<1> QED
  BY <1>4 DEF most

\* The time a lamp has to settle is a number.
LEMMA SettleLemma == ASSUME fadeEffect \in FadeTimes PROVE SettleTime \in Nat
BY LongestLemma, FadeAssumption DEF SettleTime

\* A lamp starts typed, before anything was written to its pins.
LEMMA FadeTypesStart == FadeInit => FadeTypeOK
<1> SUFFICES ASSUME FadeInit PROVE FadeTypeOK
  OBVIOUS
<1>1. FadeInv
  BY FadeStarts
<1>2. pins \in [{"red", "white"} -> -1 .. Top]
  BY FadeAssumption DEF FadeInit, NotWritten
<1>3. calm \in 0 .. SettleTime
  BY SettleLemma DEF FadeInit
<1> QED
  BY <1>1, <1>2, <1>3, MostLemma DEF FadeInit, FadeInv, FadeTypeOK

\* No pass of the timer, command or configuration changes that.
LEMMA FadeTypesStep == ASSUME FadeInv, FadeTypeOK, [FadeNext]_fadeVars PROVE FadeTypeOK'
<1>1. FadeInv'
  BY FadeStep
<1>2. /\ lampKind' \in FadeKinds /\ fadeEffect' \in FadeTimes /\ limits' \in Limits
      /\ UNCHANGED <<lampKind, fadeEffect, limits>>
  BY DEF FadeTypeOK, FadeNext, LampOnTimer, Assign, fadeVars
<1>3. pins \in [{"red", "white"} -> -1 .. Top] /\ calm \in 0 .. SettleTime /\ SettleTime \in Nat
      /\ fadeEffect \in FadeTimes /\ limits \in Limits /\ lampKind \in FadeKinds
  BY SettleLemma DEF FadeTypeOK
<1>4. SettleTime' = SettleTime
  BY <1>2 DEF SettleTime
<1>5. pins' \in [{"red", "white"} -> -1 .. Top] /\ calm' \in 0 .. SettleTime
  <2>1. ASSUME NEW delay \in Delays, LampOnTimer(delay)
        PROVE  pins' \in [{"red", "white"} -> -1 .. Top] /\ calm' \in 0 .. SettleTime
    <3>1. hw' \in [LampFields -> -1 .. Top]
      BY <1>1 DEF FadeInv
    <3>2. Output(hw') \in [{"red", "white"} -> -1 .. Top]
      BY <1>3, <3>1, OutputTypes
    <3>3. pins' = Output(hw') \/ pins' = pins
      BY <2>1 DEF LampOnTimer
    <3>4. delay \in Nat
      BY FadeAssumption
    <3>5. calm' \in 0 .. SettleTime
      BY <1>3, <2>1, <3>4 DEF LampOnTimer
    <3> QED
      BY <1>3, <3>2, <3>3, <3>5
  <2>2. ASSUME NEW field, NEW given, Assign(field, given)
        PROVE  pins' = pins /\ calm' = 0
    BY <2>2 DEF Assign
  <2>3. 0 \in 0 .. SettleTime
    BY <1>3
  <2> QED
    BY <1>3, <2>1, <2>2, <2>3 DEF FadeNext, fadeVars
<1>6. /\ wanted' \in [LampFields -> 0 .. LongestOfAll({MostRed, MostLevel})]
      /\ hw' \in [LampFields -> -1 .. Top]
  BY <1>1, MostLemma DEF FadeInv
<1> QED
  BY <1>2, <1>4, <1>5, <1>6 DEF FadeTypeOK

\* The types of a Linux device, and that every file of it has content.
LinuxTypes == LinuxTypeOK /\ DOMAIN content = FileNames

\* A Linux device starts with files that say nothing and with parsers that are due.
LEMMA LinuxTypesStart == ParsedInit => LinuxTypes
<1> SUFFICES ASSUME ParsedInit PROVE LinuxTypes
  OBVIOUS
<1>1. loaded = LoadChannels(cfgFile) /\ tooOld = {} /\ writes = 0 /\ MostWrites \in Nat
  BY LinuxSensorsAssumption DEF ParsedInit
<1>2. DOMAIN content = FileNames /\ \A f \in FileNames : content[f] \in Contents
  BY LinuxSensorsAssumption DEF ParsedInit
<1>3. /\ valid \in [Parsers -> BOOLEAN] /\ due \subseteq Parsers
      /\ DOMAIN read = Parsers /\ DOMAIN said = Parsers
  BY DEF ParsedInit
<1> QED
  BY <1>1, <1>2, <1>3 DEF LinuxTypes, LinuxTypeOK

\* Neither a poll of a channel nor who writes the files disturbs the types of a Linux device:
\* the parsers are those that loadChannels built.
LEMMA LinuxTypesStep == ASSUME LinuxTypes, [ParsedNext]_parsedVars PROVE LinuxTypes'
<1>0. /\ loaded = LoadChannels(cfgFile) /\ DOMAIN content = FileNames
      /\ \A f \in FileNames : content[f] \in Contents
      /\ tooOld \subseteq FileNames /\ writes \in 0 .. MostWrites /\ MostWrites \in Nat
      /\ valid \in [Parsers -> BOOLEAN] /\ due \subseteq Parsers
      /\ DOMAIN read = Parsers /\ DOMAIN said = Parsers
  BY LinuxSensorsAssumption DEF LinuxTypes, LinuxTypeOK
<1>1. cfgFile' = cfgFile /\ loaded' = loaded
  BY DEF ParsedNext, Poll, RefreshTimePasses, Expires, Write, parsedVars
<1>2. Parsers' = Parsers /\ loaded' = LoadChannels(cfgFile)'
  <2>1. Parsers' = Parsers
    BY <1>1 DEF Parsers
  <2>2. LoadChannels(cfgFile)' = LoadChannels(cfgFile)
    BY <1>1
  <2> QED
    BY <1>0, <1>1, <2>1, <2>2, Zenon
<1>3. ASSUME NEW c \in Parsed, Poll(c) PROVE LinuxTypes'
  <2> DEFINE ch == loaded.channels[c]
             p == ch.parser
             source == loaded.sources[loaded.parsers[p].source]
             now == IF p \in due THEN Refreshed(p, GetContent(source.file, source.expires))
                    ELSE [valid |-> valid[p], read |-> read[p]]
             asked == p \notin due \/ now.valid
             isValid == now.valid /\ (asked /\ ch.key # NoKey => Has(now.read, ch.key))
  <2>1. /\ valid' = [valid EXCEPT ![p] = isValid] /\ read' = [read EXCEPT ![p] = now.read]
        /\ due' = due \ {p} /\ content' = content /\ tooOld' = tooOld /\ writes' = writes
    BY <1>3, Zenon DEF Poll
  <2>2. said' = said \/ \E new : said' = [said EXCEPT ![p] = new]
    BY <1>3, Zenon DEF Poll
  <2>3. PICK b \in BOOLEAN : isValid = b
    <3>1. CASE isValid
      BY <3>1, Zenon
    <3>2. CASE ~isValid
      BY <3>2, Zenon
    <3> QED
      BY <3>1, <3>2, Zenon
  <2> HIDE DEF ch, p, source, now, asked, isValid
  <2>4. valid' \in [Parsers -> BOOLEAN] /\ DOMAIN read' = Parsers /\ DOMAIN said' = Parsers
    <3>1. valid' = [valid EXCEPT ![p] = b]
      BY <2>1, <2>3, Zenon
    <3> QED
      BY <1>0, <2>1, <2>2, <3>1
  <2> QED
    BY <1>0, <1>2, <2>1, <2>4 DEF LinuxTypes, LinuxTypeOK
<1>4. ASSUME NEW p \in Parsers, RefreshTimePasses(p) PROVE LinuxTypes'
  BY <1>0, <1>2, <1>4 DEF LinuxTypes, LinuxTypeOK, RefreshTimePasses
<1>5. ASSUME NEW f \in FileNames, Expires(f) PROVE LinuxTypes'
  BY <1>0, <1>2, <1>5 DEF LinuxTypes, LinuxTypeOK, Expires
<1>6. ASSUME NEW f \in FileNames, NEW c \in Contents, Write(f, c) PROVE LinuxTypes'
  BY <1>0, <1>2, <1>6 DEF LinuxTypes, LinuxTypeOK, Write
<1>7. CASE UNCHANGED parsedVars
  BY <1>0, <1>2, <1>7 DEF LinuxTypes, LinuxTypeOK, parsedVars
<1> QED
  BY <1>3, <1>4, <1>5, <1>6, <1>7 DEF ParsedNext

-----------------------------------------------------------------------------
(***************************************************************************)
(* The channels of a Linux device, for every configuration file: by        *)
(* induction over its channels, each parser has the source that the file   *)
(* means; and so a channel shows what this source said, or nothing.        *)
(***************************************************************************)

\* What loadChannels is filling in, whatever it has found so far.
IsLoad(l) ==
  DOMAIN l = {"ok", "sources", "sourceNames", "sourceCount", "parsers", "parserNames",
              "parserCount", "channels", "source", "parser"}

\* Channel d is the last one of the first i that gives the name n to a new source or parser.
IsLatest(i, field, n, d) ==
  /\ d \in 1 .. i /\ cfgFile[d][field].is = "new" /\ cfgFile[d][field].name = n
  /\ \A j \in d + 1 .. i : cfgFile[j][field].is # "new" \/ cfgFile[j][field].name # n

\* The source that channel d defines; and a source, or that of a parser, is the one that channel d
\* means.
Entry(d) == [file |-> cfgFile[d].source.file, expires |-> cfgFile[d].source.expires]
SourceIs(l, k, d) == k \in DOMAIN l.sources /\ l.sources[k] = Entry(d)
ParserIs(l, k, d) ==
  k \in DOMAIN l.parsers /\ SourceIs(l, l.parsers[k].source, Definition(d, "source"))

\* After i channels: the indices that are given next are free, and each name stands for the last
\* that had it.
SourcesInv(l, i) ==
  /\ l.sourceCount \in Nat /\ \A k \in DOMAIN l.sources : k \in Nat /\ k < l.sourceCount
  /\ \A n \in DOMAIN l.sourceNames :
       n # "" /\ \E d : IsLatest(i, "source", n, d) /\ SourceIs(l, l.sourceNames[n], d)
ParsersInv(l, i) ==
  /\ l.parserCount \in Nat /\ \A k \in DOMAIN l.parsers : k \in Nat /\ k < l.parserCount
  /\ \A n \in DOMAIN l.parserNames :
       n # "" /\ \E d : IsLatest(i, "parser", n, d) /\ ParserIs(l, l.parserNames[n], d)
IsRight(l, ch, c) ==
  ch.parser # NoIndex =>
    /\ ParserIs(l, ch.parser, Definition(c, "parser"))
    /\ ch.type \in NumberTypes \cup {"BinaryParsed", MeterParsed}
    /\ ch.key \in Nat \cup {NoKey} /\ (ch.type # MeterParsed => ch.key # NoKey)
    /\ ch.multiplier \in Int
ChannelsInv(l, i) ==
  /\ \E S : l.channels \in Seq(S)
  /\ Len(l.channels) = i /\ \A c \in 1 .. i : IsRight(l, l.channels[c], c)
LoadInv(l, i) == IsLoad(l) /\ SourcesInv(l, i) /\ ParsersInv(l, i) /\ ChannelsInv(l, i)

\* There is one last one of a name.
LEMMA LatestLemma ==
  ASSUME NEW i \in Nat, NEW field, NEW n, NEW d, IsLatest(i, field, n, d)
  PROVE  Latest(i, field, n) = d
<1>1. \A e : IsLatest(i, field, n, e) => e = d
  BY DEF IsLatest
<1>2. Latest(i, field, n) = CHOOSE e \in 1 .. i : IsLatest(i, field, n, e)
  BY Zenon DEF Latest, IsLatest
<1>3. d \in 1 .. i
  BY DEF IsLatest
<1> QED
  BY <1>1, <1>2, <1>3

\* A channel that gives a name is the last one that does; others leave it to who had it.
LEMMA NextLatest ==
  ASSUME NEW i \in Nat \ {0}, NEW field
  PROVE  /\ cfgFile[i][field].is = "new" => IsLatest(i, field, cfgFile[i][field].name, i)
         /\ \A n, d : /\ IsLatest(i - 1, field, n, d)
                      /\ cfgFile[i][field].is # "new" \/ cfgFile[i][field].name # n
                      => IsLatest(i, field, n, d)
<1>1. \A d \in 1 .. i - 1 : d \in 1 .. i /\ d + 1 .. i = (d + 1 .. i - 1) \cup {i}
  OBVIOUS
<1>2. i \in 1 .. i /\ i + 1 .. i = {}
  OBVIOUS
<1> QED
  BY <1>1, <1>2 DEF IsLatest

\* What the source of a channel leaves alone.
KeepsParsers(l, w) ==
  /\ w.parsers = l.parsers /\ w.parserNames = l.parserNames /\ w.parserCount = l.parserCount
  /\ w.channels = l.channels
  /\ \A k, d : SourceIs(l, k, d) => SourceIs(w, k, d)

\* A source is the one that its channel means, whether it is new or in use.
LEMMA SourceStep ==
  ASSUME NEW i \in Nat \ {0}, NEW l, IsLoad(l), SourcesInv(l, i - 1),
         NEW w, w = AddSource(l, cfgFile[i].source), w.ok,
         cfgFile[i].source.is \in {"absent", "wrong", "use", "new"}
  PROVE  /\ IsLoad(w) /\ SourcesInv(w, i) /\ KeepsParsers(l, w)
         /\ w.source = NoIndex \/ SourceIs(w, w.source, Definition(i, "source"))
<1> DEFINE s == cfgFile[i].source
<1>0. cfgFile[i]["source"] = s
  OBVIOUS
<1>1. \A n \in DOMAIN l.sourceNames :
        n # "" /\ \E d : IsLatest(i - 1, "source", n, d) /\ SourceIs(l, l.sourceNames[n], d)
  BY DEF SourcesInv
<1>2. /\ s.is = "new" => IsLatest(i, "source", s.name, i)
      /\ \A n, d : /\ IsLatest(i - 1, "source", n, d)
                   /\ s.is # "new" \/ s.name # n
                   => IsLatest(i, "source", n, d)
  BY NextLatest, <1>0
<1>3. Failed(l).ok = FALSE
  BY DEF Failed, IsLoad
<1>8. l.sourceCount \in Nat /\ \A k \in DOMAIN l.sources : k \in Nat /\ k < l.sourceCount
  BY DEF SourcesInv
<1>9. ASSUME NEW m1, m1.sources = l.sources, m1.sourceNames = l.sourceNames,
             m1.sourceCount = l.sourceCount, m1.parsers = l.parsers,
             m1.parserNames = l.parserNames, m1.parserCount = l.parserCount,
             m1.channels = l.channels, s.is # "new"
      PROVE  SourcesInv(m1, i) /\ KeepsParsers(l, m1)
  <2>1. KeepsParsers(l, m1)
    BY <1>9 DEF KeepsParsers, SourceIs
  <2>2. ASSUME NEW n \in DOMAIN m1.sourceNames
        PROVE  n # "" /\ \E d : IsLatest(i, "source", n, d) /\ SourceIs(m1, m1.sourceNames[n], d)
    <3>1. n \in DOMAIN l.sourceNames /\ m1.sourceNames[n] = l.sourceNames[n]
      BY <1>9
    <3>2. PICK d : IsLatest(i - 1, "source", n, d) /\ SourceIs(l, l.sourceNames[n], d)
      BY <1>1, <3>1
    <3>3. IsLatest(i, "source", n, d)
      BY <1>2, <1>9, <3>2
    <3>4. SourceIs(m1, m1.sourceNames[n], d)
      BY <2>1, <3>1, <3>2, Zenon DEF KeepsParsers
    <3> QED
      BY <1>1, <3>1, <3>3, <3>4, Zenon
  <2>3. m1.sourceCount \in Nat /\ \A k \in DOMAIN m1.sources : k \in Nat /\ k < m1.sourceCount
    BY <1>8, <1>9
  <2> QED
    BY <2>1, <2>2, <2>3, Zenon DEF SourcesInv
<1>4. CASE s.is = "absent"
  <2>1. w = [l EXCEPT !.source = NoIndex]
    BY <1>4 DEF AddSource
  <2>2. IsLoad(w) /\ w.source = NoIndex
    BY <2>1 DEF IsLoad
  <2>3. /\ w.sources = l.sources /\ w.sourceNames = l.sourceNames
        /\ w.sourceCount = l.sourceCount /\ w.parsers = l.parsers
        /\ w.parserNames = l.parserNames /\ w.parserCount = l.parserCount /\ w.channels = l.channels
    BY <2>1
  <2>4. SourcesInv(w, i) /\ KeepsParsers(l, w)
    BY <1>4, <1>9, <2>3
  <2> QED
    BY <2>2, <2>4
<1>5. CASE s.is = "wrong"
  BY <1>3, <1>5 DEF AddSource
<1>6. CASE s.is = "use"
  <2>1. s.name \in DOMAIN l.sourceNames /\ w = [l EXCEPT !.source = l.sourceNames[s.name]]
    BY <1>3, <1>6 DEF AddSource
  <2>2. IsLoad(w) /\ w.source = l.sourceNames[s.name]
    BY <2>1 DEF IsLoad
  <2>3. /\ w.sources = l.sources /\ w.sourceNames = l.sourceNames
        /\ w.sourceCount = l.sourceCount /\ w.parsers = l.parsers
        /\ w.parserNames = l.parserNames /\ w.parserCount = l.parserCount /\ w.channels = l.channels
    BY <2>1
  <2>4. SourcesInv(w, i) /\ KeepsParsers(l, w)
    BY <1>6, <1>9, <2>3
  <2>5. PICK d : IsLatest(i - 1, "source", s.name, d) /\ SourceIs(l, l.sourceNames[s.name], d)
    BY <1>1, <2>1
  <2>6. Latest(i, "source", s.name) = d
    BY <1>2, <1>6, <2>5, LatestLemma
  <2>7. Definition(i, "source") = d
    BY <1>0, <1>6, <2>6 DEF Definition
  <2> QED
    BY <2>2, <2>3, <2>4, <2>5, <2>7 DEF SourceIs
<1>7. CASE s.is = "new"
  <2> DEFINE k == l.sourceCount
             new == [file |-> s.file, expires |-> s.expires]
  <2>1. w = [l EXCEPT !.sources = Entered(@, k, new), !.sourceNames = Named(@, s, k),
                      !.sourceCount = @ + 1, !.source = k]
    BY <1>7 DEF AddSource
  <2>2. IsLoad(w) /\ w.source = k
    BY <2>1 DEF IsLoad
  <2>3. /\ w.sources = Entered(l.sources, k, new) /\ w.sourceNames = Named(l.sourceNames, s, k)
        /\ w.sourceCount = k + 1 /\ w.parsers = l.parsers
        /\ w.parserNames = l.parserNames /\ w.parserCount = l.parserCount /\ w.channels = l.channels
    BY <2>1 DEF IsLoad
  <2>4. /\ DOMAIN w.sources = DOMAIN l.sources \cup {k} /\ w.sources[k] = Entry(i)
        /\ \A x \in DOMAIN l.sources : x # k => w.sources[x] = l.sources[x]
    BY <2>3 DEF Entered, Entry
  <2>5. k \in Nat /\ k \notin DOMAIN l.sources
    BY <1>8
  <2>6. KeepsParsers(l, w)
    <3>1. \A x \in DOMAIN l.sources : x \in DOMAIN w.sources /\ w.sources[x] = l.sources[x]
      BY <2>4, <2>5
    <3> QED
      BY <2>3, <3>1 DEF KeepsParsers, SourceIs
  <2>7. SourceIs(w, k, i)
    BY <2>4 DEF SourceIs
  <2>8. ASSUME NEW n \in DOMAIN w.sourceNames
        PROVE  n # "" /\ \E d : IsLatest(i, "source", n, d) /\ SourceIs(w, w.sourceNames[n], d)
    <3>1. CASE s.name # "" /\ n = s.name
      <4>1. w.sourceNames[n] = k
        BY <2>3, <3>1 DEF Entered, Named
      <4> QED
        BY <1>2, <1>7, <2>7, <3>1, <4>1
    <3>2. CASE ~ (s.name # "" /\ n = s.name)
      <4>1. n \in DOMAIN l.sourceNames /\ w.sourceNames[n] = l.sourceNames[n] /\ n # s.name
        <5>1. CASE s.name = ""
          <6>1. w.sourceNames = l.sourceNames
            BY <2>3, <5>1 DEF Named
          <6> QED
            BY <1>1, <6>1, <5>1
        <5>2. CASE s.name # ""
          <6>1. w.sourceNames = Entered(l.sourceNames, s.name, k)
            BY <2>3, <5>2 DEF Named
          <6> QED
            BY <6>1, <5>2, <3>2 DEF Entered
        <5> QED
          BY <5>1, <5>2
      <4>2. PICK d : IsLatest(i - 1, "source", n, d) /\ SourceIs(l, l.sourceNames[n], d)
        BY <1>1, <4>1
      <4>3. IsLatest(i, "source", n, d)
        BY <1>2, <4>1, <4>2
      <4>4. SourceIs(w, w.sourceNames[n], d)
        BY <2>6, <4>1, <4>2, Zenon DEF KeepsParsers
      <4> QED
        BY <1>1, <4>1, <4>3, <4>4, Zenon
    <3> QED
      BY <3>1, <3>2
  <2>9. SourcesInv(w, i)
    <3>1. w.sourceCount \in Nat /\ \A x \in DOMAIN w.sources : x \in Nat /\ x < w.sourceCount
      BY <1>8, <2>3, <2>4, <2>5
    <3> QED
      BY <2>8, <3>1 DEF SourcesInv
  <2>10. Definition(i, "source") = i
    BY <1>0, <1>7 DEF Definition
  <2> QED
    BY <2>2, <2>6, <2>7, <2>9, <2>10
<1> QED
  BY <1>4, <1>5, <1>6, <1>7

\* What the parser of a channel leaves alone.
KeepsSources(l, w) ==
  /\ w.sources = l.sources /\ w.sourceNames = l.sourceNames /\ w.sourceCount = l.sourceCount
  /\ w.channels = l.channels
  /\ \A k, d : ParserIs(l, k, d) => ParserIs(w, k, d)

\* A parser has the source that its channel means; it is the channel's own or one in use.
LEMMA ParserStep ==
  ASSUME NEW i \in Nat \ {0}, NEW l, IsLoad(l), ParsersInv(l, i - 1),
         l.source = NoIndex \/ SourceIs(l, l.source, Definition(i, "source")),
         NEW w, w = AddParser(l, cfgFile[i].parser), w.ok,
         cfgFile[i].parser.is \in {"absent", "wrong", "use", "new"}
  PROVE  /\ IsLoad(w) /\ ParsersInv(w, i) /\ KeepsSources(l, w)
         /\ w.parser = NoIndex \/ ParserIs(w, w.parser, Definition(i, "parser"))
<1> DEFINE p == cfgFile[i].parser
<1>0. cfgFile[i]["parser"] = p
  OBVIOUS
<1>1. \A n \in DOMAIN l.parserNames :
        n # "" /\ \E d : IsLatest(i - 1, "parser", n, d) /\ ParserIs(l, l.parserNames[n], d)
  BY DEF ParsersInv
<1>2. /\ p.is = "new" => IsLatest(i, "parser", p.name, i)
      /\ \A n, d : /\ IsLatest(i - 1, "parser", n, d)
                   /\ p.is # "new" \/ p.name # n
                   => IsLatest(i, "parser", n, d)
  BY NextLatest, <1>0
<1>3. Failed(l).ok = FALSE
  BY DEF Failed, IsLoad
<1>8. l.parserCount \in Nat /\ \A k \in DOMAIN l.parsers : k \in Nat /\ k < l.parserCount
  BY DEF ParsersInv
<1>9. ASSUME NEW m1, m1.sources = l.sources, m1.sourceNames = l.sourceNames,
             m1.sourceCount = l.sourceCount, m1.parsers = l.parsers,
             m1.parserNames = l.parserNames, m1.parserCount \in Nat,
             m1.parserCount >= l.parserCount, m1.channels = l.channels, p.is # "new"
      PROVE  ParsersInv(m1, i) /\ KeepsSources(l, m1)
  <2>1. KeepsSources(l, m1)
    BY <1>9 DEF KeepsSources, ParserIs, SourceIs
  <2>2. ASSUME NEW n \in DOMAIN m1.parserNames
        PROVE  n # "" /\ \E d : IsLatest(i, "parser", n, d) /\ ParserIs(m1, m1.parserNames[n], d)
    <3>1. n \in DOMAIN l.parserNames /\ m1.parserNames[n] = l.parserNames[n]
      BY <1>9
    <3>2. PICK d : IsLatest(i - 1, "parser", n, d) /\ ParserIs(l, l.parserNames[n], d)
      BY <1>1, <3>1
    <3>3. IsLatest(i, "parser", n, d)
      BY <1>2, <1>9, <3>2
    <3>4. ParserIs(m1, m1.parserNames[n], d)
      BY <2>1, <3>1, <3>2, Zenon DEF KeepsSources
    <3> QED
      BY <1>1, <3>1, <3>3, <3>4, Zenon
  <2>3. m1.parserCount \in Nat /\ \A k \in DOMAIN m1.parsers : k \in Nat /\ k < m1.parserCount
    BY <1>8, <1>9
  <2> QED
    BY <2>1, <2>2, <2>3, Zenon DEF ParsersInv
<1>4. CASE p.is = "absent"
  <2>1. w = [l EXCEPT !.parser = NoIndex]
    BY <1>4 DEF AddParser
  <2>2. IsLoad(w) /\ w.parser = NoIndex
    BY <2>1 DEF IsLoad
  <2>3. /\ w.sources = l.sources /\ w.sourceNames = l.sourceNames
        /\ w.sourceCount = l.sourceCount /\ w.parsers = l.parsers
        /\ w.parserNames = l.parserNames /\ w.parserCount = l.parserCount /\ w.channels = l.channels
    BY <2>1
  <2>4. w.parserCount \in Nat /\ w.parserCount >= l.parserCount
    BY <1>8, <2>3
  <2> QED
    BY <1>4, <1>9, <2>2, <2>3, <2>4
<1>5. CASE p.is = "wrong" \/ (p.is = "new" /\ l.source = NoIndex)
  BY <1>3, <1>5 DEF AddParser
<1>6. CASE p.is = "use"
  <2>1. /\ p.name \in DOMAIN l.parserNames
        /\ w = [l EXCEPT !.parser = l.parserNames[p.name], !.parserCount = @ + 1]
    BY <1>3, <1>6 DEF AddParser
  <2>2. IsLoad(w) /\ w.parser = l.parserNames[p.name] /\ w.parserCount = l.parserCount + 1
    BY <2>1 DEF IsLoad
  <2>3. /\ w.sources = l.sources /\ w.sourceNames = l.sourceNames
        /\ w.sourceCount = l.sourceCount /\ w.parsers = l.parsers
        /\ w.parserNames = l.parserNames /\ w.channels = l.channels
    BY <2>1
  <2>4. w.parserCount \in Nat /\ w.parserCount >= l.parserCount
    BY <1>8, <2>2
  <2>5. PICK d : IsLatest(i - 1, "parser", p.name, d) /\ ParserIs(l, l.parserNames[p.name], d)
    BY <1>1, <2>1
  <2>6. Latest(i, "parser", p.name) = d
    <3>1. IsLatest(i, "parser", p.name, d)
      BY <1>2, <1>6, <2>5
    <3> QED
      BY <3>1, LatestLemma
  <2>7. Definition(i, "parser") = d
    BY <1>0, <1>6, <2>6 DEF Definition
  <2>8. ParsersInv(w, i) /\ KeepsSources(l, w)
    BY <1>6, <1>9, <2>3, <2>4
  <2>9. ParserIs(w, w.parser, d)
    BY <2>2, <2>5, <2>8, Zenon DEF KeepsSources
  <2> QED
    BY <2>2, <2>7, <2>8, <2>9
<1>7. CASE p.is = "new" /\ l.source # NoIndex
  <2> DEFINE k == l.parserCount
             new == [type |-> p.type, source |-> l.source]
  <2>1. w = [l EXCEPT !.parsers = Entered(@, k, new), !.parserNames = Named(@, p, k),
                      !.parserCount = @ + 2, !.parser = k]
    BY <1>7 DEF AddParser
  <2>2. IsLoad(w) /\ w.parser = k
    BY <2>1 DEF IsLoad
  <2>3. /\ w.parsers = Entered(l.parsers, k, new) /\ w.parserNames = Named(l.parserNames, p, k)
        /\ w.parserCount = k + 2 /\ w.sources = l.sources
        /\ w.sourceNames = l.sourceNames /\ w.sourceCount = l.sourceCount /\ w.channels = l.channels
    BY <2>1 DEF IsLoad
  <2>4. /\ DOMAIN w.parsers = DOMAIN l.parsers \cup {k} /\ w.parsers[k].source = l.source
        /\ \A x \in DOMAIN l.parsers : x # k => w.parsers[x] = l.parsers[x]
    BY <2>3 DEF Entered
  <2>5. k \in Nat /\ k \notin DOMAIN l.parsers
    BY <1>8
  <2>6. KeepsSources(l, w)
    <3>1. \A x \in DOMAIN l.parsers : x \in DOMAIN w.parsers /\ w.parsers[x] = l.parsers[x]
      BY <2>4, <2>5
    <3> QED
      BY <2>3, <3>1 DEF KeepsSources, ParserIs, SourceIs
  <2>7. ParserIs(w, k, i)
    <3>1. SourceIs(l, l.source, Definition(i, "source"))
      BY <1>7
    <3>2. SourceIs(w, l.source, Definition(i, "source"))
      BY <2>3, <3>1 DEF SourceIs
    <3> QED
      BY <2>4, <3>2 DEF ParserIs
  <2>8. ASSUME NEW n \in DOMAIN w.parserNames
        PROVE  n # "" /\ \E d : IsLatest(i, "parser", n, d) /\ ParserIs(w, w.parserNames[n], d)
    <3>1. CASE p.name # "" /\ n = p.name
      <4>1. w.parserNames[n] = k
        BY <2>3, <3>1 DEF Entered, Named
      <4> QED
        BY <1>2, <1>7, <2>7, <3>1, <4>1
    <3>2. CASE ~ (p.name # "" /\ n = p.name)
      <4>1. n \in DOMAIN l.parserNames /\ w.parserNames[n] = l.parserNames[n] /\ n # p.name
        <5>1. CASE p.name = ""
          <6>1. w.parserNames = l.parserNames
            BY <2>3, <5>1 DEF Named
          <6> QED
            BY <1>1, <6>1, <5>1
        <5>2. CASE p.name # ""
          <6>1. w.parserNames = Entered(l.parserNames, p.name, k)
            BY <2>3, <5>2 DEF Named
          <6> QED
            BY <6>1, <5>2, <3>2 DEF Entered
        <5> QED
          BY <5>1, <5>2
      <4>2. PICK d : IsLatest(i - 1, "parser", n, d) /\ ParserIs(l, l.parserNames[n], d)
        BY <1>1, <4>1
      <4>3. IsLatest(i, "parser", n, d)
        BY <1>2, <4>1, <4>2
      <4>4. ParserIs(w, w.parserNames[n], d)
        BY <2>6, <4>1, <4>2, Zenon DEF KeepsSources
      <4> QED
        BY <1>1, <4>1, <4>3, <4>4, Zenon
    <3> QED
      BY <3>1, <3>2
  <2>9. ParsersInv(w, i)
    <3>1. w.parserCount \in Nat /\ \A x \in DOMAIN w.parsers : x \in Nat /\ x < w.parserCount
      BY <1>8, <2>3, <2>4, <2>5
    <3> QED
      BY <2>8, <3>1 DEF ParsersInv
  <2>10. Definition(i, "parser") = i
    BY <1>0, <1>7 DEF Definition
  <2> QED
    BY <2>2, <2>6, <2>7, <2>9, <2>10
<1> QED
  BY <1>4, <1>5, <1>6, <1>7

\* Parsers that stay leave the channels what they are.
LEMMA ChannelsKept ==
  ASSUME NEW i \in Nat, NEW l, NEW w, ChannelsInv(l, i), w.channels = l.channels,
         \A k, d : ParserIs(l, k, d) => ParserIs(w, k, d)
  PROVE  ChannelsInv(w, i)
BY DEF ChannelsInv, IsRight

\* One channel more is the last of the list.
LEMMA AppendLemma ==
  ASSUME NEW i \in Nat \ {0}, NEW l, IsLoad(l), ChannelsInv(l, i - 1), NEW ch, IsRight(l, ch, i),
         NEW w, w = [l EXCEPT !.channels = Append(@, ch)]
  PROVE  /\ IsLoad(w) /\ ChannelsInv(w, i)
         /\ w.sources = l.sources /\ w.sourceNames = l.sourceNames
         /\ w.sourceCount = l.sourceCount /\ w.parsers = l.parsers
         /\ w.parserNames = l.parserNames /\ w.parserCount = l.parserCount
<1>1. /\ IsLoad(w) /\ w.channels = Append(l.channels, ch)
      /\ w.sources = l.sources /\ w.sourceNames = l.sourceNames
      /\ w.sourceCount = l.sourceCount /\ w.parsers = l.parsers
      /\ w.parserNames = l.parserNames /\ w.parserCount = l.parserCount
  BY DEF IsLoad
<1>2. PICK S : l.channels \in Seq(S)
  BY DEF ChannelsInv
<1>3. Len(l.channels) = i - 1 /\ \A c \in 1 .. i - 1 : IsRight(l, l.channels[c], c)
  BY DEF ChannelsInv
<1>4. l.channels \in Seq(S \cup {ch}) /\ ch \in S \cup {ch}
  BY <1>2
<1>5. /\ w.channels \in Seq(S \cup {ch}) /\ Len(w.channels) = i /\ w.channels[i] = ch
      /\ \A c \in 1 .. i - 1 : w.channels[c] = l.channels[c]
  <2> DEFINE T == S \cup {ch}
             s == l.channels
  <2>1. s \in Seq(T) /\ ch \in T /\ Len(s) = i - 1
    BY <1>3, <1>4
  <2> HIDE DEF T, s
  <2>2. /\ Append(s, ch) \in Seq(T) /\ Len(Append(s, ch)) = Len(s) + 1
        /\ Append(s, ch)[Len(s) + 1] = ch
        /\ \A c \in 1 .. Len(s) : Append(s, ch)[c] = s[c]
    BY <2>1
  <2>3. Len(s) + 1 = i
    BY <2>1
  <2> QED
    BY <1>1, <2>1, <2>2, <2>3 DEF s, T
<1>6. \A k, d : ParserIs(l, k, d) => ParserIs(w, k, d)
  BY <1>1 DEF ParserIs, SourceIs
<1>7. ASSUME NEW c \in 1 .. i PROVE IsRight(w, w.channels[c], c)
  <2>1. CASE c = i
    BY <1>5, <1>6, <2>1 DEF IsRight
  <2>2. CASE c # i
    <3>1. c \in 1 .. i - 1
      BY <2>2
    <3> QED
      BY <1>3, <1>5, <1>6, <3>1 DEF IsRight
  <2> QED
    BY <2>1, <2>2
<1> QED
  BY <1>1, <1>5, <1>7 DEF ChannelsInv

\* What the configuration says of a channel.
IsEntry(e) ==
  /\ e = Channel(e.type, e.source, e.parser, e.key, e.multiplier)
  /\ {e.source.is, e.parser.is} \subseteq {"absent", "wrong", "use", "new"}
  /\ e.key \in Nat \cup {NoKey} /\ e.multiplier \in Int

\* Each type of channel is put behind the others.
LEMMA ChannelStep ==
  ASSUME NEW i \in Nat \ {0}, NEW l, IsLoad(l), ChannelsInv(l, i - 1), IsEntry(cfgFile[i]),
         l.parser = NoIndex \/ ParserIs(l, l.parser, Definition(i, "parser")),
         NEW w, w = AddChannel(l, cfgFile[i]), w.ok
  PROVE  /\ IsLoad(w) /\ ChannelsInv(w, i)
         /\ w.sources = l.sources /\ w.sourceNames = l.sourceNames
         /\ w.sourceCount = l.sourceCount /\ w.parsers = l.parsers
         /\ w.parserNames = l.parserNames /\ w.parserCount = l.parserCount
<1> DEFINE e == cfgFile[i]
           With(ch) == w = [l EXCEPT !.channels = Append(@, ch)]
<1>1. Failed(l).ok = FALSE
  BY DEF Failed, IsLoad
<1>2. e.key \in Nat \cup {NoKey} /\ e.multiplier \in Int
  BY DEF IsEntry
<1>3. ASSUME NEW f, w = AddParsed(l, f), f.type \in NumberTypes \cup {"BinaryParsed"},
             f.key \in Nat \cup {NoKey}, f.multiplier \in Int
      PROVE  \E ch : IsRight(l, ch, i) /\ With(ch)
  <2> DEFINE ch == [type |-> f.type, parser |-> l.parser, key |-> f.key,
                    multiplier |-> f.multiplier]
  <2>1. l.parser # NoIndex /\ f.key # NoKey /\ With(ch)
    BY <1>1, <1>3 DEF AddParsed
  <2>2. IsRight(l, ch, i)
    BY <1>3, <2>1 DEF IsRight
  <2> HIDE DEF ch
  <2> QED
    BY <2>1, <2>2
<1>4. CASE e.type \in NumberTypes
  <2>1. w = AddParsed(l, e)
    BY <1>4 DEF AddChannel, NumberTypes, MeterParsed
  <2>2. \E ch : IsRight(l, ch, i) /\ With(ch)
    BY <1>2, <1>3, <1>4, <2>1
  <2> QED
    BY <2>2, AppendLemma
<1>5. CASE e.type = "BinaryParsed"
  <2> DEFINE f == [e EXCEPT !.multiplier = 1]
  <2>1. w = AddParsed(l, f)
    BY <1>5 DEF AddChannel, AddBinary, NumberTypes, MeterParsed
  <2>2. f.type = "BinaryParsed" /\ f.key = e.key /\ f.multiplier = 1
    BY <1>5 DEF IsEntry, Channel
  <2> HIDE DEF f
  <2> QED
    BY <1>2, <1>3, <2>1, <2>2, AppendLemma
<1>6. CASE e.type = MeterParsed
  <2> DEFINE ch == [type |-> MeterParsed, parser |-> l.parser, key |-> e.key,
                    multiplier |-> e.multiplier]
  <2>1. l.parser # NoIndex /\ With(ch)
    BY <1>1, <1>6 DEF AddChannel, AddMeter, NumberTypes, MeterParsed
  <2>2. IsRight(l, ch, i)
    BY <1>2, <2>1 DEF IsRight
  <2> QED
    BY <2>1, <2>2, AppendLemma
<1>7. CASE e.type = "Fronius"
  <2> DEFINE ch == [type |-> "Fronius", parser |-> NoIndex]
  <2>1. With(ch)
    BY <1>1, <1>7 DEF AddChannel, AddFronius, NumberTypes, MeterParsed
  <2>2. IsRight(l, ch, i)
    BY DEF IsRight
  <2> QED
    BY <2>1, <2>2, AppendLemma
<1>8. CASE e.type = "VirtualRelay"
  <2> DEFINE ch == [type |-> "VirtualRelay", parser |-> NoIndex]
  <2>1. With(ch)
    BY <1>8 DEF AddChannel, AddVirtualRelay, NumberTypes, MeterParsed
  <2>2. IsRight(l, ch, i)
    BY DEF IsRight
  <2> QED
    BY <2>1, <2>2, AppendLemma
<1>9. CASE e.type \notin NumberTypes \cup {"BinaryParsed", MeterParsed, "Fronius", "VirtualRelay"}
  BY <1>1, <1>9 DEF AddChannel
<1> QED
  BY <1>4, <1>5, <1>6, <1>7, <1>8, <1>9

\* And so what is loaded of one channel more is right.
LEMMA ParseStep ==
  ASSUME NEW i \in Nat \ {0}, NEW l, l.ok, LoadInv(l, i - 1), IsEntry(cfgFile[i]),
         NEW w, w = ParseChannel(l, cfgFile[i]), w.ok
  PROVE  LoadInv(w, i)
<1> DEFINE e == cfgFile[i]
           a == AddSource(l, e.source)
           b == AddParser(a, e.parser)
<1>1. a.ok /\ b.ok /\ w = AddChannel(b, e)
  <2>1. w = IF (IF a.ok THEN b ELSE a).ok THEN AddChannel(IF a.ok THEN b ELSE a, e)
            ELSE IF a.ok THEN b ELSE a
    BY DEF ParseChannel
  <2>2. CASE a.ok /\ b.ok
    BY <2>1, <2>2
  <2>3. CASE ~a.ok
    BY <2>1, <2>3
  <2>4. CASE a.ok /\ ~b.ok
    BY <2>1, <2>4
  <2> QED
    BY <2>2, <2>3, <2>4
<1>2. /\ IsLoad(l) /\ SourcesInv(l, i - 1) /\ ParsersInv(l, i - 1) /\ ChannelsInv(l, i - 1)
      /\ e.source.is \in {"absent", "wrong", "use", "new"}
      /\ e.parser.is \in {"absent", "wrong", "use", "new"}
  BY DEF LoadInv, IsEntry
<1> HIDE DEF a, b
<1>3. /\ IsLoad(a) /\ SourcesInv(a, i) /\ KeepsParsers(l, a)
      /\ a.source = NoIndex \/ SourceIs(a, a.source, Definition(i, "source"))
  BY <1>1, <1>2, SourceStep DEF a
<1>4. \A k, d : ParserIs(l, k, d) => ParserIs(a, k, d)
  BY <1>3 DEF KeepsParsers, ParserIs
<1>5. ParsersInv(a, i - 1)
  BY <1>2, <1>3, <1>4 DEF ParsersInv, KeepsParsers
<1>6. ChannelsInv(a, i - 1)
  BY <1>2, <1>3, <1>4, ChannelsKept DEF KeepsParsers
<1>7. /\ IsLoad(b) /\ ParsersInv(b, i) /\ KeepsSources(a, b)
      /\ b.parser = NoIndex \/ ParserIs(b, b.parser, Definition(i, "parser"))
  BY <1>1, <1>2, <1>3, <1>5, ParserStep DEF b
<1>8. SourcesInv(b, i)
  BY <1>3, <1>7 DEF SourcesInv, KeepsSources, SourceIs
<1>9. ChannelsInv(b, i - 1)
  BY <1>6, <1>7, ChannelsKept DEF KeepsSources
<1>10. /\ IsLoad(w) /\ ChannelsInv(w, i)
       /\ w.sources = b.sources /\ w.sourceNames = b.sourceNames
       /\ w.sourceCount = b.sourceCount /\ w.parsers = b.parsers
       /\ w.parserNames = b.parserNames /\ w.parserCount = b.parserCount
  BY <1>1, <1>7, <1>9, ChannelStep
<1>11. SourcesInv(w, i) /\ ParsersInv(w, i)
  <2>1. \A k, d : (SourceIs(b, k, d) <=> SourceIs(w, k, d)) /\ (ParserIs(b, k, d) <=> ParserIs(w, k, d))
    BY <1>10 DEF ParserIs, SourceIs
  <2>2. SourcesInv(w, i)
    BY <1>8, <1>10, <2>1 DEF SourcesInv
  <2>3. ParsersInv(w, i)
    BY <1>7, <1>10, <2>1 DEF ParsersInv
  <2> QED
    BY <2>2, <2>3
<1> QED
  BY <1>10, <1>11 DEF LoadInv

\* A set of numbers that is not empty has a least one.
LEMMA LeastLemma ==
  ASSUME NEW T, T \subseteq Nat, T # {}
  PROVE  \E n \in T : \A w \in T : n <= w
<1> DEFINE Less == OpToRel(<, Nat)
<1>1. IsWellFoundedOn(Less, Nat)
  BY NatLessThanWellFounded
<1>2. \A x, y \in Nat : <<y, x>> \in Less <=> y < x
  BY DEF OpToRel
<1> HIDE DEF Less
<1>3. PICK x \in T : \A y \in T : ~ (<<y, x>> \in Less)
  BY <1>1, WFMin, Zenon
<1>4. ASSUME NEW y \in T PROVE x <= y
  <2>1. x \in Nat /\ y \in Nat /\ ~ (<<y, x>> \in Less)
    BY <1>3
  <2>2. ~ (y < x)
    BY <1>2, <2>1, Zenon
  <2> QED
    BY <2>1, <2>2
<1> QED
  BY <1>4

\* Induction over the numbers up to one, for a set.
LEMMA UpToLemma ==
  ASSUME NEW n \in Nat, NEW T, 0 \in T, \A i \in 1 .. n : i - 1 \in T => i \in T
  PROVE  \A i \in 0 .. n : i \in T
<1> DEFINE Missed == {i \in 0 .. n : i \notin T}
<1> SUFFICES ASSUME Missed # {} PROVE FALSE
  OBVIOUS
<1>1. PICK i \in Missed : \A w \in Missed : i <= w
  <2>1. Missed \subseteq Nat
    OBVIOUS
  <2> HIDE DEF Missed
  <2> QED
    BY <2>1, LeastLemma
<1>2. i \in 1 .. n /\ i - 1 \in 0 .. n
  BY <1>1
<1>3. i - 1 \in T
  BY <1>1, <1>2
<1> QED
  BY <1>1, <1>2, <1>3

\* A file without channels is refused; of others each channel is parsed after those before it.
LEMMA LoadedLemma ==
  ASSUME cfgFile \in ConfigFiles, LoadChannels(cfgFile).ok
  PROVE  LoadInv(LoadChannels(cfgFile), Len(cfgFile))
<1> DEFINE n == Len(cfgFile)
           After(l, i) == IF l.ok THEN ParseChannel(l, cfgFile[i]) ELSE l
           Fills(g, w) == g = [i \in 0 .. w |-> IF i = 0 THEN NothingLoaded ELSE After(g[i - 1], i)]
           f == CHOOSE g : Fills(g, n)
<1>1. /\ n \in Nat /\ DOMAIN cfgFile = 1 .. n /\ \A i \in 1 .. n : IsEntry(cfgFile[i])
  <2>1. cfgFile \in Seq({cfgFile[i] : i \in DOMAIN cfgFile})
    BY LinuxSensorsAssumption
  <2>2. \A i \in DOMAIN cfgFile : IsEntry(cfgFile[i])
    BY LinuxSensorsAssumption DEF IsEntry
  <2> QED
    BY <2>1, <2>2
<1>2. IsLoad(NothingLoaded) /\ NothingLoaded.ok /\ Failed(NothingLoaded).ok = FALSE
  BY DEF NothingLoaded, IsLoad, Failed
<1>3. cfgFile # << >> /\ LoadChannels(cfgFile) = f[n]
  BY <1>2 DEF LoadChannels
<1> HIDE DEF n
<1>4. \E g : Fills(g, n)
  <2> DEFINE T == {w \in 0 .. n : \E g : Fills(g, w)}
  <2>1. 0 \in T
    <3> DEFINE z == [i \in 0 .. 0 |-> NothingLoaded]
    <3>1. Fills(z, 0)
      OBVIOUS
    <3> HIDE DEF z, Fills
    <3> QED
      BY <1>1, <3>1
  <2>2. ASSUME NEW w \in 1 .. n, w - 1 \in T PROVE w \in T
    <3>1. PICK g : Fills(g, w - 1)
      BY <2>2
    <3> DEFINE h == [i \in 0 .. w |-> IF i = w THEN After(g[w - 1], w) ELSE g[i]]
    <3> HIDE DEF After
    <3>2. w \in Nat /\ w >= 1
      BY <1>1
    <3>3. ASSUME NEW i \in 0 .. w
          PROVE  h[i] = IF i = 0 THEN NothingLoaded ELSE After(h[i - 1], i)
      <4>1. CASE i = w
        BY <3>2, <4>1
      <4>2. CASE i # w
        <5>1. i \in 0 .. w - 1 /\ h[i] = g[i]
          BY <3>2, <4>2
        <5>2. i # 0 => i - 1 \in 0 .. w /\ h[i - 1] = g[i - 1]
          BY <3>2, <4>2
        <5> QED
          BY <3>1, <5>1, <5>2
      <4> QED
        BY <4>1, <4>2
    <3>4. Fills(h, w)
      BY <3>3
    <3> HIDE DEF h
    <3> QED
      BY <3>4
  <2> HIDE DEF T
  <2>3. n \in T
    <3>1. \A i \in 1 .. n : i - 1 \in T => i \in T
      BY <2>2
    <3>2. \A i \in 0 .. n : i \in T
      BY <1>1, <2>1, <3>1, UpToLemma, Zenon
    <3> QED
      BY <1>1, <3>2
  <2> QED
    BY <2>3 DEF T
<1>5. Fills(f, n)
  BY <1>4
<1> HIDE DEF f
<1>6. f[0] = NothingLoaded /\ \A i \in 1 .. n : f[i] = After(f[i - 1], i)
  BY <1>1, <1>5
<1>7. LoadInv(NothingLoaded, 0)
  <2>1. SourcesInv(NothingLoaded, 0)
    BY DEF NothingLoaded, SourcesInv
  <2>2. ParsersInv(NothingLoaded, 0)
    BY DEF NothingLoaded, ParsersInv
  <2>3. ChannelsInv(NothingLoaded, 0)
    BY DEF NothingLoaded, ChannelsInv
  <2> QED
    BY <1>2, <2>1, <2>2, <2>3 DEF LoadInv
<1>8. \A i \in 0 .. n : f[i].ok => LoadInv(f[i], i)
  <2> DEFINE T == {i \in 0 .. n : f[i].ok => LoadInv(f[i], i)}
  <2>1. 0 \in T
    BY <1>1, <1>6, <1>7
  <2>2. ASSUME NEW i \in 1 .. n, i - 1 \in T PROVE i \in T
    <3>1. i \in Nat \ {0} /\ i \in 0 .. n /\ IsEntry(cfgFile[i])
      BY <1>1
    <3>2. ASSUME f[i].ok PROVE LoadInv(f[i], i)
      <4>1. f[i] = After(f[i - 1], i)
        BY <1>6
      <4>2. f[i - 1].ok /\ f[i] = ParseChannel(f[i - 1], cfgFile[i])
        BY <3>2, <4>1
      <4>3. LoadInv(f[i - 1], i - 1)
        BY <2>2, <4>2
      <4> QED
        BY <3>1, <3>2, <4>2, <4>3, ParseStep
    <3> QED
      BY <3>1, <3>2
  <2> HIDE DEF T
  <2>3. \A i \in 1 .. n : i - 1 \in T => i \in T
    BY <2>2
  <2>4. \A i \in 0 .. n : i \in T
    BY <1>1, <2>1, <2>3, UpToLemma, Zenon
  <2> QED
    BY <2>4 DEF T
<1> QED
  BY <1>1, <1>3, <1>8 DEF n

\* A channel with a parser asks the source that its configuration names.
LEMMA FileOfLemma ==
  ASSUME cfgFile \in ConfigFiles, loaded = LoadChannels(cfgFile), loaded.ok, NEW c \in Parsed
  PROVE  LET ch == loaded.channels[c]
             source == loaded.sources[loaded.parsers[ch.parser].source]
         IN /\ ch.parser \in Parsers /\ ch.multiplier \in Int
            /\ source.file = FileOf(c).file /\ source.expires = FileOf(c).expires
            /\ ch.type \in NumberTypes \cup {"BinaryParsed", MeterParsed}
            /\ ch.type # MeterParsed => ch.key # NoKey
<1> DEFINE ch == loaded.channels[c]
           d == Definition(Definition(c, "parser"), "source")
<1>1. LoadInv(loaded, Len(cfgFile))
  BY LoadedLemma
<1>2. ch.parser # NoIndex /\ c \in DOMAIN loaded.channels
  BY DEF Parsed
<1>3. c \in 1 .. Len(cfgFile)
  <2>1. PICK S : loaded.channels \in Seq(S)
    BY <1>1 DEF LoadInv, ChannelsInv
  <2>2. Len(loaded.channels) = Len(cfgFile)
    BY <1>1 DEF LoadInv, ChannelsInv
  <2> QED
    BY <1>2, <2>1, <2>2
<1>4. IsRight(loaded, ch, c)
  BY <1>1, <1>3 DEF LoadInv, ChannelsInv
<1>5. ParserIs(loaded, ch.parser, Definition(c, "parser"))
  BY <1>2, <1>4 DEF IsRight
<1>6. /\ ch.parser \in Parsers
      /\ loaded.sources[loaded.parsers[ch.parser].source] = Entry(d)
  BY <1>5 DEF ParserIs, SourceIs, Parsers
<1>7. Entry(d).file = FileOf(c).file /\ Entry(d).expires = FileOf(c).expires
  BY DEF Entry, FileOf
<1> QED
  BY <1>2, <1>4, <1>6, <1>7 DEF IsRight

\* A parser that has been asked is valid only if it has understood what its source said then and
\* has its numbers, and it is valid if it has all that its channels ask for.
ReadInv(p) ==
  /\ valid[p] => Understood(p, said[p]) /\ read[p] = said[p].numbers
  /\ Understood(p, said[p]) /\ IsComplete(p, said) => valid[p]
ParsedInv ==
  /\ cfgFile \in ConfigFiles /\ loaded = LoadChannels(cfgFile)
  /\ valid \in [Parsers -> BOOLEAN] /\ DOMAIN read = Parsers /\ DOMAIN said = Parsers
  /\ DOMAIN parsedShown = DOMAIN loaded.channels
  /\ \A p \in Parsers : p \notin due => ReadInv(p)

\* A parser that is refreshed is valid iff it understands what it gets.
LEMMA RefreshedLemma ==
  ASSUME NEW p, NEW c
  PROVE  /\ Refreshed(p, c).valid = Understood(p, c)
         /\ Understood(p, c) => Refreshed(p, c).read = c.numbers
<1>1. c.text \/ ~c.text
  OBVIOUS
<1> QED
  BY <1>1, Zenon DEF Refreshed, RefreshedJson, RefreshedSimple, Understood

\* What a channel shows of a number; and of one that is not valid, that there is none.
LEMMA ShownLemma ==
  ASSUME NEW ch, ch.type \in NumberTypes \cup {"BinaryParsed", MeterParsed}, ch.multiplier \in Int,
         NEW number, NEW valued \in BOOLEAN
  PROVE  /\ valued => Shown(ch, number, valued) = Shown(ch, number, TRUE)
         /\ ~valued => Shown(ch, number, valued) = NotAvailable(ch.type)
         /\ ch.type = MeterParsed => Shown(ch, 0, valued) = NotAvailable(ch.type)
<1>1. valued = TRUE \/ valued = FALSE
  OBVIOUS
<1>2. CASE valued = TRUE
  <2>1. ch.type = MeterParsed => Shown(ch, 0, valued) = 0 * ch.multiplier
    BY <1>2 DEF Shown, Voltage, MeterParsed
  <2>2. 0 * ch.multiplier = 0
    OBVIOUS
  <2> QED
    BY <1>2, <2>1, <2>2 DEF NotAvailable, MeterParsed
<1>3. CASE valued = FALSE
  <2>1. ASSUME NEW x PROVE Shown(ch, x, FALSE) = NotAvailable(ch.type)
    <3>1. CASE ch.type = "ThermometerParsed"
      BY <3>1 DEF Shown, Temperature, NotAvailable, MeterParsed
    <3>2. CASE ch.type = "ImpulseCounterParsed"
      BY <3>2 DEF Shown, Counter, NotAvailable, MeterParsed
    <3>3. CASE ch.type = "BinaryParsed"
      BY <3>3 DEF Shown, State, NotAvailable, MeterParsed
    <3>4. CASE ch.type = MeterParsed
      BY <3>4 DEF Shown, Voltage, NotAvailable, MeterParsed
    <3> QED
      BY <3>1, <3>2, <3>3, <3>4 DEF NumberTypes
  <2> QED
    BY <1>3, <2>1
<1> QED
  BY <1>1, <1>2, <1>3

\* A poll shows what was said, and leaves a parser that is valid for good reason.
LEMMA PollStep ==
  ASSUME ParsedInv, NEW c \in Parsed, Poll(c)
  PROVE  PolledIsSaid(c) /\ ParsedInv'
<1> DEFINE ch == loaded.channels[c]
           p == ch.parser
           source == loaded.sources[loaded.parsers[p].source]
           got == GetContent(source.file, source.expires)
           now == IF p \in due THEN Refreshed(p, got) ELSE [valid |-> valid[p], read |-> read[p]]
           asked == p \notin due \/ now.valid
           isValid == now.valid /\ (asked /\ ch.key # NoKey => Has(now.read, ch.key))
           flag == IF ch.type = MeterParsed THEN asked ELSE isValid
           number == IF Has(now.read, ch.key) THEN now.read[ch.key + 1] ELSE 0
           understood == Understood(p, said'[p])
           numbers == said'[p].numbers
<1>1. /\ valid' = [valid EXCEPT ![p] = isValid] /\ read' = [read EXCEPT ![p] = now.read]
      /\ due' = due \ {p}
      /\ parsedShown' = [parsedShown EXCEPT ![c] = Shown(ch, number, flag)]
      /\ said' = IF p \in due
                 THEN [said EXCEPT ![p] = GetContent(FileOf(c).file, FileOf(c).expires)] ELSE said
      /\ UNCHANGED <<cfgFile, loaded>>
  BY Zenon DEF Poll
<1>2. loaded.ok
  BY DEF Poll
<1>3. /\ p \in Parsers /\ ch.multiplier \in Int
      /\ got = GetContent(FileOf(c).file, FileOf(c).expires)
      /\ ch.type \in NumberTypes \cup {"BinaryParsed", MeterParsed}
      /\ ch.type # MeterParsed => ch.key # NoKey
  BY <1>2, FileOfLemma DEF ParsedInv
<1>4. /\ valid \in [Parsers -> BOOLEAN] /\ DOMAIN said = Parsers /\ DOMAIN read = Parsers
      /\ DOMAIN parsedShown = DOMAIN loaded.channels
  BY DEF ParsedInv
<1> HIDE DEF p, got
<1>5. p \in due => said'[p] = got /\ said' = [said EXCEPT ![p] = got]
  BY <1>1, <1>3, <1>4
<1>6. p \notin due => said' = said
  BY <1>1
<1>7. p \in due => now.valid = understood /\ (understood => now.read = numbers)
  <2>1. Refreshed(p, got).valid = Understood(p, got)
    BY RefreshedLemma
  <2>2. Understood(p, got) => Refreshed(p, got).read = got.numbers
    BY RefreshedLemma
  <2>3. p \in due => now = Refreshed(p, got)
    OBVIOUS
  <2> HIDE DEF now
  <2> QED
    BY <1>5, <2>1, <2>2, <2>3
<1>8. p \notin due =>
        /\ now.valid => understood /\ now.read = numbers
        /\ understood /\ IsComplete(p, said') => now.valid
  <2>1. p \notin due => now.valid = valid[p] /\ now.read = read[p] /\ ReadInv(p)
    BY <1>3 DEF ParsedInv
  <2> QED
    BY <1>6, <2>1, Zenon DEF ReadInv
<1>9. now.valid \in BOOLEAN
  <2>1. CASE p \in due
    <3>1. understood \in BOOLEAN
      BY Zenon DEF Understood
    <3> QED
      BY <1>7, <2>1, <3>1, Zenon
  <2>2. CASE p \notin due
    BY <1>3, <1>4, <2>2
  <2> QED
    BY <2>1, <2>2
<1> HIDE DEF now
<1>10. isValid => understood /\ now.read = numbers /\ (ch.key # NoKey => Has(numbers, ch.key))
  <2>1. now.valid => understood /\ now.read = numbers
    BY <1>7, <1>8, Zenon
  <2> QED
    BY <2>1, Zenon
<1>11. understood /\ IsComplete(p, said') => isValid
  <2>1. IsComplete(p, said') => (ch.key # NoKey => Has(numbers, ch.key))
    BY Zenon DEF IsComplete, p
  <2>2. understood /\ IsComplete(p, said') => now.valid /\ now.read = numbers
    BY <1>7, <1>8, Zenon
  <2> QED
    BY <2>1, <2>2, Zenon
<1>12. isValid \in BOOLEAN /\ asked \in BOOLEAN
  <2>1. CASE now.valid = TRUE
    BY <2>1, Zenon
  <2>2. CASE now.valid = FALSE
    BY <2>2, Zenon
  <2> QED
    BY <1>9, <2>1, <2>2
<1>13. p \in due => (asked <=> understood) /\ (asked => now.read = numbers)
  BY <1>7, Zenon
<1> HIDE DEF isValid, asked, understood
<1>14. parsedShown'[c] = Shown(ch, number, flag)
  <2>1. c \in DOMAIN parsedShown
    BY <1>4 DEF Parsed
  <2> QED
    BY <1>1, <2>1
<1>15. PolledIsSaid(c)
  <2> DEFINE says == SaidTo(c, said')
             none == NotAvailable(ch.type)
  <2>1. /\ understood /\ Has(numbers, ch.key) => says = Shown(ch, numbers[ch.key + 1], TRUE)
        /\ ~(understood /\ Has(numbers, ch.key)) => says = none
    BY Zenon DEF SaidTo, understood, p
  <2>2. \A x : \A b \in BOOLEAN : /\ b => Shown(ch, x, b) = Shown(ch, x, TRUE)
                                  /\ ~b => Shown(ch, x, b) = none
                                  /\ ch.type = MeterParsed => Shown(ch, 0, b) = none
    BY <1>3, ShownLemma
  <2> HIDE DEF says, none
  <2>3. CASE ch.type # MeterParsed
    <3>1. flag = isValid
      BY <2>3
    <3>2. CASE isValid
      <4>1. number = numbers[ch.key + 1] /\ understood /\ Has(numbers, ch.key)
        BY <1>3, <1>10, <2>3, <3>2
      <4>2. parsedShown'[c] = says
        BY <1>12, <1>14, <2>1, <2>2, <3>1, <3>2, <4>1
      <4> QED
        BY <4>2, Zenon DEF PolledIsSaid, says
    <3>3. CASE ~isValid
      <4>1. parsedShown'[c] = none
        BY <1>12, <1>14, <2>2, <3>1, <3>3
      <4>2. IsComplete(p, said') => says = none
        BY <1>11, <2>1, <3>3
      <4> QED
        BY <4>1, <4>2, Zenon DEF PolledIsSaid, says, none, p
    <3> QED
      BY <3>2, <3>3
  <2>4. CASE ch.type = MeterParsed /\ p \in due
    <3>1. flag = asked
      BY <2>4
    <3>2. parsedShown'[c] = says
      <4>1. CASE asked /\ Has(numbers, ch.key)
        <5>1. number = numbers[ch.key + 1] /\ understood
          BY <1>13, <2>4, <4>1
        <5> QED
          BY <1>12, <1>14, <2>1, <2>2, <3>1, <4>1, <5>1
      <4>2. CASE asked /\ ~Has(numbers, ch.key)
        <5>1. number = 0
          BY <1>13, <2>4, <4>2
        <5> QED
          BY <1>12, <1>14, <2>1, <2>2, <2>4, <3>1, <4>2, <5>1
      <4>3. CASE ~asked
        BY <1>12, <1>13, <1>14, <2>1, <2>2, <2>4, <3>1, <4>3
      <4> QED
        BY <4>1, <4>2, <4>3
    <3> QED
      BY <3>2, Zenon DEF PolledIsSaid, says
  <2>5. CASE ch.type = MeterParsed /\ p \notin due
    BY <2>5, Zenon DEF PolledIsSaid, p
  <2> QED
    BY <2>3, <2>4, <2>5
<1>16. ParsedInv'
  <2>1. /\ cfgFile' \in ConfigFiles /\ loaded' = LoadChannels(cfgFile)' /\ Parsers' = Parsers
        /\ Parsed' = Parsed
    <3>1. cfgFile' \in ConfigFiles /\ loaded = LoadChannels(cfgFile)
      BY <1>1 DEF ParsedInv
    <3>2. cfgFile' = cfgFile /\ loaded' = loaded
      BY <1>1
    <3>3. loaded' = LoadChannels(cfgFile)'
      BY <3>1, <3>2 DEF LoadChannels
    <3> QED
      BY <3>1, <3>2, <3>3 DEF Parsers, Parsed
  <2>2. valid' \in [Parsers -> BOOLEAN] /\ DOMAIN read' = Parsers
    BY <1>1, <1>4, <1>12
  <2>3. DOMAIN said' = Parsers
    BY <1>4, <1>5, <1>6
  <2>4. DOMAIN parsedShown' = DOMAIN loaded'.channels
    BY <1>1, <1>4
  <2>5. valid'[p] = isValid /\ read'[p] = now.read
    BY <1>1, <1>3, <1>4
  <2>6. ASSUME NEW q \in Parsers, q \notin due' PROVE ReadInv(q)'
    <3>1. /\ (Understood(q, said[q]))' <=> Understood(q, said'[q])
          /\ IsComplete(q, said)' <=> IsComplete(q, said')
      BY <1>1, <2>1 DEF Understood, IsComplete
    <3>2. CASE q = p
      BY <1>10, <1>11, <2>5, <3>1, <3>2 DEF ReadInv, understood
    <3>3. CASE q # p
      <4>1. q \notin due /\ valid'[q] = valid[q] /\ read'[q] = read[q]
        BY <1>1, <1>4, <2>6, <3>3
      <4>2. said'[q] = said[q]
        BY <1>4, <1>5, <1>6, <3>3
      <4>3. ReadInv(q)
        BY <4>1 DEF ParsedInv
      <4>4. IsComplete(q, said') <=> IsComplete(q, said)
        BY <4>2 DEF IsComplete
      <4> QED
        BY <3>1, <4>1, <4>2, <4>3, <4>4 DEF ReadInv
    <3> QED
      BY <3>2, <3>3
  <2> QED
    BY <2>1, <2>2, <2>3, <2>4, <2>6 DEF ParsedInv
<1> QED
  BY <1>15, <1>16

\* Nothing but polls changes what was said and read; time only makes parsers due.
LEMMA ParsedStep == ParsedInv /\ [ParsedNext]_parsedVars => ParsedInv'
<1> SUFFICES ASSUME ParsedInv, [ParsedNext]_parsedVars PROVE ParsedInv'
  OBVIOUS
<1>1. ASSUME NEW c \in Parsed, Poll(c) PROVE ParsedInv'
  BY <1>1, PollStep
<1>2. ASSUME cfgFile' = cfgFile, loaded' = loaded, valid' = valid, read' = read, said' = said,
             parsedShown' = parsedShown, due \subseteq due'
      PROVE  ParsedInv'
  <2>1. cfgFile \in ConfigFiles /\ loaded = LoadChannels(cfgFile)
    BY DEF ParsedInv
  <2>2. loaded' = LoadChannels(cfgFile)'
    BY <1>2, <2>1 DEF LoadChannels
  <2>3. Parsers' = Parsers /\ Parsed' = Parsed
    BY <1>2 DEF Parsers, Parsed
  <2>4. ASSUME NEW p \in Parsers, p \notin due' PROVE ReadInv(p)'
    <3>1. ReadInv(p)
      BY <1>2, <2>4 DEF ParsedInv
    <3>2. /\ Understood(p, said[p])' <=> Understood(p, said[p])
          /\ IsComplete(p, said)' <=> IsComplete(p, said)
      BY <1>2, <2>3 DEF Understood, IsComplete
    <3> QED
      BY <1>2, <3>1, <3>2 DEF ReadInv
  <2> QED
    BY <1>2, <2>1, <2>2, <2>3, <2>4 DEF ParsedInv
<1>3. ASSUME NEW p \in Parsers, RefreshTimePasses(p) PROVE ParsedInv'
  BY <1>2, <1>3 DEF RefreshTimePasses
<1>4. ASSUME NEW f \in FileNames, Expires(f) PROVE ParsedInv'
  BY <1>2, <1>4 DEF Expires
<1>5. ASSUME NEW f \in FileNames, NEW c \in Contents, Write(f, c) PROVE ParsedInv'
  BY <1>2, <1>5 DEF Write
<1>6. CASE UNCHANGED parsedVars
  BY <1>2, <1>6 DEF parsedVars
<1> QED
  BY <1>1, <1>3, <1>4, <1>5, <1>6 DEF ParsedNext

\* A device starts with parsers that were not asked.
LEMMA ParsedStarts == ParsedInit => ParsedInv
<1> SUFFICES ASSUME ParsedInit PROVE ParsedInv
  OBVIOUS
<1>1. cfgFile \in ConfigFiles /\ loaded = LoadChannels(cfgFile) /\ due = Parsers
  BY DEF ParsedInit
<1>2. valid \in [Parsers -> BOOLEAN] /\ DOMAIN read = Parsers /\ DOMAIN said = Parsers
  BY DEF ParsedInit
<1>3. DOMAIN parsedShown = DOMAIN loaded.channels
  BY DEF ParsedInit
<1> QED
  BY <1>1, <1>2, <1>3 DEF ParsedInv

-----------------------------------------------------------------------------
(***************************************************************************)
(* The elements together.                                                  *)
(***************************************************************************)

\* Each of them starts as it does alone.
LEMMA StartsLemma ==
  Init => /\ TriggerInit /\ TriggerChannelInit /\ SequenceInit /\ ChannelInit /\ RelayInit
          /\ RgbwInit /\ FadeInit /\ SensorInit /\ MeterInit /\ PvInit /\ ParsedInit
BY DEF Init

\* A step of the device is a step of each element, or leaves it as it is.
LEMMA MovesLemma ==
  [Next]_vars =>
    /\ [TriggerNext]_triggerAndButtonVars /\ [TriggerChannelNext]_triggerChannelVars
    /\ [SequenceNext]_sequenceVars /\ [ChannelNext]_channelVars /\ [RelayNext]_relayVars
    /\ [RgbwNext]_rgbwVars /\ [FadeNext]_fadeVars /\ [SensorNext]_sensorVars
    /\ [MeterNext]_meterVars /\ [PvNext]_pvVars /\ [ParsedNext]_parsedVars
<1>1. ASSUME UNCHANGED vars
      PROVE  UNCHANGED <<moving, triggerAndButtonVars, channelVars, relayVars, rgbwVars, sensorVars,
                         meterVars, pvVars, parsedVars, sequenceVars, fadeVars, triggerChannelVars>>
  BY <1>1 DEF vars
<1>2. ASSUME Next
      PROVE  /\ TriggerNext \/ UNCHANGED triggerAndButtonVars
             /\ TriggerChannelNext \/ UNCHANGED triggerChannelVars
             /\ SequenceNext \/ UNCHANGED sequenceVars
             /\ ChannelNext \/ UNCHANGED channelVars
             /\ RelayNext \/ UNCHANGED relayVars
             /\ RgbwNext \/ UNCHANGED rgbwVars
             /\ FadeNext \/ UNCHANGED fadeVars
             /\ SensorNext \/ UNCHANGED sensorVars
             /\ MeterNext \/ UNCHANGED meterVars
             /\ PvNext \/ UNCHANGED pvVars
             /\ ParsedNext \/ UNCHANGED parsedVars
  BY <1>2 DEF Next
<1> QED
  BY <1>1, <1>2

\* A button with an action trigger is a button.
LEMMA ButtonLemma ==
  /\ TriggerInit => ButtonInit
  /\ [TriggerNext]_triggerAndButtonVars => [ButtonNext]_buttonVars
<1>1. TriggerInit => ButtonInit
  BY DEF TriggerInit
<1>2. TriggerNext => ButtonNext \/ UNCHANGED buttonVars
  BY DEF TriggerNext, TriggerOnTimer, HandleChannelConfig, ButtonNext
<1>3. UNCHANGED triggerAndButtonVars => UNCHANGED buttonVars
  BY DEF triggerAndButtonVars
<1> QED
  BY <1>1, <1>2, <1>3

\* What a device does with its elements is, of each of the eleven, something that it also does
\* alone: the main loop and the timers move them, and they share nothing.
THEOREM ElementsAreTheirOwn ==
  Spec => /\ ButtonSpec /\ TriggerSpec /\ TriggerChannelSpec /\ ChannelFairSpec /\ RelaySpec
          /\ RgbwSpec /\ SensorSpec
          /\ SequenceInit /\ [][SequenceNext]_sequenceVars
          /\ FadeInit /\ [][FadeNext]_fadeVars
          /\ MeterInit /\ [][MeterNext]_meterVars
          /\ PvInit /\ [][PvNext]_pvVars
          /\ ParsedInit /\ [][ParsedNext]_parsedVars
<1> DEFINE Scheduled == ChannelFairness
<1>1. Spec => Init /\ [][Next]_vars /\ Scheduled
  BY DEF Spec
<1> HIDE DEF Scheduled
<1>2. Spec => /\ ButtonInit /\ [][ButtonNext]_buttonVars
              /\ TriggerInit /\ [][TriggerNext]_triggerAndButtonVars
              /\ TriggerChannelInit /\ [][TriggerChannelNext]_triggerChannelVars
              /\ ChannelInit /\ [][ChannelNext]_channelVars /\ Scheduled
              /\ RelayInit /\ [][RelayNext]_relayVars
              /\ RgbwInit /\ [][RgbwNext]_rgbwVars
              /\ SensorInit /\ [][SensorNext]_sensorVars
  BY <1>1, StartsLemma, MovesLemma, ButtonLemma, PTL
<1>3. Spec => /\ SequenceInit /\ [][SequenceNext]_sequenceVars
              /\ FadeInit /\ [][FadeNext]_fadeVars
              /\ MeterInit /\ [][MeterNext]_meterVars
              /\ PvInit /\ [][PvNext]_pvVars
              /\ ParsedInit /\ [][ParsedNext]_parsedVars
  BY <1>1, StartsLemma, MovesLemma, PTL
<1> QED
  BY <1>2, <1>3 DEF ButtonSpec, TriggerSpec, TriggerChannelSpec, ChannelFairSpec, ChannelSpec,
     RelaySpec, RgbwSpec, SensorSpec, Scheduled

\* What the server knows of the channels is what they are, and it is told each gesture but those
\* that the timer pushed while the loop took another off the queue.
THEOREM ServerKnowsTheDevice == Spec => []ServerKnows
<1>1. ChannelSpec => []ServerIsCurrent
  BY ValuesReachTheServer
<1>2. TriggerChannelSpec => []ActionsAreTold
  BY GesturesReachTheServer
<1>3. ServerIsCurrent /\ ActionsAreTold => ServerKnows
  BY DEF ServerKnows
<1>4. Spec => ChannelSpec /\ TriggerChannelSpec
  BY ElementsAreTheirOwn DEF ChannelFairSpec
<1> QED
  BY <1>1, <1>2, <1>3, <1>4, PTL

\* A light remembers its brightness, the server knows it, and the lamp comes to it within
\* SettleTime, which takes each look at the clock as late as the longest delay allows.
THEOREM LightsAreKept == Spec => []LightsAreRight
<1>1. Init => BrightnessInv /\ FadeInv
  BY StartsLemma, BrightnessStarts, FadeStarts
<1>2. BrightnessInv /\ FadeInv /\ [Next]_vars => (BrightnessInv /\ FadeInv)'
  BY MovesLemma, BrightnessStep, FadeStep
<1>3. BrightnessInv /\ FadeInv => LightsAreRight
  BY FadeIsThere DEF BrightnessInv, LightsAreRight
<1> QED
  BY <1>1, <1>2, <1>3, PTL DEF Spec

\* What sensors, meters and inverters show is what they were answered, with the exceptions that
\* ReadingsAreShown names, and what a button with a sequence reads out of the presses is their
\* rhythm.
THEOREM ReadingsAreTrue == Spec => []ReadingsAreShown
<1> DEFINE AllInv == HeardInv /\ MeterInv /\ PvInv
<1>1. Init => AllInv
  BY StartsLemma, SequenceStarts, MeterStarts, PvStarts
<1>2. AllInv /\ [Next]_vars => AllInv'
  BY MovesLemma, SequenceStep, MeterStep, PvStep
<1>3. SensorSpec => []ReadingIsHonest
  BY SensorsAreHonest
<1>4. AllInv /\ ReadingIsHonest => ReadingsAreShown
  BY PvIsShown, MeterIsShown DEF HeardInv, ReadingsAreShown
<1> HIDE DEF AllInv
<1> QED
  BY <1>1, <1>2, <1>3, <1>4, ElementsAreTheirOwn, PTL DEF Spec

\* What every element keeps has its type.  Some types need more than themselves: how often a
\* local action ran within a gesture, what popAction() and pushAction() have read, when a lit lamp
\* is looked at again, the line an inverter has read in part, and the invariants of what buttons
\* hear, how lamps move and what comes from an inverter.
THEOREM ElementsAreTyped == Spec => []ControlsTypeOK
<1> DEFINE Types == /\ TriggerTypes /\ TriggerChannelTypes /\ HeardInv /\ SequenceTypeOK
                    /\ ChannelTypeOK /\ RelayTypes /\ RgbwTypeOK /\ FadeInv /\ FadeTypeOK
                    /\ SensorTypeOK /\ MeterTypeOK /\ PvInv /\ PvTypes /\ LinuxTypes
<1>1. Init => Types
  BY StartsLemma, TriggerTypesStart, TriggerChannelTypesStart, SequenceStarts, SequenceTypesStart,
     ChannelTypesStart, RelayTypesStart, RgbwTypesStart, FadeStarts, FadeTypesStart,
     SensorTypesStart, MeterTypesStart, PvStarts, PvTypesStart, LinuxTypesStart
<1>2. Types /\ [Next]_vars => Types'
  <2> SUFFICES ASSUME Types, [Next]_vars PROVE Types'
    OBVIOUS
  <2>1. TriggerTypes' /\ TriggerChannelTypes'
    BY MovesLemma, TriggerTypesStep, TriggerChannelTypesStep
  <2>2. HeardInv' /\ SequenceTypeOK'
    BY MovesLemma, SequenceStep, SequenceTypesStep
  <2>3. ChannelTypeOK' /\ RelayTypes' /\ RgbwTypeOK'
    BY MovesLemma, ChannelTypeStep, RelayTypesStep, RgbwTypesStep
  <2>4. FadeInv' /\ FadeTypeOK'
    BY MovesLemma, FadeStep, FadeTypesStep
  <2>5. SensorTypeOK' /\ MeterTypeOK'
    BY MovesLemma, SensorTypesStep, MeterTypesStep
  <2>6. PvInv'
    BY MovesLemma, PvStep
  <2>7. PvTypes'
    BY <2>6, MovesLemma, PvTypesStep
  <2>8. LinuxTypes'
    BY MovesLemma, LinuxTypesStep
  <2> QED
    BY <2>1, <2>2, <2>3, <2>4, <2>5, <2>6, <2>7, <2>8
<1>3. Init => moving \in Elements
  BY DEF Init
<1>4. moving \in Elements /\ [Next]_vars => (moving \in Elements)'
  BY DEF Next, vars
<1>5. moving \in Elements /\ Types => ControlsTypeOK
  BY Zenon DEF Elements, ControlsTypeOK, TriggerTypes, TriggerChannelTypes, RelayTypes, PvTypes,
            LinuxTypes
<1> HIDE DEF Types
<1> QED
  BY <1>1, <1>2, <1>3, <1>4, <1>5, PTL DEF Spec

\* A channel of a Linux device shows what the source that the configuration names for it said when
\* it was last asked, or nothing: for every configuration file, whatever names it gives again.
THEOREM ChannelsShowTheirSource == Spec => ParsedIsSaid
<1>1. Init => ParsedInv
  BY StartsLemma, ParsedStarts
<1>2. ParsedInv /\ [Next]_vars => ParsedInv'
  BY MovesLemma, ParsedStep
<1>3. ParsedInv /\ [Next]_vars => [\A c \in Parsed : Poll(c) => PolledIsSaid(c)]_parsedVars
  BY PollStep
<1> QED
  BY <1>1, <1>2, <1>3, PTL DEF Spec, ParsedIsSaid
=============================================================================
