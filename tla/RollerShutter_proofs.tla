------------------------ MODULE RollerShutter_proofs ------------------------
(***************************************************************************)
(* Proofs about RollerShutter, for every choice of times and positions     *)
(* that satisfies its assumptions.                                         *)
(***************************************************************************)
EXTENDS RollerShutter, TLAPS

USE TimesAssumption, PositionsAssumption

-----------------------------------------------------------------------------
(***************************************************************************)
(* The inductive invariant.                                                *)
(***************************************************************************)

\* A motor on relays keeps its pin on; pulses are the only other use of the pins.
PinsInv ==
  /\ variant = "direct" => ~activeBiRelay /\ relays = {currentDirection} \ {"STOP"}
  /\ variant # "direct" => (activeBiRelay <=> relays # {})

\* Whatever switches a pin off starts the pause with it.
RestInv == offAge >= pauseAge

\* Between its two writes a command has a calibration running, or just missed it.
AskedInv == writes = "position" => calibrate \/ missed

IInv == TypeOK /\ PinsInv /\ RestInv /\ AskedInv /\ MotorFollows

\* What the relays and pauses mean for one step.
Rested ==
  relays' # {} /\ relays' # relays =>
    relays = {} /\ offAge >= Pause /\ \E pin \in Directions : relays' = {pin}

PinsTypeOK ==
  /\ toggleAge' \in 0 .. PulseTime + 1 /\ offAge' \in 0 .. Pause
  /\ relays' \subseteq Directions /\ activeBiRelay' \in BOOLEAN /\ motor' \in Directions
-----------------------------------------------------------------------------
\* A share of a distance is not more than the distance.
LEMMA ShareLemma ==
  ASSUME NEW distance \in Nat, NEW time \in Nat \ {0}, NEW done \in 0 .. time
  PROVE  (distance * done) \div time \in 0 .. distance
<1> DEFINE product == distance * done  share == product \div time  rest == product % time
<1>1. product \in Nat /\ product <= distance * time
  <2>1. distance * (time - done) >= 0 /\ distance * (time - done) = distance * time - product
    BY SMT
  <2> QED
    BY <2>1, SMT
<1>2. share \in Int /\ rest \in 0 .. time - 1 /\ product = time * share + rest
  BY <1>1, SMT
<1> HIDE DEF product, share, rest
<1>3. share >= 0
  <2>1. SUFFICES ASSUME share <= -1 PROVE FALSE
    BY <1>2, SMT
  <2>2. time * share <= time * (-1)
    BY <1>2, <2>1, SMT
  <2> QED
    BY <1>1, <1>2, <2>2, SMT
<1>4. share <= distance
  <2>1. SUFFICES ASSUME share >= distance + 1 PROVE FALSE
    BY <1>2, SMT
  <2>2. time * share >= time * (distance + 1)
    BY <1>2, <2>1, SMT
  <2>3. time * (distance + 1) = distance * time + time
    BY SMT
  <2> QED
    BY <1>1, <1>2, <2>2, <2>3, SMT
<1> QED
  BY <1>2, <1>3, <1>4, SMT DEF share, product

\* The position followed by onTimer() stays within 0 and Full, however travel times and stamps
\* are rounded; only one that starts from an unknown position is unknown at first.
LEMMA PositionLemma ==
  ASSUME TypeOK
  PROVE  PositionNow \in {UNKNOWN_POSITION} \cup 0 .. Full
<1> DEFINE start == lastPositionBeforeMovement
           up == (openingTime * start) \div Full
           down == (closingTime * (Full - start)) \div Full
           way == ((Full - start) * moveAge) \div down
<1>1. start \in -1 .. Full /\ currentPosition \in -1 .. Full
  BY DEF TypeOK, UNKNOWN_POSITION
<1>2. openingTime \in Nat /\ closingTime \in Nat /\ moveAge \in Nat
  BY DEF TypeOK
<1>3. up \in Int /\ down \in Int
  BY <1>1, <1>2, SMT
<1>4. ASSUME moveAge < up PROVE start >= 0
  <2>1. SUFFICES ASSUME start = -1 PROVE FALSE
    BY <1>1
  <2>2. up = (openingTime * (-1)) \div Full /\ openingTime * (-1) <= 0
    BY <1>2, <2>1, SMT
  <2>3. up <= 0
    BY <2>2, <1>2, SMT
  <2> QED
    BY <1>2, <1>3, <1>4, <2>3, SMT
<1> HIDE DEF up, down, way
<1>5. ASSUME moveAge < up PROVE (start * (up - moveAge)) \div up \in 0 .. start
  BY <1>1, <1>2, <1>3, <1>4, <1>5, ShareLemma, SMT
<1>6. ASSUME moveAge < down PROVE way \in 0 .. Full - start
  <2>1. Full - start \in Nat /\ down \in Nat \ {0} /\ moveAge \in 0 .. down
    BY <1>1, <1>2, <1>3, <1>6, SMT
  <2> QED
    BY <2>1, ShareLemma DEF way
<1> HIDE DEF start
<1>7. CASE currentDirection = "UP" /\ currentPosition > 0
  <2>1. PositionNow = IF moveAge >= up THEN 0 ELSE (start * (up - moveAge)) \div up
    BY <1>7 DEF PositionNow, start, up
  <2> QED
    BY <2>1, <1>1, <1>2, <1>3, <1>5, SMT
<1>8. CASE currentDirection = "DOWN" /\ currentPosition < Full
  <2>1. PositionNow = IF moveAge >= down THEN Full
                      ELSE IF moveAge > 0 /\ start + way < 0 THEN 0 ELSE start + way
    BY <1>8 DEF PositionNow, start, down, way
  <2>2. ASSUME moveAge < down PROVE start + way \in -1 .. Full
    BY <2>2, <1>1, <1>6, SMT
  <2> QED
    BY <2>1, <2>2, <1>2, <1>3, SMT DEF UNKNOWN_POSITION
<1>9. CASE ~(currentDirection = "UP" /\ currentPosition > 0)
           /\ ~(currentDirection = "DOWN" /\ currentPosition < Full)
  BY <1>9 DEF PositionNow, TypeOK
<1> QED
  BY <1>7, <1>8, <1>9
-----------------------------------------------------------------------------
(***************************************************************************)
(* What the three ways to touch the pins do, in each class.                *)
(***************************************************************************)

\* A movement starts from rest, with pins off, and only the pin of its direction goes on.
LEMMA StartLemma ==
  ASSUME IInv, Awake, ~Moving, NEW direction \in {"UP", "DOWN"}, Start(direction), UNCHANGED <<variant, pauseAge>>
  PROVE  PinsTypeOK /\ PinsInv' /\ RestInv' /\ MotorFollows' /\ Rested
         /\ currentDirection' \in Directions
<1>1. relays = {} /\ currentDirection = "STOP" /\ motor = "STOP"
  BY DEF IInv, PinsInv, Awake, PulseActive, Moving, MotorFollows
<1>2. relays' = {direction} /\ offAge' = offAge /\ currentDirection' = direction
  BY <1>1 DEF Start, SwitchOn
<1>3. motor' = direction
  BY <1>1 DEF Start, SwitchOn, MotorAfter
<1>4. PinsTypeOK /\ currentDirection' \in Directions
  <2>1. offAge' \in 0 .. Pause /\ relays' \subseteq Directions /\ motor' \in Directions
        /\ currentDirection' \in Directions
    BY <1>2, <1>3 DEF IInv, TypeOK, Directions
  <2>2. toggleAge' \in 0 .. PulseTime + 1
    BY DEF IInv, TypeOK, Start, SwitchOn
  <2>3. activeBiRelay' \in BOOLEAN
    BY DEF IInv, TypeOK, Start, SwitchOn
  <2> QED
    BY <2>1, <2>2, <2>3 DEF PinsTypeOK
<1>5. PinsInv'
  BY <1>1, <1>2 DEF PinsInv, IInv, Start, SwitchOn
<1>6. offAge >= Pause
  BY DEF IInv, TypeOK, RestInv, Awake
<1> QED
  BY <1>1, <1>2, <1>3, <1>4, <1>5, <1>6 DEF RestInv, IInv, MotorFollows, Rested, Directions

\* A stop starts the pause, and is a pin off or a pulse of one pin, as the class has it.
LEMMA StopLemma ==
  ASSUME IInv, Awake, StopMovement, UNCHANGED variant
  PROVE  PinsTypeOK /\ PinsInv' /\ RestInv' /\ MotorFollows' /\ Rested
         /\ currentDirection' = "STOP" /\ pauseAge' = 0
<1>1. currentDirection' = "STOP" /\ pauseAge' = 0 /\ StopPins
  BY DEF StopMovement
<1>2. TypeOK /\ PinsInv /\ motor = currentDirection /\ variant \in {"direct", "bistable", "tripple"}
  BY DEF IInv, TypeOK, MotorFollows
<1>3. offAge >= Pause /\ ~activeBiRelay
  BY DEF IInv, TypeOK, RestInv, Awake, PulseActive
<1>4. CASE variant = "direct"
  <2>1. SwitchOffRelays
    BY <1>1, <1>4 DEF StopPins
  <2>2. offAge' \in 0 .. Pause /\ offAge' >= 0
    BY <1>2, <2>1 DEF SwitchOffRelays, TypeOK
  <2>3. relays' = {} /\ motor' = "STOP" /\ activeBiRelay' = FALSE /\ toggleAge' = toggleAge
    BY <1>4, <2>1 DEF SwitchOffRelays
  <2> QED
    BY <1>1, <1>2, <1>4, <2>2, <2>3
    DEF TypeOK, PinsTypeOK, PinsInv, RestInv, MotorFollows, Rested, Directions
<1>5. CASE variant = "tripple"
  <2>1. SwitchOn("STOP", {}) /\ relays = {}
    BY <1>1, <1>2, <1>3, <1>5 DEF StopPins, PinsInv
  <2>2. relays' = {"STOP"} /\ offAge' = offAge /\ motor' = "STOP" /\ activeBiRelay' = TRUE
    BY <2>1, <1>5 DEF SwitchOn, MotorAfter
  <2> QED
    BY <1>1, <1>2, <1>3, <1>5, <2>1, <2>2
    DEF SwitchOn, TypeOK, PinsTypeOK, PinsInv, RestInv, MotorFollows, Rested, Directions
<1>6. CASE variant = "bistable" /\ Moving
  <2>1. SwitchOn(currentDirection, {}) /\ relays = {} /\ motor # "STOP"
    BY <1>1, <1>2, <1>3, <1>6 DEF StopPins, PinsInv, Moving
  <2>2. relays' = {currentDirection} /\ offAge' = offAge /\ motor' = "STOP" /\ activeBiRelay' = TRUE
    BY <2>1, <1>6 DEF SwitchOn, MotorAfter
  <2> QED
    BY <1>1, <1>2, <1>3, <1>6, <2>1, <2>2
    DEF SwitchOn, TypeOK, PinsTypeOK, PinsInv, RestInv, MotorFollows, Rested, Directions
<1>7. CASE variant = "bistable" /\ ~Moving
  <2>1. UNCHANGED pins
    BY <1>1, <1>7 DEF StopPins
  <2> QED
    BY <1>1, <1>2, <1>3, <1>7, <2>1
    DEF pins, TypeOK, PinsTypeOK, PinsInv, RestInv, MotorFollows, Rested, Moving, Directions
<1> QED
  BY <1>2, <1>4, <1>5, <1>6, <1>7

\* A step that leaves pins, pause and direction alone keeps what is said about them.
LEMMA StillLemma ==
  ASSUME IInv, KeepStill, UNCHANGED variant
  PROVE  PinsTypeOK /\ PinsInv' /\ RestInv' /\ MotorFollows' /\ Rested
         /\ currentDirection' = currentDirection /\ pauseAge' = pauseAge
BY DEF IInv, TypeOK, KeepStill, pins, PinsTypeOK, PinsInv, RestInv, MotorFollows, Rested
-----------------------------------------------------------------------------
(***************************************************************************)
(* The invariant is inductive: the initial state, the main loop, the timer *)
(* and the clock.                                                          *)
(***************************************************************************)

\* Constructor, onLoadState() and onInit() leave the shutter still and off.
LEMMA InitIInv == Init => IInv
<1> SUFFICES ASSUME Init PROVE IInv
  OBVIOUS
<1>1. /\ calibrate \in BOOLEAN /\ missed \in BOOLEAN /\ writes \in Writes
      /\ ~calibrate => currentPosition # UNKNOWN_POSITION
  BY DEF Init, Writes
<1>2. TypeOK
  <2>1. moveAge \in 0 .. AgeCap /\ toggleAge \in 0 .. PulseTime + 1 /\ pauseAge \in 0 .. Pause
        /\ offAge \in 0 .. Pause
    BY DEF Init
  <2>2. targetPosition \in Targets /\ wanted \in Targets /\ request = None
    BY DEF Init, Targets
  <2>3. currentDirection \in Directions /\ lastDirection \in Directions /\ motor \in Directions
        /\ relays \subseteq Directions
    BY DEF Init, Directions
  <2> QED
    BY <1>1, <2>1, <2>2, <2>3 DEF Init, TypeOK
<1>3. PinsInv /\ RestInv /\ AskedInv /\ MotorFollows
  BY DEF Init, PinsInv, RestInv, AskedInv, MotorFollows, Moving
<1> QED
  BY <1>2, <1>3 DEF IInv

\* What an action asks for is a target.
LEMMA TargetsLemma ==
  ASSUME NEW action \in Actions
  PROVE  TargetsOf(action) \subseteq Targets
<1>1. Full \in Targets /\ 0 \in Targets /\ Comfort \subseteq Targets
  BY DEF Targets
<1>2. {STOP_POSITION, MOVE_UP_POSITION, MOVE_DOWN_POSITION} \subseteq Targets
  BY DEF Targets
<1>3. StepByStep \in {Full, 0}
  BY DEF StepByStep
<1> QED
  BY <1>1, <1>2, <1>3 DEF TargetsOf, Actions, OrStop

\* Commands and new travel times leave motor and pins to the timer.
LEMMA MainLoopStep == ASSUME IInv, MainLoop PROVE IInv' /\ Rested
<1> USE DEF IInv
<1>1. CASE \E closing, opening \in TravelTimes \cup {0}, task \in Targets :
             HandleNewValueFromServer(closing, opening, task)
  <2> PICK closing \in TravelTimes \cup {0}, opening \in TravelTimes \cup {0}, task \in Targets :
         HandleNewValueFromServer(closing, opening, task)
    BY <1>1
  <2>1. openingTime' \in TravelTimes /\ closingTime' \in TravelTimes
    BY DEF HandleNewValueFromServer, NewTimes, TypeOK
  <2>2. writes' \in {"calibrate", "target"}
    BY DEF HandleNewValueFromServer
  <2>3. TypeOK'
    BY <2>1, <2>2 DEF HandleNewValueFromServer, TypeOK, target, run, place, pins, Writes
  <2>4. PinsInv' /\ RestInv' /\ AskedInv' /\ MotorFollows' /\ Rested
    BY <2>2 DEF HandleNewValueFromServer, PinsInv, RestInv, AskedInv, MotorFollows,
                Rested, run, pins
  <2> QED
    BY <2>3, <2>4
<1>2. CASE \E action \in Actions : HandleAction(action)
  <2> PICK action \in Actions : HandleAction(action)
    BY <1>2
  <2>1. request' \in Targets
    BY TargetsLemma DEF HandleAction, Targets
  <2>2. newTargetPositionAvailable' \in BOOLEAN
    BY DEF HandleAction
  <2>3. TypeOK'
    BY <2>1, <2>2 DEF HandleAction, TypeOK, settings, run, place, pins
  <2>4. PinsInv' /\ RestInv' /\ AskedInv' /\ MotorFollows' /\ Rested
    BY DEF HandleAction, PinsInv, RestInv, AskedInv, MotorFollows,
           Rested, settings, run, place, pins
  <2> QED
    BY <2>3, <2>4
<1>3. CASE WriteTarget
  <2>1. TypeOK'
    BY <1>3 DEF WriteTarget, TypeOK, settings, run, place, pins, Writes
  <2>2. PinsInv' /\ RestInv' /\ AskedInv' /\ MotorFollows' /\ Rested
    BY <1>3 DEF WriteTarget, PinsInv, RestInv, AskedInv, MotorFollows,
                Rested, settings, run, place, pins
  <2> QED
    BY <2>1, <2>2
<1>4. CASE AnnounceTarget
  <2>1. lastDirection' \in Directions
    BY <1>4 DEF AnnounceTarget, DirectionOf, Directions, TypeOK
  <2>2. TypeOK'
    BY <1>4, <2>1 DEF AnnounceTarget, TypeOK, settings, run, place, pins, Writes
  <2>3. PinsInv' /\ RestInv' /\ AskedInv' /\ MotorFollows' /\ Rested
    BY <1>4 DEF AnnounceTarget, PinsInv, RestInv, AskedInv, MotorFollows,
                Rested, settings, run, place, pins
  <2> QED
    BY <2>2, <2>3
<1>5. CASE AskForCalibration
  <2>1. calibrate' = TRUE /\ missed' = FALSE
    BY <1>5 DEF AskForCalibration, CalibrateAgain
  <2>2. TypeOK'
    BY <1>5, <2>1 DEF AskForCalibration, TypeOK, settings, target, run, pins, Writes
  <2>3. PinsInv' /\ RestInv' /\ AskedInv' /\ MotorFollows' /\ Rested
    BY <1>5, <2>1 DEF AskForCalibration, PinsInv, RestInv, AskedInv, MotorFollows,
                      Rested, settings, run, pins
  <2> QED
    BY <2>2, <2>3
<1>6. CASE ForgetPosition
  <2>1. currentPosition' = UNKNOWN_POSITION /\ (calibrate' \/ missed')
    BY <1>6 DEF ForgetPosition, AskedInv
  <2>2. TypeOK'
    BY <1>6, <2>1 DEF ForgetPosition, TypeOK, settings, target, run, pins, Writes
  <2>3. PinsInv' /\ RestInv' /\ AskedInv' /\ MotorFollows' /\ Rested
    BY <1>6 DEF ForgetPosition, PinsInv, RestInv, AskedInv, MotorFollows,
                Rested, settings, run, pins
  <2> QED
    BY <2>2, <2>3
<1> QED
  BY <1>1, <1>2, <1>3, <1>4, <1>5, <1>6 DEF MainLoop, HandOver

\* Each case of onTimer() works on pins that have rested, and gives them a new rest.
LEMMA TimerStep == ASSUME IInv, OnTimer PROVE IInv' /\ Rested
<1> DEFINE Settled == PinsTypeOK /\ PinsInv' /\ RestInv' /\ MotorFollows' /\ Rested
                      /\ currentDirection' \in Directions /\ pauseAge' \in 0 .. Pause
           Typed == /\ calibrate' \in BOOLEAN /\ newTargetPositionAvailable' \in BOOLEAN
                    /\ lastDirection' \in Directions /\ targetPosition' \in Targets
                    /\ currentPosition' \in {UNKNOWN_POSITION} \cup 0 .. Full
                    /\ lastPositionBeforeMovement' \in {UNKNOWN_POSITION} \cup 0 .. Full
                    /\ missed' \in BOOLEAN
                    /\ ~calibrate' /\ currentPosition' = UNKNOWN_POSITION => missed'
                    /\ moveAge' \in 0 .. AgeCap
                    /\ calibrationTime' \in {0} \cup {t + CalibrationExtra : t \in TravelTimes}
                    /\ operationTimeout' \in {0, OperationTimeout}
<1>1. /\ variant' = variant /\ variant \in Variants /\ writes' = writes
      /\ openingTime' \in TravelTimes /\ closingTime' \in TravelTimes
      /\ request' \in Targets \cup {None} /\ writes' \in Writes
      /\ wanted' \in Targets \cup {None} /\ timerRan' \in BOOLEAN
  <2>1. timerRan' \in BOOLEAN
    BY DEF OnTimer
  <2> QED
    BY <2>1 DEF OnTimer, settings, IInv, TypeOK
<1>2. SUFFICES Settled /\ Typed /\ AskedInv'
  BY <1>1 DEF IInv, TypeOK, PinsTypeOK
<1>3. TypeOK /\ PinsInv /\ RestInv /\ AskedInv /\ MotorFollows
  BY DEF IInv
<1>4. ASSUME KeepStill PROVE Settled /\ currentDirection' = currentDirection
  BY <1>1, <1>3, <1>4, StillLemma DEF TypeOK
<1>5. ASSUME Awake, StopMovement PROVE Settled /\ currentDirection' = "STOP"
  BY <1>1, <1>5, StopLemma DEF Directions
<1>6. ASSUME Awake, ~Moving, NEW direction \in {"UP", "DOWN"}, Start(direction),
             UNCHANGED pauseAge
      PROVE  Settled /\ currentDirection' = direction
  BY <1>1, <1>3, <1>6, StartLemma DEF TypeOK, Start
<1>7. CASE EndPulse
  <2>1. offAge' = 0 /\ relays' = {} /\ activeBiRelay' = FALSE /\ motor' = motor
        /\ toggleAge' = toggleAge /\ pauseAge' = 0
    BY <1>3, <1>7 DEF EndPulse, SwitchOffRelays, PinsInv
  <2>2. currentDirection' = currentDirection
    BY <1>7 DEF EndPulse, run
  <2>3. PinsTypeOK
    <3>1. offAge' \in 0 .. Pause /\ relays' \subseteq Directions /\ toggleAge' \in 0 .. PulseTime + 1
      BY <1>3, <2>1 DEF TypeOK
    <3>2. activeBiRelay' \in BOOLEAN /\ motor' \in Directions
      BY <1>3, <2>1, Zenon DEF TypeOK
    <3> QED
      BY <3>1, <3>2 DEF PinsTypeOK
  <2>4. PinsInv' /\ RestInv' /\ MotorFollows' /\ Rested
    BY <1>1, <1>3, <1>7, <2>1, <2>2
    DEF EndPulse, PinsInv, RestInv, MotorFollows, Rested
  <2>5. Settled
    BY <1>3, <2>1, <2>2, <2>3, <2>4 DEF TypeOK
  <2> QED
    BY <1>1, <1>3, <1>7, <2>2, <2>5 DEF EndPulse, target, run, place, TypeOK, AskedInv
<1>8. CASE WaitForPulse \/ Pausing \/ NothingToDo
  <2>1. KeepStill /\ UNCHANGED <<target, run, place>>
    BY <1>8 DEF WaitForPulse, Pausing, NothingToDo, KeepStill, run
  <2> QED
    BY <1>1, <1>3, <1>4, <2>1 DEF target, run, place, TypeOK, AskedInv
<1>9. CASE HandleStop
  <2>1. Awake
    BY <1>9 DEF HandleStop
  <2>2. Settled /\ currentDirection' \in {"STOP", currentDirection}
    BY <1>4, <1>5, <1>9, <2>1 DEF HandleStop
  <2>3. newTargetPositionAvailable' \in BOOLEAN
    BY <1>9 DEF HandleStop
  <2>4. targetPosition' \in Targets /\ calibrationTime' \in {0, calibrationTime}
        /\ operationTimeout' \in {0, operationTimeout}
    BY <1>9 DEF HandleStop, Targets
  <2>5. UNCHANGED <<lastDirection, moveAge, place>>
    BY <1>9 DEF HandleStop
  <2> QED
    BY <1>1, <1>3, <2>2, <2>3, <2>4, <2>5 DEF place, TypeOK, AskedInv
<1>10. CASE FinishCalibration
  <2>1. Settled /\ currentDirection' = "STOP"
    BY <1>5, <1>10 DEF FinishCalibration, HandleTarget
  <2>2. currentPosition' \in 0 .. Full /\ currentPosition' # UNKNOWN_POSITION
    BY <1>10 DEF FinishCalibration, UNKNOWN_POSITION
  <2> QED
    BY <1>1, <1>3, <1>10, <2>1, <2>2 DEF FinishCalibration, target, TypeOK, AskedInv
<1>11. CASE Calibrate
  <2>1. Awake /\ calibrate /\ UNCHANGED <<target, place>>
    BY <1>11 DEF Calibrate, HandleTarget
  <2>2. CASE calibrationTime # 0
    <3>1. KeepStill /\ UNCHANGED run
      BY <1>11, <2>2 DEF Calibrate
    <3> QED
      BY <1>3, <1>4, <2>1, <3>1 DEF target, run, place, TypeOK, AskedInv
  <2>3. CASE calibrationTime = 0 /\ Moving
    <3>1. KeepStill \/ StopMovement
      BY <1>11, <2>3 DEF Calibrate
    <3>2. operationTimeout' = 0 /\ UNCHANGED <<moveAge, calibrationTime>>
      BY <1>11, <2>3 DEF Calibrate
    <3> QED
      BY <1>3, <1>4, <1>5, <2>1, <3>1, <3>2 DEF target, place, TypeOK, AskedInv
  <2>4. CASE calibrationTime = 0 /\ ~Moving
    <3>1. Start(CalibrationDirection) /\ UNCHANGED pauseAge /\ moveAge' = 0
          /\ operationTimeout' \in {0, OperationTimeout}
          /\ calibrationTime' \in {CalibrationTime(openingTime), CalibrationTime(closingTime)}
      BY <1>11, <2>4 DEF Calibrate
    <3>2. Settled
      BY <1>6, <2>1, <2>4, <3>1 DEF CalibrationDirection
    <3>3. calibrationTime' \in {0} \cup {t + CalibrationExtra : t \in TravelTimes}
      BY <1>3, <3>1 DEF CalibrationTime, TypeOK
    <3> QED
      BY <1>3, <2>1, <3>1, <3>2, <3>3 DEF target, place, TypeOK, AskedInv
  <2> QED
    BY <2>2, <2>3, <2>4
<1>12. CASE FollowMovement
  <2>1. Awake /\ ~calibrate /\ Moving
    BY <1>12 DEF FollowMovement, HandleTarget
  <2>2. Settled /\ currentDirection' \in {"STOP", currentDirection}
    BY <1>4, <1>5, <1>12, <2>1 DEF FollowMovement
  <2>3. currentPosition' \in 0 .. Full /\ currentPosition' # UNKNOWN_POSITION
    BY <1>3, <1>12, PositionLemma DEF FollowMovement, UNKNOWN_POSITION
  <2> QED
    BY <1>1, <1>3, <1>12, <2>1, <2>2, <2>3 DEF FollowMovement, target, TypeOK, AskedInv
<1>13. CASE HandleNewTarget
  <2> DEFINE direction == DirectionOf(targetPosition)
  <2>1. Awake /\ ~calibrate
    BY <1>13 DEF HandleNewTarget, NewTargetToHandle, HandleTarget
  <2>2. newTargetPositionAvailable' \in BOOLEAN
    BY <1>13 DEF HandleNewTarget, Handled
  <2>3. operationTimeout' \in {0, OperationTimeout}
        /\ UNCHANGED <<targetPosition, lastDirection, calibrationTime, currentPosition, calibrate,
                       missed>>
    BY <1>13 DEF HandleNewTarget
  <2>4. direction \in Directions
    BY DEF DirectionOf, Directions
  <2>5. CASE direction = currentDirection
    <3>1. KeepStill /\ UNCHANGED <<moveAge, lastPositionBeforeMovement>>
      BY <1>13, <2>5 DEF HandleNewTarget
    <3> QED
      BY <1>1, <1>3, <1>4, <2>2, <2>3, <3>1 DEF TypeOK, AskedInv
  <2>6. CASE direction # currentDirection /\ ~Moving
    <3>1. Start(direction) /\ moveAge' = 0 /\ lastPositionBeforeMovement' = currentPosition
          /\ UNCHANGED pauseAge
      BY <1>13, <2>6 DEF HandleNewTarget
    <3>2. Settled
      BY <1>6, <2>1, <2>4, <2>6, <3>1 DEF Directions, Moving
    <3> QED
      BY <1>1, <1>3, <2>1, <2>2, <2>3, <3>1, <3>2 DEF TypeOK, AskedInv
  <2>7. CASE direction # currentDirection /\ Moving
    <3>1. StopMovement /\ UNCHANGED <<moveAge, lastPositionBeforeMovement>>
      BY <1>13, <2>7 DEF HandleNewTarget
    <3> QED
      BY <1>1, <1>3, <1>5, <2>1, <2>2, <2>3, <3>1 DEF TypeOK, AskedInv
  <2> QED
    BY <2>5, <2>6, <2>7
<1> QED
  BY <1>7, <1>8, <1>9, <1>10, <1>11, <1>12, <1>13 DEF OnTimer

\* Pause and the age of the last switching off grow together, each up to Pause.
LEMMA TickStep == ASSUME IInv, Tick PROVE IInv' /\ Rested
<1>1. TypeOK /\ PinsInv /\ RestInv /\ AskedInv /\ MotorFollows
  BY DEF IInv
<1>2. /\ moveAge' \in 0 .. AgeCap /\ toggleAge' \in 0 .. PulseTime + 1
      /\ pauseAge' \in 0 .. Pause /\ offAge' \in 0 .. Pause /\ offAge' >= pauseAge'
  BY <1>1 DEF Tick, Older, TypeOK, RestInv
<1>3. TypeOK'
  BY <1>1, <1>2 DEF Tick, TypeOK, settings, target, place, loop
<1>4. PinsInv' /\ AskedInv' /\ MotorFollows' /\ Rested
  BY <1>1 DEF Tick, PinsInv, AskedInv, MotorFollows, Rested, settings, place, loop
<1> QED
  BY <1>2, <1>3, <1>4 DEF IInv, RestInv

\* One step, whoever takes it, keeps the invariant and the rest between two pins.
LEMMA NextIInv == IInv /\ [Next]_vars => IInv' /\ Rested
<1>1. ASSUME IInv, UNCHANGED vars PROVE IInv' /\ Rested
  BY <1>1 DEF IInv, TypeOK, PinsInv, RestInv, AskedInv, MotorFollows, Rested,
              vars, settings, target, run, place, pins, loop
<1> QED
  BY <1>1, MainLoopStep, TimerStep, TickStep DEF Next

\* The invariant holds throughout.
LEMMA SpecIInv == Spec => []IInv
BY InitIInv, NextIInv, PTL DEF Spec
-----------------------------------------------------------------------------
(***************************************************************************)
(* The theorems.                                                           *)
(***************************************************************************)

\* onTimer() and the commands keep every field in its range; the position is within 0 and Full
\* or unknown, and then a calibration is asked for, or was missed: one that ended between the
\* two writes of setOpenCloseTime() took the next one with it.
THEOREM TypeCorrect == Spec => []TypeOK
<1>1. IInv => TypeOK
  BY DEF IInv
<1> QED
  BY <1>1, SpecIInv, PTL

\* Pulses that mean "the other way of what you do" never get out of step with
\* currentDirection.
THEOREM PulsesInStep == Spec => []MotorFollows
<1>1. IInv => MotorFollows
  BY DEF IInv
<1> QED
  BY <1>1, SpecIInv, PTL

\* In all three classes a pin goes on alone, and a Pause after the last one went off.
THEOREM ReversedAfterRest == Spec => PauseBetween
<1>1. IInv /\ [Next]_vars => [Rested]_vars
  BY NextIInv
<1>2. []IInv /\ [][Next]_vars => [][Rested]_vars
  BY <1>1, PTL
<1> QED
  BY <1>2, SpecIInv, PTL DEF Spec, PauseBetween, Rested
=============================================================================
