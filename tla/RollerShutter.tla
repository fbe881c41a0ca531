--------------------------- MODULE RollerShutter ---------------------------
(***************************************************************************)
(* RollerShutter, BistableRollerShutter and TrippleButtonRollerShutter:    *)
(* the main loop takes commands and hands them over in two fields, the     *)
(* timer moves the shutter.  A timer call may come between the writes of   *)
(* a command, as an interrupt does; the timer call itself is one step.     *)
(*                                                                         *)
(* Times are ages, "millis() - stamp", in ticks; a position is measured in *)
(* as many steps as Full says (100 in the code), 0 is open.  The motor     *)
(* stands for what the pins drive: the motor itself, or an external        *)
(* controller that pulses start and stop.                                  *)
(***************************************************************************)
EXTENDS Integers

CONSTANTS
  Variants,         \* the classes to look at: "direct", "bistable", "tripple"
  Full,             \* position when closed (100)
  Comfort,          \* comfortUpValue and comfortDownValue
  TravelTimes,      \* opening and closing times the server or the storage has, 0 for none
  CalibrationExtra, \* by what a calibration run is longer (10 %)
  OperationTimeout, \* longest run without a target (60 s)
  Pause,            \* doNothingTime limit (500 ms)
  PulseTime,        \* length of a pulse (200 ms)
  AgeCap            \* bound: moveAge stops growing here; the other ages when they are
                    \* past the one limit they are compared with

ASSUME TimesAssumption ==
  /\ {Full, CalibrationExtra, OperationTimeout, Pause, PulseTime} \subseteq Nat \ {0}
  /\ TravelTimes \subseteq Nat /\ TravelTimes # {}
  /\ AgeCap \in Nat
  /\ OperationTimeout < AgeCap
  /\ \A t \in TravelTimes : t + CalibrationExtra < AgeCap

ASSUME PositionsAssumption ==
  /\ Comfort \subseteq 0 .. Full
  /\ Variants \subseteq {"direct", "bistable", "tripple"}

UNKNOWN_POSITION == -1
STOP_POSITION == -2
MOVE_UP_POSITION == -3
MOVE_DOWN_POSITION == -4
Targets == {STOP_POSITION, MOVE_UP_POSITION, MOVE_DOWN_POSITION} \cup 0 .. Full
Directions == {"STOP", "UP", "DOWN"}
None == -9
Writes == {"calibrate", "position", "target", "flag"}

VARIABLES
  variant,
  openingTime, closingTime,
  calibrate,
  newTargetPositionAvailable,
  currentDirection, lastDirection,
  currentPosition, targetPosition, lastPositionBeforeMovement,
  missed,           \* a calibration ended between the two writes that ask for the next one
  moveAge,          \* age of lastMovementStartTime
  pauseAge,         \* age of doNothingTime
  calibrationTime, operationTimeout,
  relays,           \* pins that are on
  activeBiRelay,
  toggleAge,        \* age of toggleTime
  request,          \* target the main loop is about to hand over, None if none
  writes,           \* what it writes next
  motor,            \* what moves the shutter
  offAge,           \* age of the moment a pin was switched off last
  wanted,           \* target of the last command, None if the timeout took it away
  timerRan          \* the timer has run in this tick

settings == <<variant, openingTime, closingTime>>
target == <<targetPosition, newTargetPositionAvailable, lastDirection>>
run == <<currentDirection, moveAge, calibrationTime, operationTimeout>>
place == <<currentPosition, lastPositionBeforeMovement, calibrate, missed>>
pins == <<relays, activeBiRelay, toggleAge, motor, offAge>>
loop == <<request, writes, wanted>>
vars == <<settings, target, run, place, pauseAge, pins, loop, timerRan>>

TypeOK ==
  /\ variant \in Variants
  /\ openingTime \in TravelTimes /\ closingTime \in TravelTimes
  /\ calibrate \in BOOLEAN /\ newTargetPositionAvailable \in BOOLEAN
  /\ currentDirection \in Directions /\ lastDirection \in Directions
  /\ targetPosition \in Targets
  /\ currentPosition \in {UNKNOWN_POSITION} \cup 0 .. Full
  /\ lastPositionBeforeMovement \in {UNKNOWN_POSITION} \cup 0 .. Full
  /\ missed \in BOOLEAN
  /\ ~calibrate /\ currentPosition = UNKNOWN_POSITION => missed
  /\ moveAge \in 0 .. AgeCap /\ toggleAge \in 0 .. PulseTime + 1
  /\ pauseAge \in 0 .. Pause /\ offAge \in 0 .. Pause
  /\ calibrationTime \in {0} \cup {t + CalibrationExtra : t \in TravelTimes}
  /\ operationTimeout \in {0, OperationTimeout}
  /\ relays \subseteq Directions /\ activeBiRelay \in BOOLEAN /\ motor \in Directions
  /\ request \in Targets \cup {None} /\ writes \in Writes
  /\ wanted \in Targets \cup {None}
  /\ timerRan \in BOOLEAN

\* Constructor, onLoadState and onInit: a stored position means no calibration.
Init ==
  /\ variant \in Variants
  /\ openingTime \in TravelTimes /\ closingTime \in TravelTimes
  /\ currentPosition \in {UNKNOWN_POSITION} \cup 0 .. Full
  /\ calibrate = (currentPosition = UNKNOWN_POSITION) /\ missed = FALSE
  /\ lastPositionBeforeMovement = UNKNOWN_POSITION
  /\ newTargetPositionAvailable = FALSE /\ targetPosition = STOP_POSITION
  /\ currentDirection = "STOP" /\ lastDirection = "STOP"
  /\ moveAge = AgeCap /\ pauseAge = 0
  /\ calibrationTime = 0 /\ operationTimeout = 0
  /\ relays = {} /\ activeBiRelay = FALSE /\ toggleAge = PulseTime + 1
  /\ request = None /\ writes = "target" /\ wanted = STOP_POSITION
  /\ motor = "STOP" /\ offAge = Pause /\ timerRan = FALSE

-----------------------------------------------------------------------------
(***************************************************************************)
(* The main loop.                                                          *)
(***************************************************************************)
Moving == currentDirection # "STOP"

\* setOpenCloseTime(): 0 keeps what is there.  A timer call reads one of the two times at most,
\* so one step for both shows it nothing that two would not.
NewTimes(closing, opening) ==
  /\ closingTime' = IF closing = 0 THEN closingTime ELSE closing
  /\ openingTime' = IF opening = 0 THEN openingTime ELSE opening

\* The values of the protocol: stop, down, up, or a position; travel times come with each.
HandleNewValueFromServer(closing, opening, task) ==
  /\ request = None
  /\ NewTimes(closing, opening)
  /\ writes' = IF <<closingTime', openingTime'>> # <<closingTime, openingTime>>
                 THEN "calibrate" ELSE "target"
  /\ request' = task
  /\ UNCHANGED <<variant, target, run, place, pauseAge, pins, wanted, timerRan>>

WithoutCalibration == UNCHANGED <<calibrate, missed>>   \* wrong variant
CalibrateAgain == calibrate' = TRUE /\ missed' = FALSE

\* Another time asks for a calibration first ...
AskForCalibration ==
  /\ writes = "calibrate" /\ writes' = "position"
  /\ CalibrateAgain
  /\ UNCHANGED <<settings, target, run, currentPosition, lastPositionBeforeMovement, pauseAge,
                 pins, request, wanted, timerRan>>

\* ... and forgets the position then, also the one that a calibration found in between.
ForgetPosition ==
  /\ writes = "position" /\ writes' = "target"
  /\ currentPosition' = UNKNOWN_POSITION
  /\ UNCHANGED <<settings, target, run, lastPositionBeforeMovement, calibrate, missed, pauseAge,
                 pins, request, wanted, timerRan>>

\* inMove(), which the three-button variant also answers with TRUE, and forgets, for a stop
\* that has not been carried out.
StopPending(new) == variant = "tripple" /\ new /\ targetPosition = STOP_POSITION
InMove == Moving \/ StopPending(newTargetPositionAvailable)

\* The target an action asks for; those "or stop" ask inMove().
OrStop == {"CLOSE_OR_STOP", "OPEN_OR_STOP", "MOVE_UP_OR_STOP", "MOVE_DOWN_OR_STOP",
           "STEP_BY_STEP"}
StepByStep ==
  IF lastDirection = "UP" \/ (lastDirection = "STOP" /\ 2 * currentPosition < Full)
    THEN Full ELSE 0
TargetsOf(action) ==
  CASE action \in {"CLOSE", "CLOSE_OR_STOP"} -> {Full}
    [] action \in {"OPEN", "OPEN_OR_STOP"} -> {0}
    [] action \in {"MOVE_UP", "MOVE_UP_OR_STOP"} -> {MOVE_UP_POSITION}
    [] action \in {"MOVE_DOWN", "MOVE_DOWN_OR_STOP"} -> {MOVE_DOWN_POSITION}
    [] action = "STEP_BY_STEP" -> {StepByStep}
    [] action = "COMFORT_POSITION" -> Comfort
    [] action = "STOP" -> {STOP_POSITION}
Actions == OrStop \cup {"CLOSE", "OPEN", "MOVE_UP", "MOVE_DOWN", "COMFORT_POSITION", "STOP"}

HandleAction(action) ==
  /\ request = None
  /\ \/ action \in OrStop /\ InMove /\ request' = STOP_POSITION
     \/ ~(action \in OrStop /\ InMove) /\ request' \in TargetsOf(action)
  /\ newTargetPositionAvailable' =
       (newTargetPositionAvailable /\ ~(action \in OrStop /\ StopPending(TRUE)))
  /\ UNCHANGED <<settings, targetPosition, lastDirection, run, place, pauseAge, pins, writes,
                 wanted, timerRan>>

\* setTargetPosition(): the target first ...
WriteTarget ==
  /\ request # None /\ writes = "target" /\ writes' = "flag"
  /\ targetPosition' = request /\ wanted' = request
  /\ UNCHANGED <<settings, newTargetPositionAvailable, lastDirection, run, place, pauseAge,
                 pins, request, timerRan>>

DirectionOf(position) ==
  CASE position = MOVE_UP_POSITION -> "UP"
    [] position = MOVE_DOWN_POSITION -> "DOWN"
    [] position >= 0 /\ position < currentPosition -> "UP"
    [] position >= 0 /\ position > currentPosition -> "DOWN"
    [] OTHER -> "STOP"

\* ... then the flag and lastDirection.
AnnounceTarget ==
  /\ request # None /\ writes = "flag"
  /\ newTargetPositionAvailable' = TRUE
  /\ lastDirection' = IF DirectionOf(targetPosition) = "STOP" THEN lastDirection
                                                             ELSE DirectionOf(targetPosition)
  /\ request' = None /\ writes' = "target"
  /\ UNCHANGED <<settings, targetPosition, run, place, pauseAge, pins, wanted, timerRan>>

-----------------------------------------------------------------------------
(***************************************************************************)
(* Pins.  A pulse counts for an external controller when the pin goes on.  *)
(***************************************************************************)
MotorAfter(pin) ==
  IF pin \in relays THEN motor
  ELSE IF variant = "bistable" /\ motor # "STOP" THEN "STOP" ELSE pin

\* A pin goes on, and the variants with pulses take the time of it.
SwitchOn(pin, off) ==
  /\ relays' = (relays \ off) \cup {pin}
  /\ motor' = MotorAfter(pin)
  /\ offAge' = IF relays \subseteq relays' THEN offAge ELSE 0
  /\ IF variant = "direct" THEN UNCHANGED <<activeBiRelay, toggleAge>>
                           ELSE activeBiRelay' = TRUE /\ toggleAge' = 0

\* startOpening, startClosing
Start(direction) ==
  /\ currentDirection' = direction
  /\ SwitchOn(direction, {"UP", "DOWN"} \ {direction})

\* switchOffRelays: a pulse is over, or the motor on the relays stops.
SwitchOffRelays ==
  /\ relays' = {} /\ activeBiRelay' = FALSE
  /\ offAge' = IF relays = {} THEN offAge ELSE 0
  /\ motor' = IF variant = "direct" THEN "STOP" ELSE motor
  /\ UNCHANGED toggleAge

StopPins ==
  CASE variant = "direct" -> SwitchOffRelays
    [] variant = "tripple" -> SwitchOn("STOP", {})
    [] variant = "bistable" /\ Moving -> SwitchOn(currentDirection, {})
    [] OTHER -> UNCHANGED pins

\* Wrong variant: no pause after a stop.
StopWithoutPause == currentDirection' = "STOP" /\ UNCHANGED pauseAge /\ StopPins

StopMovement == currentDirection' = "STOP" /\ pauseAge' = 0 /\ StopPins

KeepStill == UNCHANGED <<currentDirection, pauseAge, pins>>
-----------------------------------------------------------------------------
(***************************************************************************)
(* The timer: onTimer(), case by case.                                     *)
(***************************************************************************)
NoPulseActive == activeBiRelay /\ toggleAge > PulseTime     \* wrong variant: pulses do not block
PulseActive == activeBiRelay

\* BistableRollerShutter::onTimer around a pulse
EndPulse ==
  /\ activeBiRelay /\ toggleAge > PulseTime
  /\ SwitchOffRelays /\ pauseAge' = 0
  /\ UNCHANGED <<target, run, place>>

WaitForPulse ==
  /\ PulseActive /\ ~(toggleAge > PulseTime)
  /\ UNCHANGED <<target, run, place, pauseAge, pins>>

Pausing ==
  /\ ~PulseActive /\ pauseAge < Pause
  /\ UNCHANGED <<target, run, place, pauseAge, pins>>

Awake == ~PulseActive /\ pauseAge >= Pause
TimedOut == operationTimeout # 0 /\ moveAge > operationTimeout

\* A stop, asked for or because the operation timeout is over.
HandleStop ==
  /\ Awake
  /\ TimedOut \/ targetPosition = STOP_POSITION
  /\ targetPosition' = STOP_POSITION
  /\ operationTimeout' = IF TimedOut THEN 0 ELSE operationTimeout
  /\ LET new == newTargetPositionAvailable \/ TimedOut
     IN  /\ newTargetPositionAvailable' = (new /\ variant # "tripple")
         /\ IF Moving \/ (new /\ variant = "tripple")
              THEN StopMovement /\ calibrationTime' = 0
              ELSE KeepStill /\ UNCHANGED calibrationTime
  /\ UNCHANGED <<lastDirection, moveAge, place>>

HandleTarget == Awake /\ ~TimedOut /\ targetPosition # STOP_POSITION

\* A calibration run ends at the end stop it was made for.
CalibrationDone == calibrationTime # 0 /\ moveAge > calibrationTime
FinishCalibration ==
  /\ HandleTarget /\ calibrate /\ CalibrationDone
  /\ calibrate' = FALSE /\ calibrationTime' = 0 /\ missed' = (writes = "position")
  /\ currentPosition' = IF currentDirection = "UP" THEN 0 ELSE Full
  /\ StopMovement
  /\ UNCHANGED <<target, moveAge, operationTimeout, lastPositionBeforeMovement>>

CalibrationTime(time) == IF time = 0 THEN 0 ELSE time + CalibrationExtra

\* "If calibrationTime is not set, then it means we should start calibration": towards the
\* end the target is nearer to; a motor that runs that way already is left to run.
CalibrationDirection ==
  IF 2 * targetPosition > Full \/ targetPosition = MOVE_DOWN_POSITION THEN "DOWN" ELSE "UP"
Calibrate ==
  /\ HandleTarget /\ calibrate /\ ~CalibrationDone
  /\ IF calibrationTime # 0 THEN KeepStill /\ UNCHANGED run
     ELSE IF Moving
       THEN /\ IF currentDirection = CalibrationDirection THEN KeepStill ELSE StopMovement
            /\ operationTimeout' = 0 /\ UNCHANGED <<moveAge, calibrationTime>>
       ELSE /\ Start(CalibrationDirection)
            /\ calibrationTime' = CalibrationTime(IF CalibrationDirection = "UP"
                                                    THEN openingTime ELSE closingTime)
            /\ operationTimeout' = IF calibrationTime' = 0 THEN OperationTimeout ELSE 0
            /\ moveAge' = 0 /\ UNCHANGED pauseAge
  /\ UNCHANGED <<target, place>>

\* Where the shutter should be by now, rounded towards 0.  A travel time that is not known
\* brings it to the end at once.  A way down from an unknown position begins above the upper end.
PositionNow ==
  LET start == lastPositionBeforeMovement
      up == (openingTime * start) \div Full
      down == (closingTime * (Full - start)) \div Full
      way == ((Full - start) * moveAge) \div down
  IN  CASE currentDirection = "UP" /\ currentPosition > 0 ->
             IF moveAge >= up THEN 0 ELSE (start * (up - moveAge)) \div up
        [] currentDirection = "DOWN" /\ currentPosition < Full ->
             IF moveAge >= down THEN Full
             ELSE IF moveAge > 0 /\ start + way < 0 THEN 0 ELSE start + way
        [] OTHER -> currentPosition

\* No new command: follow the movement, and stop at the target.
ReachedTarget ==
  /\ targetPosition >= 0
  /\ \/ currentDirection = "UP" /\ currentPosition > 0 /\ PositionNow <= targetPosition
     \/ currentDirection = "DOWN" /\ currentPosition < Full /\ PositionNow >= targetPosition

FollowMovement ==
  /\ HandleTarget /\ ~calibrate /\ ~newTargetPositionAvailable /\ Moving
  /\ currentPosition' = IF PositionNow < 0 THEN 0 ELSE PositionNow
  /\ IF ReachedTarget THEN StopMovement ELSE KeepStill
  /\ UNCHANGED <<target, moveAge, calibrationTime, operationTimeout, calibrate, missed,
                 lastPositionBeforeMovement>>

\* A new command: keep going, start, or stop before changing direction.
ForgetWhenReversing == newTargetPositionAvailable' = FALSE   \* wrong variant
Handled ==
  newTargetPositionAvailable' =
    (currentDirection \notin {"STOP", DirectionOf(targetPosition)})

NewTargetToHandle == HandleTarget /\ ~calibrate /\ newTargetPositionAvailable
HandleNewTarget ==
  /\ NewTargetToHandle
  /\ Handled
  /\ operationTimeout' = IF targetPosition < 0 THEN OperationTimeout ELSE 0
  /\ LET direction == DirectionOf(targetPosition)
     IN  \/ direction = currentDirection
            /\ KeepStill /\ UNCHANGED <<moveAge, lastPositionBeforeMovement>>
         \/ direction # currentDirection /\ ~Moving
            /\ Start(direction) /\ moveAge' = 0
            /\ lastPositionBeforeMovement' = currentPosition /\ UNCHANGED pauseAge
         \/ direction # currentDirection /\ Moving
            /\ StopMovement /\ UNCHANGED <<moveAge, lastPositionBeforeMovement>>
  /\ UNCHANGED <<targetPosition, lastDirection, calibrationTime, currentPosition, calibrate,
                 missed>>

NothingToDo ==
  /\ HandleTarget /\ ~calibrate /\ ~newTargetPositionAvailable /\ ~Moving
  /\ UNCHANGED <<target, run, place, pauseAge, pins>>

\* The timeout may hit a command that it was not meant for, before the timer looked at it.
TakesCommandAway == Awake /\ TimedOut /\ (newTargetPositionAvailable \/ writes = "flag")

OnTimer ==
  /\ timerRan' = ~NewTargetToHandle
  /\ wanted' = IF TakesCommandAway THEN None ELSE wanted
  /\ UNCHANGED <<settings, request, writes>>
  /\ \/ EndPulse \/ WaitForPulse \/ Pausing \/ HandleStop \/ FinishCalibration \/ Calibrate
     \/ FollowMovement \/ HandleNewTarget \/ NothingToDo

\* The timer comes more often than a tick, and follows the movement in each.
Older(age, cap) == IF age < cap THEN age + 1 ELSE age
Tick ==
  /\ timerRan /\ timerRan' = FALSE
  /\ moveAge' = Older(moveAge, AgeCap) /\ toggleAge' = Older(toggleAge, PulseTime + 1)
  /\ pauseAge' = Older(pauseAge, Pause) /\ offAge' = Older(offAge, Pause)
  /\ UNCHANGED <<settings, target, currentDirection, calibrationTime, operationTimeout, place,
                 relays, activeBiRelay, motor, loop>>

HandOver == AskForCalibration \/ ForgetPosition \/ WriteTarget \/ AnnounceTarget
MainLoop ==
  \/ \E closing, opening \in TravelTimes \cup {0}, task \in Targets :
       HandleNewValueFromServer(closing, opening, task)
  \/ \E action \in Actions : HandleAction(action)
  \/ HandOver

Next == MainLoop \/ OnTimer \/ Tick

Spec == Init /\ [][Next]_vars

\* The timer and the clock go on, and a command that was begun is handed over.
FairSpec == Spec /\ WF_vars(OnTimer) /\ WF_vars(Tick) /\ WF_vars(HandOver)
-----------------------------------------------------------------------------
\* Whatever commands come at whatever moment, no two pins are on together, and one goes on
\* only Pause after the last went off: a motor is never reversed without a rest.
PauseBetween ==
  [][ relays' # {} /\ relays' # relays =>
        relays = {} /\ offAge >= Pause /\ \E pin \in Directions : relays' = {pin} ]_vars

\* What moves the shutter does what the code thinks it does, also where it is switched by
\* pulses that only mean "the other way of what you do".
MotorFollows == motor = currentDirection

\* A motor that runs because of a calibration nobody timed: its travel time is not known, or
\* changed while it ran that way.  Calibrate never ends that run.
Runaway == calibrate /\ Moving /\ calibrationTime = 0

\* When no more commands come, the shutter gets to where the last one wanted it and rests,
\* provided its travel times are known, it was not running when they changed, and the
\* calibration they ask for is not missed.  A command
\* that comes while the timeout of the one before is running out may be taken for that one:
\* the shutter rests then, wherever it is.  Between the
\* ends only the relays stop in time: a pulse and the pause after it may take longer than the
\* way to the target, and the variants with pulses then stop behind it.
AtRest ==
  /\ ~Moving
  /\ wanted \in {0, Full} \/ (wanted >= 0 /\ variant = "direct") => currentPosition = wanted
  /\ wanted = MOVE_UP_POSITION => currentPosition = 0
  /\ wanted = MOVE_DOWN_POSITION => currentPosition = Full
LastCommandWins ==
  /\ <>[](request = None)
  /\ <>[](openingTime # 0 /\ closingTime # 0 /\ ~Runaway /\ ~missed)
  => <>[]AtRest

\* "If calibrationTime is not set, then it means we should start calibration": a shutter that
\* needs one does not run on for ever without it.  It does not hold: one that runs the right
\* way already is not started again, and the timeout of one whose time is not known is reset
\* by the next timer call.
CalibrationStarts == <>[](request = None) => []<>~Runaway
=============================================================================
