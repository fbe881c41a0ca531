------------------------------- MODULE Sensor -------------------------------
(***************************************************************************)
(* Sensors that are read now and then, the correction of their channels,   *)
(* and the conditions (OnLess, OnBetween, OnInvalid ...) that run an       *)
(* action when the value of a channel gets somewhere.                      *)
(*                                                                         *)
(* A channel has one or two values, here by BOOLEAN: FALSE is the first,   *)
(* TRUE the second.  When a sensor is read is left open; what the device   *)
(* behind it answers is a reading or Lost.                                 *)
(***************************************************************************)
EXTENDS Integers, Sequences, FiniteSets

CONSTANTS
  SensorKinds,   \* the classes to look at, of AllKinds
  Readings,      \* what a device answers
  MostRetries,   \* answers that may be lost before the value is given up (3)
  Corrections,   \* what setCorrection was called with: [second, by], in that order
  Conditions,    \* [op, low, high, second]
  CharRange,     \* values of a char (256)
  CharSigned,    \* the upper half of them is negative
  Echoes,        \* lengths of an echo, 0 for none
  InRange, OutRange,  \* minIn and maxIn, minOut and maxOut of HC_SR04
  ImpulseGap,    \* debounceDelay
  MostImpulses   \* bound of the impulse counter

AllKinds == {"thermometer", "ds18b20", "dht", "si7021", "sht3x", "bme280", "distance",
             "counter", "binary"}
Ops == {"less", "less_eq", "greater", "greater_eq", "equal", "between", "between_eq",
        "invalid"}
Lost == -1000

ASSUME SensorAssumption ==
  /\ SensorKinds \subseteq AllKinds
  /\ Readings \subseteq Nat /\ 0 \in Echoes /\ Echoes \subseteq Nat
  /\ MostRetries \in Nat /\ CharRange \in Nat /\ CharRange > MostRetries + 1
  /\ CharSigned \in BOOLEAN /\ ImpulseGap \in Nat /\ MostImpulses \in Nat
  /\ Corrections \in Seq([second : BOOLEAN, by : Int])
  /\ Conditions \subseteq [op : Ops, low : Nat, high : Nat, second : BOOLEAN]
  /\ InRange[1] < InRange[2]

VARIABLES
  sensorKind,
  kept,         \* lastValidValue; lastValidTemp and lastValidHumi; temperature and humidity
  retries,      \* retryCounter; retryCountTemp and retryCountHumi; retryCount
  sensorStatus, \* BME280 has answered to begin()
  readouts, index, failCount,        \* HC_SR04
  prevState, impulseAge, counter,    \* ImpulseCounter, the level as "active"
  state,        \* VirtualBinary
  sensorShown,  \* value of the channel
  alreadyFired, \* of the conditions
  ran,          \* conditions and events whose client was run in this step
  lost,         \* answers of each value lost in a row
  good,         \* the last one that was not, Lost if there was none
  everChanged   \* the channel has had a new value since the start

ownVars == <<kept, retries, sensorStatus, readouts, index, failCount, prevState, impulseAge,
             counter, state, lost, good>>
sensorVars == <<sensorKind, ownVars, sensorShown, alreadyFired, ran, everChanged>>

\* TEMPERATURE_NOT_AVAILABLE, HUMIDITY_NOT_AVAILABLE, and DISTANCE_NOT_AVAILABLE.
NotMeasured(second) == IF second \/ sensorKind = "distance" THEN -1 ELSE -275

\* What a NaN becomes as an int, by processor: undefined in the language.
IntOfNaN == {-2147483, 0, 2147483}

SensorTypeOK ==
  /\ sensorKind \in SensorKinds
  /\ kept \in [BOOLEAN -> Readings \cup {-275, -1}]
  /\ retries \in [BOOLEAN -> 0 .. MostRetries]
  /\ sensorStatus \in BOOLEAN /\ prevState \in BOOLEAN /\ state \in BOOLEAN
  /\ readouts \in [0 .. 4 -> Echoes] /\ index \in 0 .. 4 /\ failCount \in 0 .. CharRange - 1
  /\ counter \in 0 .. MostImpulses /\ impulseAge \in 0 .. ImpulseGap + 1
  /\ DOMAIN sensorShown = BOOLEAN
  /\ alreadyFired \in [Conditions -> BOOLEAN]
  /\ everChanged \in BOOLEAN

-----------------------------------------------------------------------------
(***************************************************************************)
(* Channel, Correction and Condition.                                      *)
(***************************************************************************)

\* Correction::get: the first one that was added for it.
CorrectionOf(second) ==
  LET mine == {i \in DOMAIN Corrections : Corrections[i].second = second}
  IN IF mine = {} THEN 0 ELSE Corrections[CHOOSE i \in mine : \A j \in mine : i <= j].by

\* What the condition calls a valid value: by the type of the channel.
IsValid(second, value) ==
  \/ sensorKind = "counter"
  \/ value >= IF second \/ sensorKind = "distance" THEN 0 ELSE -273

Meets(c, value) ==
  \/ c.op = "less" /\ value < c.low
  \/ c.op = "less_eq" /\ value <= c.low
  \/ c.op = "greater" /\ value > c.low
  \/ c.op = "greater_eq" /\ value >= c.low
  \/ c.op = "equal" /\ value = c.low
  \/ c.op = "between" /\ value > c.low /\ value < c.high
  \/ c.op = "between_eq" /\ value >= c.low /\ value <= c.high

ConditionHolds(c, values) ==
  LET value == values[c.second]
  IN IF IsValid(c.second, value) THEN Meets(c, value) ELSE c.op = "invalid"

\* Condition::checkConditionFor
Fires(c, values) == ~alreadyFired[c] /\ ConditionHolds(c, values)
\* The mutant does not arm a condition again that has fired.
FiredForEver(c, values) == alreadyFired[c] \/ ConditionHolds(c, values)
FiredAfter(c, values) == ConditionHolds(c, values)

\* A condition knows the types of channels with a measured value only.
Conditional == IF sensorKind = "binary" THEN {} ELSE Conditions

Events(values) ==
  IF sensorKind # "binary" THEN {}
  ELSE {IF values[FALSE] = 1 THEN "ON_TURN_ON" ELSE "ON_TURN_OFF"}

\* Channel::setNewValue: only a value that is another one runs ON_CHANGE.
SetNewValue(values) ==
  /\ sensorShown' = values
  /\ \/ /\ values # sensorShown
        /\ ran' = {c \in Conditional : Fires(c, values)} \cup Events(values)
        /\ alreadyFired' = [c \in Conditions |->
             IF c \in Conditional THEN FiredAfter(c, values) ELSE alreadyFired[c]]
        /\ everChanged' = TRUE
     \/ values = sensorShown /\ ran' = {} /\ UNCHANGED <<alreadyFired, everChanged>>

Corrected(values) == [second \in BOOLEAN |-> values[second] + CorrectionOf(second)]

\* The channel of a thermometer has one value, the other bytes are zero.
Single(value) == [second \in BOOLEAN |-> IF second THEN 0 ELSE value + CorrectionOf(FALSE)]
Plain(value) == [second \in BOOLEAN |-> IF second THEN 0 ELSE value]

-----------------------------------------------------------------------------
(***************************************************************************)
(* Thermometers and hygrometers.                                           *)
(***************************************************************************)
Answers == Readings \cup {Lost}

Noted(answers) ==
  /\ lost' = [second \in BOOLEAN |->
       IF answers[second] # Lost THEN 0
       ELSE IF lost[second] <= MostRetries THEN lost[second] + 1 ELSE lost[second]]
  /\ good' = [second \in BOOLEAN |->
       IF answers[second] # Lost THEN answers[second] ELSE good[second]]

\* Thermometer and those of its kind: what cannot be read is not available.
ReadPlain(answer) ==
  /\ sensorKind = "thermometer"
  /\ SetNewValue(Single(IF answer = Lost THEN NotMeasured(FALSE) ELSE answer))
  /\ Noted([second \in BOOLEAN |-> answer])
  /\ UNCHANGED <<kept, retries>>

\* The last valid value stands for an answer that is lost, MostRetries times.
GivesUp(second) == retries[second] + 1 > MostRetries
LastOf(answer, second) ==
  IF answer # Lost THEN answer ELSE IF GivesUp(second) THEN NotMeasured(second) ELSE kept[second]
\* The mutant counts on after an answer.
RetriesKept(answer, second) ==
  IF GivesUp(second) THEN 0 ELSE IF answer # Lost THEN retries[second] ELSE retries[second] + 1
RetriesOf(answer, second) ==
  IF answer # Lost \/ GivesUp(second) THEN 0 ELSE retries[second] + 1

\* DS18B20: a disconnected one, and the 85 degrees of one that has not measured yet, are lost.
ReadDs18b20(answer) ==
  /\ sensorKind = "ds18b20"
  /\ kept' = [kept EXCEPT ![FALSE] = LastOf(answer, FALSE)]
  /\ retries' = [retries EXCEPT ![FALSE] = RetriesOf(answer, FALSE)]
  /\ SetNewValue(Single(kept'[FALSE]))
  /\ Noted([second \in BOOLEAN |-> answer])

\* DHT: temperature and humidity are asked for, and lost, one by one.
ReadDht(answers) ==
  /\ sensorKind = "dht"
  /\ kept' = [second \in BOOLEAN |-> LastOf(answers[second], second)]
  /\ retries' = [second \in BOOLEAN |-> RetriesOf(answers[second], second)]
  /\ SetNewValue(Corrected(kept'))
  /\ Noted(answers)

\* Si7021Sonoff::read and SHT3x::readValuesFromDevice: one answer, which is lost as a whole.
ReadBoth(answers) ==
  /\ \A second \in BOOLEAN : answers[second] = Lost => answers[~second] = Lost
  /\ kept' =
       IF answers[FALSE] # Lost THEN answers
       ELSE IF GivesUp(FALSE) THEN [second \in BOOLEAN |-> NotMeasured(second)] ELSE kept
  /\ retries' = [retries EXCEPT ![FALSE] = RetriesOf(answers[FALSE], FALSE)]
  /\ SetNewValue(Corrected(kept'))
  /\ Noted(answers)
ReadSi7021(answers) == sensorKind = "si7021" /\ ReadBoth(answers)
ReadSht3x(answers) == sensorKind = "sht3x" /\ ReadBoth(answers)

\* What a getter of BME280 returns and leaves in sensorStatus: a device that works answers, or
\* its NaN is read again after another begin(); what is NaN then is stored as an int.
Bme280Value(second, works) ==
  [value : IF works THEN Readings ELSE {}, works : {TRUE}]
  \cup [value : {NotMeasured(second)}, works : {FALSE}]
  \cup [value : Readings \cup IntOfNaN, works : {TRUE}]

\* getPressure(), and then getTemp() and getHumi() in the order the compiler chose, each with the
\* sensorStatus that the one before has left.
ReadBme280(works, first) ==
  \E one \in Bme280Value(first, works) : \E other \in Bme280Value(~first, one.works) :
    /\ SetNewValue(Corrected([second \in BOOLEAN |->
                                 IF second = first THEN one.value ELSE other.value]))
    /\ sensorStatus' = other.works

ReadTemperature ==
  /\ \/ \E answer \in Answers : ReadPlain(answer) \/ ReadDs18b20(answer)
     \/ \E answers \in [BOOLEAN -> Answers] :
          ReadDht(answers) \/ ReadSi7021(answers) \/ ReadSht3x(answers)
  /\ UNCHANGED <<sensorStatus, readouts, index, failCount, prevState, impulseAge, counter, state>>

ReadBme ==
  /\ sensorKind = "bme280"
  /\ \E pressureWorks, first \in BOOLEAN : ReadBme280(pressureWorks, first)
  /\ UNCHANGED <<kept, retries, lost, good, readouts, index, failCount, prevState, impulseAge,
                 counter, state>>

-----------------------------------------------------------------------------
(***************************************************************************)
(* HC_SR04: the distance is the mean of the last five echoes, without the  *)
(* shortest and the longest once there are five.                           *)
(***************************************************************************)
SumOf(echoes) == echoes[0] + echoes[1] + echoes[2] + echoes[3] + echoes[4]
Heard(echoes) == {i \in 0 .. 4 : echoes[i] > 0}
Shortest(echoes) == CHOOSE e \in {echoes[i] : i \in 0 .. 4} : \A i \in 0 .. 4 : e <= echoes[i]
Longest(echoes) == CHOOSE e \in {echoes[i] : i \in 0 .. 4} : \A i \in 0 .. 4 : e >= echoes[i]

MeanEcho(echoes) ==
  IF Heard(echoes) = {} THEN 0
  ELSE IF Heard(echoes) = 0 .. 4
    THEN (SumOf(echoes) - Shortest(echoes) - Longest(echoes)) \div 3
    ELSE SumOf(echoes) \div Cardinality(Heard(echoes))

\* adjustRange divides towards zero; the result is kept within the limits.
Quotient(a, b) == IF a >= 0 THEN a \div b ELSE -((-a) \div b)
AdjustRange(distance) ==
  OutRange[1]
  + Quotient((distance - InRange[1]) * (OutRange[2] - OutRange[1]), InRange[2] - InRange[1])
Limited(value) ==
  LET low == IF OutRange[1] < OutRange[2] THEN OutRange[1] ELSE OutRange[2]
      high == IF OutRange[1] < OutRange[2] THEN OutRange[2] ELSE OutRange[1]
  IN IF value < low THEN low ELSE IF value > high THEN high ELSE value

\* failCount is a char: it comes back to small values, or to negative ones.
IsFailing(count) == count > MostRetries /\ ~(CharSigned /\ count >= CharRange \div 2)

ReadDistance(echo) ==
  /\ sensorKind = "distance"
  /\ index' = IF echo > 0 THEN (index + 1) % 5 ELSE index
  /\ readouts' = IF echo > 0 THEN [readouts EXCEPT ![index'] = echo] ELSE readouts
  /\ failCount' = IF echo > 0 THEN 0 ELSE (failCount + 1) % CharRange
  /\ SetNewValue(Single(IF IsFailing(failCount') THEN NotMeasured(FALSE)
                        ELSE Limited(AdjustRange(MeanEcho(readouts')))))
  /\ lost' = [lost EXCEPT ![FALSE] =
                IF echo > 0 THEN 0 ELSE IF @ < CharRange THEN @ + 1 ELSE @]
  /\ UNCHANGED <<kept, retries, sensorStatus, prevState, impulseAge, counter, state, good>>

-----------------------------------------------------------------------------
(***************************************************************************)
(* ImpulseCounter in the fast timer, Binary and VirtualBinary.             *)
(***************************************************************************)
CountsImpulse(level) == ~prevState /\ impulseAge > ImpulseGap /\ level

OnFastTimer(level) ==
  /\ sensorKind = "counter"
  /\ counter < MostImpulses
  /\ prevState' = level
  /\ counter' = IF CountsImpulse(level) THEN counter + 1 ELSE counter
  /\ impulseAge' =
       IF CountsImpulse(level) THEN 0 ELSE IF impulseAge <= ImpulseGap THEN impulseAge + 1
       ELSE impulseAge
  /\ SetNewValue(Plain(counter'))
  /\ UNCHANGED <<kept, retries, sensorStatus, readouts, index, failCount, state, lost, good>>

ResetCounter ==
  /\ sensorKind = "counter"
  /\ counter' = 0 /\ SetNewValue(Plain(0))
  /\ UNCHANGED <<kept, retries, sensorStatus, readouts, index, failCount, prevState, impulseAge,
                 state, lost, good>>

\* SET, CLEAR and TOGGLE, or the pin.
SwitchBinary ==
  /\ sensorKind = "binary"
  /\ state' = ~state /\ ran' = {}
  /\ UNCHANGED <<kept, retries, sensorStatus, readouts, index, failCount, prevState, impulseAge,
                 counter, lost, good, sensorShown, alreadyFired, everChanged>>

ReadBinary ==
  /\ sensorKind = "binary"
  /\ SetNewValue(Plain(IF state THEN 1 ELSE 0))
  /\ UNCHANGED ownVars

-----------------------------------------------------------------------------
SensorInit ==
  /\ sensorKind \in SensorKinds
  /\ kept = [second \in BOOLEAN |-> NotMeasured(second)]
  /\ retries = [second \in BOOLEAN |-> 0]
  /\ sensorStatus = FALSE /\ prevState = FALSE /\ impulseAge = 0 /\ counter = 0 /\ state = FALSE
  /\ readouts = [i \in 0 .. 4 |-> 0] /\ index = 0 /\ failCount = 0
  /\ sensorShown = Plain(IF sensorKind = "distance" THEN NotMeasured(FALSE) ELSE 0)
  /\ alreadyFired = [c \in Conditions |-> FALSE] /\ ran = {}
  /\ lost = [second \in BOOLEAN |-> IF sensorKind = "distance" THEN 0 ELSE MostRetries + 1]
  /\ good = [second \in BOOLEAN |-> Lost]
  /\ everChanged = FALSE

SensorNext ==
  /\ UNCHANGED sensorKind
  /\ \/ ReadTemperature \/ ReadBme
     \/ \E echo \in Echoes : ReadDistance(echo)
     \/ \E level \in BOOLEAN : OnFastTimer(level)
     \/ ResetCounter \/ SwitchBinary \/ ReadBinary

SensorSpec == SensorInit /\ [][SensorNext]_sensorVars
-----------------------------------------------------------------------------
\* The action of a condition is run once when the value gets to where the condition holds,
\* never while it stays there, whatever happened between (a value that is not available, a
\* sensor that does not answer); turning on and off is told once.  Before its first change
\* the channel shows the value of its start, which no condition has seen.
CrossingFires ==
  [][ everChanged =>
        /\ \A c \in Conditional :
             c \in ran' <=> ConditionHolds(c, sensorShown') /\ ~ConditionHolds(c, sensorShown)
        /\ sensorKind = "binary" =>
             ran' = IF sensorShown'[FALSE] # sensorShown[FALSE] THEN Events(sensorShown')
                    ELSE {} ]_sensorVars

\* A sensor that loses up to MostRetries answers in a row shows its last reading; with one
\* more lost it shows that it has none, until the next answer.  A plain thermometer shows that
\* at once.  The distance sensor shows it too, but no longer than its count of lost echoes
\* tells them: when that has run over, the old echoes are shown again.  (A BME280 is not in
\* this: what it does not answer after another begin() becomes any number.)
EchoesCounted == IF CharSigned THEN CharRange \div 2 ELSE CharRange
DistanceShown ==
  /\ lost[FALSE] > MostRetries /\ lost[FALSE] < EchoesCounted =>
       sensorShown = Single(NotMeasured(FALSE))
  /\ everChanged /\ lost[FALSE] <= MostRetries =>
       sensorShown = Single(Limited(AdjustRange(MeanEcho(readouts))))
GoodOrNone(second) == IF lost[second] > MostRetries THEN NotMeasured(second) ELSE good[second]
SilenceIsShown ==
  /\ sensorKind \in {"dht", "si7021", "sht3x"} =>
       /\ \A second \in BOOLEAN : kept[second] = GoodOrNone(second)
       /\ everChanged => sensorShown = Corrected(kept)
  /\ sensorKind = "ds18b20" =>
       /\ kept[FALSE] = GoodOrNone(FALSE)
       /\ everChanged => sensorShown = Single(kept[FALSE])
  /\ sensorKind = "thermometer" =>
       /\ lost[FALSE] = 0 => sensorShown = Single(good[FALSE])
       /\ lost[FALSE] > 0 /\ everChanged => sensorShown = Single(NotMeasured(FALSE))
  /\ sensorKind = "distance" => DistanceShown

\* One wrong echo among five does not show.
WrongEchoIsDropped ==
  \A i \in 0 .. 4 :
    LET others == {readouts[j] : j \in (0 .. 4) \ {i}}
    IN readouts[i] > 0 => \A e \in others \ {0} : others = {e} => MeanEcho(readouts) = e

\* The two together.
ReadingIsHonest == SilenceIsShown /\ WrongEchoIsDropped
=============================================================================
