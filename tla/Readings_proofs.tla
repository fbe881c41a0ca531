-------------------------- MODULE Readings_proofs ---------------------------
(***************************************************************************)
(* Proofs about Sensor, Meter and PvMeter, for any readings, conditions,   *)
(* phases and replies: what they show is what the last answers said, and   *)
(* each condition fires when what is shown crosses it.                     *)
(***************************************************************************)
EXTENDS Sensor, Meter, PvMeter, SequenceTheorems, TLAPS

-----------------------------------------------------------------------------
(***************************************************************************)
(* Sensor: the conditions.                                                 *)
(***************************************************************************)

\* A condition that has fired is one that holds, and waits until it does not.
FiredInv ==
  /\ everChanged => \A c \in Conditional : alreadyFired[c] <=> ConditionHolds(c, sensorShown)
  /\ sensorKind = "binary" => \E v : sensorShown = Plain(v)

\* What CrossingFires says of one step.
Crosses ==
  everChanged =>
    /\ \A c \in Conditional :
         c \in ran' <=> ConditionHolds(c, sensorShown') /\ ~ConditionHolds(c, sensorShown)
    /\ sensorKind = "binary" =>
         ran' = IF sensorShown'[FALSE] # sensorShown[FALSE] THEN Events(sensorShown') ELSE {}

\* The channel gets a value.
LEMMA ConditionsLemma ==
  ASSUME FiredInv, NEW numbers, SetNewValue(numbers), sensorKind' = sensorKind,
         sensorKind = "binary" => \E v : numbers = Plain(v)
  PROVE  FiredInv' /\ Crosses
<1>1. CASE numbers = sensorShown /\ ran' = {} /\ UNCHANGED <<alreadyFired, everChanged>>
  <2>1. sensorShown' = sensorShown
    BY <1>1 DEF SetNewValue
  <2>2. FiredInv'
    BY <1>1, <2>1 DEF FiredInv, Conditional, ConditionHolds, IsValid, Plain
  <2> QED
    BY <1>1, <2>1, <2>2 DEF Crosses
<1>2. CASE numbers # sensorShown /\ sensorShown' = numbers
           /\ ran' = {c \in Conditional : Fires(c, numbers)} \cup Events(numbers)
           /\ alreadyFired' = [c \in Conditions |->
                IF c \in Conditional THEN FiredAfter(c, numbers) ELSE alreadyFired[c]]
  <2>1. \A c \in Conditional : alreadyFired'[c] = ConditionHolds(c, numbers)
    BY <1>2 DEF Conditional, FiredAfter
  <2>2. /\ Conditional' = Conditional
        /\ \A c : ConditionHolds(c, sensorShown)' <=> ConditionHolds(c, numbers)
    BY <1>2 DEF Conditional, ConditionHolds, IsValid
  <2>3. sensorKind' = "binary" => \E v : sensorShown' = Plain(v)
    BY <1>2
  <2>4. FiredInv'
    BY <2>1, <2>2, <2>3 DEF FiredInv, Plain
  <2>5. ASSUME everChanged, NEW c \in Conditional
        PROVE  c \in ran' <=> ConditionHolds(c, sensorShown') /\ ~ConditionHolds(c, sensorShown)
    <3>1. Events(numbers) = {}
      BY <2>5 DEF Events, Conditional
    <3>2. c \in ran' <=> Fires(c, numbers)
      BY <1>2, <2>5, <3>1
    <3>3. alreadyFired[c] <=> ConditionHolds(c, sensorShown)
      BY <2>5 DEF FiredInv
    <3> QED
      BY <1>2, <3>2, <3>3 DEF Fires
  <2>6. ASSUME sensorKind = "binary"
        PROVE  ran' = IF sensorShown'[FALSE] # sensorShown[FALSE] THEN Events(sensorShown') ELSE {}
    <3>1. PICK v, w : sensorShown = Plain(v) /\ numbers = Plain(w)
      BY <2>6 DEF FiredInv
    <3>2. v # w
      BY <1>2, <3>1
    <3>3. sensorShown[FALSE] = v /\ sensorShown'[FALSE] = w
      BY <1>2, <3>1 DEF Plain
    <3>4. Conditional = {}
      BY <2>6 DEF Conditional
    <3> QED
      BY <1>2, <3>2, <3>3, <3>4
  <2> QED
    BY <2>4, <2>5, <2>6 DEF Crosses
<1> QED
  BY <1>1, <1>2 DEF SetNewValue

\* Every reading of every kind of sensor ends in it.
LEMMA SensorSets ==
  ASSUME SensorNext
  PROVE  \/ \E numbers : SetNewValue(numbers) /\ (sensorKind = "binary" => \E v : numbers = Plain(v))
         \/ /\ sensorKind = "binary" /\ ran' = {}
            /\ UNCHANGED <<sensorShown, alreadyFired, everChanged>>
<1> DEFINE Sets ==
      \E numbers : SetNewValue(numbers) /\ (sensorKind = "binary" => \E v : numbers = Plain(v))
<1>1. ReadTemperature => Sets
  BY DEF ReadTemperature, ReadPlain, ReadDs18b20, ReadDht, ReadSi7021, ReadSht3x, ReadBoth
<1>2. ReadBme => Sets
  <2> SUFFICES ASSUME ReadBme PROVE Sets
    OBVIOUS
  <2>1. PICK works \in BOOLEAN, first \in BOOLEAN : ReadBme280(works, first)
    BY DEF ReadBme
  <2>2. sensorKind = "bme280" /\ \E numbers : SetNewValue(numbers)
    BY <2>1 DEF ReadBme, ReadBme280
  <2> QED
    BY <2>2
<1>3. \A echo \in Echoes : ReadDistance(echo) => Sets
  BY DEF ReadDistance
<1>4. \A level \in BOOLEAN : OnFastTimer(level) => Sets
  BY DEF OnFastTimer
<1>5. ResetCounter => Sets
  BY DEF ResetCounter
<1>6. ReadBinary => Sets
  BY DEF ReadBinary
<1> QED
  BY <1>1, <1>2, <1>3, <1>4, <1>5, <1>6 DEF SensorNext, SwitchBinary

\* Conditions fire at the crossing.
THEOREM ConditionsFireOnce == SensorSpec => CrossingFires
<1>1. SensorInit => FiredInv
  <2>1. SensorInit => ~everChanged /\ \E v : sensorShown = Plain(v)
    BY DEF SensorInit
  <2> QED
    BY <2>1 DEF FiredInv
<1>2. FiredInv /\ SensorNext => FiredInv' /\ Crosses
  <2> SUFFICES ASSUME FiredInv, SensorNext PROVE FiredInv' /\ Crosses
    OBVIOUS
  <2>1. sensorKind' = sensorKind
    BY DEF SensorNext
  <2>2. ASSUME NEW numbers, SetNewValue(numbers),
               sensorKind = "binary" => \E v : numbers = Plain(v)
        PROVE  FiredInv' /\ Crosses
    BY <2>1, <2>2, ConditionsLemma
  <2>3. CASE sensorKind = "binary" /\ ran' = {}
             /\ UNCHANGED <<sensorShown, alreadyFired, everChanged>>
    <3>1. Conditional = {} /\ Conditional' = {} /\ \E v : sensorShown = Plain(v)
      BY <2>1, <2>3 DEF Conditional, FiredInv
    <3> QED
      BY <2>3, <3>1 DEF FiredInv, Crosses, Plain
  <2> QED
    BY <2>2, <2>3, SensorSets
<1>3. FiredInv /\ UNCHANGED sensorVars => FiredInv'
  BY DEF FiredInv, sensorVars, Conditional, ConditionHolds, IsValid, Plain
<1>4. FiredInv /\ [SensorNext]_sensorVars => FiredInv' /\ [Crosses]_sensorVars
  BY <1>2, <1>3
<1>5. CrossingFires <=> [][Crosses]_sensorVars
  BY DEF CrossingFires, Crosses
<1> QED
  BY <1>1, <1>4, <1>5, PTL DEF SensorSpec

-----------------------------------------------------------------------------
(***************************************************************************)
(* Sensor: the readings.                                                   *)
(***************************************************************************)
CountedFrom(second, count) ==
  /\ retries[count] \in 0 .. MostRetries /\ lost[second] \in 0 .. MostRetries + 1
  /\ lost[second] <= MostRetries => retries[count] = lost[second] /\ kept[second] = good[second]
  /\ lost[second] > MostRetries => kept[second] = NotMeasured(second)

SilenceInv ==
  /\ {DOMAIN kept, DOMAIN retries, DOMAIN lost, DOMAIN good} = {BOOLEAN}
  /\ sensorKind = "dht" => \A second \in BOOLEAN : CountedFrom(second, second)
  /\ sensorKind = "ds18b20" => CountedFrom(FALSE, FALSE)
  /\ sensorKind \in {"si7021", "sht3x"} => CountedFrom(FALSE, FALSE) /\ CountedFrom(TRUE, FALSE)
  /\ sensorKind \in {"si7021", "sht3x"} => lost[TRUE] = lost[FALSE]

EchoesInv == readouts \in [0 .. 4 -> Echoes] /\ index \in 0 .. 4

\* What is shown of it, and the count of the echoes in a row that were lost.
SensorShownInv ==
  /\ sensorKind \in {"dht", "si7021", "sht3x"} /\ everChanged => sensorShown = Corrected(kept)
  /\ sensorKind = "ds18b20" /\ everChanged => sensorShown = Single(kept[FALSE])
  /\ sensorKind = "thermometer" =>
       /\ lost[FALSE] \in Nat
       /\ lost[FALSE] = 0 => sensorShown = Single(good[FALSE])
       /\ lost[FALSE] > 0 /\ everChanged => sensorShown = Single(NotMeasured(FALSE))
  /\ sensorKind = "distance" =>
       /\ lost[FALSE] \in 0 .. CharRange /\ failCount \in 0 .. CharRange - 1
       /\ lost[FALSE] < CharRange => failCount = lost[FALSE]
       /\ DistanceShown

\* An answer or its loss, for one value.
LEMMA CountedLemma ==
  ASSUME NEW second \in BOOLEAN, NEW count \in BOOLEAN, CountedFrom(second, count), NEW answer,
         sensorKind' = sensorKind,
         retries'[count] = RetriesOf(answer, count),
         kept'[second] = IF answer # Lost THEN answer
                         ELSE IF GivesUp(count) THEN NotMeasured(second) ELSE kept[second],
         lost'[second] = IF answer # Lost THEN 0
           ELSE IF lost[second] <= MostRetries THEN lost[second] + 1 ELSE lost[second],
         good'[second] = IF answer # Lost THEN answer ELSE good[second]
  PROVE  CountedFrom(second, count)'
<1>1. MostRetries \in Nat
  BY SensorAssumption
<1>2. NotMeasured(second)' = NotMeasured(second)
  BY DEF NotMeasured
<1>3. CASE answer # Lost
  BY <1>1, <1>3 DEF CountedFrom, RetriesOf
<1>4. CASE answer = Lost
  BY <1>1, <1>2, <1>4 DEF CountedFrom, RetriesOf, GivesUp
<1> QED
  BY <1>3, <1>4

\* What the mean drops.
LEMMA WrongEchoLemma == EchoesInv => WrongEchoIsDropped
<1> SUFFICES ASSUME EchoesInv, NEW i \in 0 .. 4, readouts[i] > 0,
                    NEW e \in {readouts[j] : j \in (0 .. 4) \ {i}} \ {0},
                    {readouts[j] : j \in (0 .. 4) \ {i}} = {e}
             PROVE  MeanEcho(readouts) = e
  BY DEF WrongEchoIsDropped
<1>1. \A j \in 0 .. 4 : readouts[j] \in Nat
  BY SensorAssumption DEF EchoesInv
<1>2. \A j \in 0 .. 4 : j # i => readouts[j] = e
  OBVIOUS
<1>3. e \in Nat /\ e > 0
  BY <1>1
<1>4. PICK k \in 0 .. 4 : k # i
  OBVIOUS
<1> DEFINE low == IF readouts[i] < e THEN readouts[i] ELSE e
           high == IF readouts[i] < e THEN e ELSE readouts[i]
           all == {readouts[j] : j \in 0 .. 4}
<1>5. readouts[i] \in all /\ e \in all /\ \A x \in all : x = e \/ x = readouts[i]
  BY <1>2, <1>4
<1>6. Shortest(readouts) = low
  <2>1. low \in all /\ \A j \in 0 .. 4 : low <= readouts[j]
    BY <1>1, <1>2, <1>3, <1>5
  <2>2. \A x \in all : (\A j \in 0 .. 4 : x <= readouts[j]) => x = low
    BY <1>1, <1>3, <1>4, <1>2, <1>5
  <2> QED
    BY <2>1, <2>2 DEF Shortest
<1>7. Longest(readouts) = high
  <2>1. high \in all /\ \A j \in 0 .. 4 : high >= readouts[j]
    BY <1>1, <1>2, <1>3, <1>5
  <2>2. \A x \in all : (\A j \in 0 .. 4 : x >= readouts[j]) => x = high
    BY <1>1, <1>3, <1>4, <1>2, <1>5
  <2> QED
    BY <2>1, <2>2 DEF Longest
<1>8. SumOf(readouts) = 4 * e + readouts[i]
  <2>1. i = 0 \/ i = 1 \/ i = 2 \/ i = 3 \/ i = 4
    OBVIOUS
  <2> QED
    BY <1>1, <1>2, <1>3, <2>1 DEF SumOf
<1>9. SumOf(readouts) - Shortest(readouts) - Longest(readouts) = 3 * e
  BY <1>1, <1>3, <1>6, <1>7, <1>8
<1>10. Heard(readouts) = 0 .. 4
  BY <1>2, <1>3 DEF Heard
<1>11. (3 * e) \div 3 = e
  BY <1>3
<1> QED
  BY <1>9, <1>10, <1>11 DEF MeanEcho

\* A step keeps what is counted.
LEMMA SilenceStep == ASSUME SilenceInv, SensorNext PROVE SilenceInv'
<1>1. sensorKind' = sensorKind
  BY DEF SensorNext
<1>2. DOMAIN kept = BOOLEAN /\ DOMAIN retries = BOOLEAN /\ DOMAIN lost = BOOLEAN
      /\ DOMAIN good = BOOLEAN
  BY DEF SilenceInv
<1>3. CASE UNCHANGED <<kept, retries, lost, good>>
  <2>1. kept' = kept /\ retries' = retries /\ lost' = lost /\ good' = good
    BY <1>3
  <2>2. \A second, count \in BOOLEAN : CountedFrom(second, count) => CountedFrom(second, count)'
    BY <1>1, <2>1 DEF CountedFrom, NotMeasured
  <2> QED
    BY <1>1, <2>1, <2>2, Zenon DEF SilenceInv
<1>4. ASSUME NEW answer \in Answers, ReadDs18b20(answer) PROVE SilenceInv'
  <2>1. /\ sensorKind = "ds18b20"
        /\ kept' = [kept EXCEPT ![FALSE] = LastOf(answer, FALSE)]
        /\ retries' = [retries EXCEPT ![FALSE] = RetriesOf(answer, FALSE)]
        /\ Noted([second \in BOOLEAN |-> answer])
    BY <1>4 DEF ReadDs18b20
  <2>2. CountedFrom(FALSE, FALSE)'
    BY <1>1, <1>2, <2>1, CountedLemma DEF SilenceInv, Noted, LastOf
  <2>3. DOMAIN kept' = BOOLEAN /\ DOMAIN retries' = BOOLEAN /\ DOMAIN lost' = BOOLEAN
        /\ DOMAIN good' = BOOLEAN
    BY <1>2, <2>1 DEF Noted
  <2> QED
    BY <1>1, <2>1, <2>2, <2>3 DEF SilenceInv
<1>5. ASSUME NEW answers \in [BOOLEAN -> Answers], ReadDht(answers) PROVE SilenceInv'
  <2>1. /\ sensorKind = "dht"
        /\ kept' = [second \in BOOLEAN |-> LastOf(answers[second], second)]
        /\ retries' = [second \in BOOLEAN |-> RetriesOf(answers[second], second)]
        /\ Noted(answers)
    BY <1>5 DEF ReadDht
  <2>2. ASSUME NEW second \in BOOLEAN PROVE CountedFrom(second, second)'
    <3>1. CountedFrom(second, second)
      BY <2>1 DEF SilenceInv
    <3> QED
      BY <1>1, <2>1, <3>1, CountedLemma DEF Noted, LastOf
  <2>3. DOMAIN kept' = BOOLEAN /\ DOMAIN retries' = BOOLEAN /\ DOMAIN lost' = BOOLEAN
        /\ DOMAIN good' = BOOLEAN
    BY <2>1 DEF Noted
  <2> QED
    BY <1>1, <2>1, <2>2, <2>3 DEF SilenceInv
<1>6. ASSUME NEW answers \in [BOOLEAN -> Answers], sensorKind \in {"si7021", "sht3x"},
             ReadBoth(answers)
      PROVE  SilenceInv'
  <2>1. /\ answers[FALSE] = Lost <=> answers[TRUE] = Lost
        /\ kept' = IF answers[FALSE] # Lost THEN answers
             ELSE IF GivesUp(FALSE) THEN [second \in BOOLEAN |-> NotMeasured(second)] ELSE kept
        /\ retries' = [retries EXCEPT ![FALSE] = RetriesOf(answers[FALSE], FALSE)]
        /\ Noted(answers)
    <3>1. /\ answers[FALSE] = Lost => answers[~FALSE] = Lost
          /\ answers[TRUE] = Lost => answers[~TRUE] = Lost
      BY <1>6 DEF ReadBoth
    <3>2. ~FALSE = TRUE /\ ~TRUE = FALSE
      OBVIOUS
    <3> QED
      BY <1>6, <3>1, <3>2 DEF ReadBoth
  <2>2. /\ CountedFrom(FALSE, FALSE) /\ CountedFrom(TRUE, FALSE)
        /\ lost[TRUE] = lost[FALSE]
    BY <1>6 DEF SilenceInv
  <2>3. retries'[FALSE] = RetriesOf(answers[FALSE], FALSE)
    BY <1>2, <2>1
  <2>4. CountedFrom(FALSE, FALSE)'
    BY <1>1, <2>1, <2>2, <2>3, CountedLemma DEF Noted
  <2>5. CountedFrom(TRUE, FALSE)'
    <3>1. RetriesOf(answers[FALSE], FALSE) = RetriesOf(answers[TRUE], FALSE)
      BY <2>1 DEF RetriesOf
    <3> QED
      BY <1>1, <2>1, <2>2, <2>3, <3>1, CountedLemma DEF Noted
  <2>6. lost'[TRUE] = lost'[FALSE]
    BY <2>1, <2>2 DEF Noted
  <2>7. DOMAIN kept' = BOOLEAN /\ DOMAIN retries' = BOOLEAN /\ DOMAIN lost' = BOOLEAN
        /\ DOMAIN good' = BOOLEAN
    BY <1>2, <2>1 DEF Noted
  <2> QED
    BY <1>1, <1>6, <2>4, <2>5, <2>6, <2>7 DEF SilenceInv
<1>7. ReadTemperature => SilenceInv'
  <2>1. ASSUME NEW answer \in Answers, ReadPlain(answer) PROVE SilenceInv'
    BY <1>1, <1>2, <2>1 DEF ReadPlain, Noted, SilenceInv
  <2> QED
    BY <1>3, <1>4, <1>5, <1>6, <2>1 DEF ReadTemperature, ReadSi7021, ReadSht3x
<1>8. ASSUME NEW echo \in Echoes, ReadDistance(echo) PROVE SilenceInv'
  <2>1. DOMAIN lost' = BOOLEAN /\ UNCHANGED <<kept, retries, good>> /\ sensorKind = "distance"
    BY <1>2, <1>8 DEF ReadDistance
  <2> QED
    BY <1>1, <1>2, <2>1 DEF SilenceInv
<1>9. \/ ReadTemperature \/ \E echo \in Echoes : ReadDistance(echo)
      \/ UNCHANGED <<kept, retries, lost, good>>
  BY DEF SensorNext, ReadBme, OnFastTimer, ResetCounter, SwitchBinary, ReadBinary, ownVars
<1> QED
  BY <1>3, <1>7, <1>8, <1>9

\* The last five echoes are echoes.
LEMMA EchoesStep == ASSUME EchoesInv, SensorNext PROVE EchoesInv'
<1>1. ASSUME NEW echo \in Echoes, ReadDistance(echo) PROVE EchoesInv'
  <2>1. index' \in 0 .. 4
    BY <1>1 DEF ReadDistance, EchoesInv
  <2> QED
    BY <1>1, <2>1 DEF ReadDistance, EchoesInv
<1>2. \/ \E echo \in Echoes : ReadDistance(echo)
      \/ UNCHANGED <<readouts, index>>
  BY DEF SensorNext, ReadTemperature, ReadBme, OnFastTimer, ResetCounter, SwitchBinary,
         ReadBinary, ownVars
<1> QED
  BY <1>1, <1>2 DEF EchoesInv

\* What is shown goes with what is kept, and with the echoes.
LEMMA SensorShownStep ==
  ASSUME SilenceInv, SensorShownInv, SensorNext PROVE SensorShownInv'
<1>1. sensorKind' = sensorKind
  BY DEF SensorNext
<1>2. /\ DOMAIN lost = BOOLEAN /\ CharRange \in Nat /\ CharRange > 0
      /\ MostRetries \in Nat /\ CharRange > MostRetries + 1
  <2>1. DOMAIN lost = BOOLEAN
    BY DEF SilenceInv
  <2>2. CharRange \in Nat /\ MostRetries \in Nat /\ CharRange > MostRetries + 1
    BY SensorAssumption
  <2> QED
    BY <2>1, <2>2
<1>3. \A numbers : SetNewValue(numbers) => sensorShown' = numbers
  BY DEF SetNewValue
<1>4. ASSUME NEW answer \in Answers, ReadPlain(answer) PROVE SensorShownInv'
  <2>1. /\ sensorKind = "thermometer"
        /\ sensorShown' = Single(IF answer = Lost THEN NotMeasured(FALSE) ELSE answer)
        /\ lost'[FALSE] = IF answer # Lost THEN 0
                          ELSE IF lost[FALSE] <= MostRetries THEN lost[FALSE] + 1 ELSE lost[FALSE]
        /\ good'[FALSE] = IF answer # Lost THEN answer ELSE good[FALSE]
    BY <1>3, <1>4 DEF ReadPlain, Noted
  <2>2. lost[FALSE] \in Nat
    BY <2>1 DEF SensorShownInv
  <2>3. NotMeasured(FALSE)' = NotMeasured(FALSE)
    BY <1>1 DEF NotMeasured
  <2>4. answer # Lost => lost'[FALSE] = 0 /\ sensorShown' = Single(good'[FALSE])
    BY <2>1
  <2>5. answer = Lost => lost'[FALSE] \in Nat /\ lost'[FALSE] > 0
                         /\ sensorShown' = Single(NotMeasured(FALSE))
    <3>1. \A n \in Nat : (IF n <= MostRetries THEN n + 1 ELSE n) \in Nat \ {0}
      BY <1>2
    <3>2. \A n \in Nat \ {0} : n \in Nat /\ n > 0
      OBVIOUS
    <3> QED
      BY <2>1, <2>2, <3>1, <3>2, Zenon
  <2> QED
    <3>1. 0 \in Nat /\ ~(0 > 0) /\ \A n \in Nat : n > 0 => n # 0
      OBVIOUS
    <3>2. /\ lost'[FALSE] \in Nat
          /\ lost'[FALSE] = 0 => sensorShown' = Single(good'[FALSE])
          /\ lost'[FALSE] > 0 => sensorShown' = Single(NotMeasured(FALSE)')
      BY <2>3, <2>4, <2>5, <3>1, Zenon
    <3>3. sensorKind' = "thermometer"
      BY <1>1, <2>1
    <3> QED
      BY <3>2, <3>3, Zenon DEF SensorShownInv
<1>5. ASSUME NEW answer \in Answers, ReadDs18b20(answer) PROVE SensorShownInv'
  BY <1>1, <1>3, <1>5 DEF ReadDs18b20, SensorShownInv
<1>6. ASSUME NEW answers \in [BOOLEAN -> Answers],
             ReadDht(answers) \/ ReadSi7021(answers) \/ ReadSht3x(answers)
      PROVE  SensorShownInv'
  <2>1. sensorKind \in {"dht", "si7021", "sht3x"} /\ sensorShown' = Corrected(kept')
    BY <1>3, <1>6 DEF ReadDht, ReadSi7021, ReadSht3x, ReadBoth
  <2> QED
    BY <1>1, <2>1 DEF SensorShownInv
<1>7. ASSUME NEW echo \in Echoes, ReadDistance(echo) PROVE SensorShownInv'
  <2> DEFINE count == IF echo > 0 THEN 0 ELSE (failCount + 1) % CharRange
             losses == IF echo > 0 THEN 0 ELSE IF lost[FALSE] < CharRange THEN lost[FALSE] + 1
                       ELSE lost[FALSE]
             mean == Limited(AdjustRange(MeanEcho(readouts')))
  <2>1. /\ sensorKind = "distance" /\ failCount' = count /\ lost'[FALSE] = losses
        /\ sensorShown' = Single(IF IsFailing(count) THEN NotMeasured(FALSE) ELSE mean)
    BY <1>2, <1>3, <1>7 DEF ReadDistance
  <2>2. /\ lost[FALSE] \in 0 .. CharRange /\ failCount \in 0 .. CharRange - 1
        /\ lost[FALSE] < CharRange => failCount = lost[FALSE]
    BY <2>1 DEF SensorShownInv
  <2>3. echo = 0 \/ echo > 0
    BY SensorAssumption
  <2>4. /\ losses \in 0 .. CharRange /\ count \in 0 .. CharRange - 1
        /\ losses < CharRange => count = losses
    <3>1. failCount + 1 < CharRange => (failCount + 1) % CharRange = failCount + 1
      BY <1>2, <2>2
    <3>2. (failCount + 1) % CharRange \in 0 .. CharRange - 1
      BY <1>2, <2>2
    <3>3. CASE echo > 0
      BY <1>2, <3>3
    <3>4. CASE ~(echo > 0)
      <4>1. \A l \in 0 .. CharRange :
              /\ (IF l < CharRange THEN l + 1 ELSE l) \in 0 .. CharRange
              /\ (IF l < CharRange THEN l + 1 ELSE l) < CharRange =>
                   l + 1 < CharRange /\ (IF l < CharRange THEN l + 1 ELSE l) = l + 1
        BY <1>2
      <4>2. /\ (IF lost[FALSE] < CharRange THEN lost[FALSE] + 1 ELSE lost[FALSE]) \in 0 .. CharRange
            /\ (IF lost[FALSE] < CharRange THEN lost[FALSE] + 1 ELSE lost[FALSE]) < CharRange =>
                 lost[FALSE] + 1 < CharRange
                 /\ (IF lost[FALSE] < CharRange THEN lost[FALSE] + 1 ELSE lost[FALSE])
                      = lost[FALSE] + 1
        BY <2>2, <4>1, Zenon
      <4>3. \A l \in 0 .. CharRange : l + 1 < CharRange => l < CharRange
        BY <1>2
      <4>4. lost[FALSE] + 1 < CharRange => (failCount + 1) % CharRange = lost[FALSE] + 1
        BY <2>2, <3>1, <4>3, Zenon
      <4>5. /\ losses = IF lost[FALSE] < CharRange THEN lost[FALSE] + 1 ELSE lost[FALSE]
            /\ count = (failCount + 1) % CharRange
        BY <3>4
      <4> HIDE DEF losses, count
      <4> QED
        BY <3>2, <4>2, <4>4, <4>5, Zenon
    <3> QED
      BY <3>3, <3>4
  <2> HIDE DEF count, losses, mean
  <2>5. EchoesCounted \in Nat /\ EchoesCounted <= CharRange /\ (CharSigned => EchoesCounted = CharRange \div 2)
    BY <1>2 DEF EchoesCounted
  <2>6. losses > MostRetries /\ losses < EchoesCounted =>
          sensorShown' = Single(NotMeasured(FALSE))
    <3>1. losses > MostRetries /\ losses < EchoesCounted => IsFailing(count)
      BY <1>2, <2>4, <2>5, SensorAssumption DEF IsFailing
    <3> QED
      BY <2>1, <3>1
  <2>7. losses <= MostRetries => sensorShown' = Single(mean)
    <3>1. losses <= MostRetries => ~IsFailing(count)
      BY <1>2, <2>4 DEF IsFailing
    <3> QED
      BY <2>1, <3>1
  <2>8. DistanceShown'
    <3>1. EchoesCounted' = EchoesCounted /\ mean = Limited(AdjustRange(MeanEcho(readouts)))'
      BY DEF EchoesCounted, mean
    <3>2. NotMeasured(FALSE)' = NotMeasured(FALSE)
      BY <1>1 DEF NotMeasured
    <3> QED
      BY <2>1, <2>6, <2>7, <3>1, <3>2 DEF DistanceShown
  <2> QED
    BY <1>1, <2>1, <2>4, <2>8 DEF SensorShownInv
<1>8. ASSUME UNCHANGED <<kept, lost, good, failCount, readouts>>,
             sensorKind \in {"bme280", "counter", "binary"}
      PROVE  SensorShownInv'
  BY <1>1, <1>8 DEF SensorShownInv
<1>9. ReadBme \/ ResetCounter \/ SwitchBinary \/ ReadBinary
      \/ (\E level \in BOOLEAN : OnFastTimer(level)) => SensorShownInv'
  BY <1>8 DEF ReadBme, ResetCounter, SwitchBinary, ReadBinary, OnFastTimer, ownVars
<1> QED
  BY <1>4, <1>5, <1>6, <1>7, <1>9 DEF SensorNext, ReadTemperature

\* What is shown of a thermometer, a hygrometer or a distance sensor that is silent, of all but the
\* BME280, and of one wrong echo.
THEOREM SensorsAreHonest == SensorSpec => []ReadingIsHonest
<1> DEFINE Inv == SilenceInv /\ EchoesInv /\ SensorShownInv
<1>1. SensorInit => Inv
  <2> SUFFICES ASSUME SensorInit PROVE Inv
    OBVIOUS
  <2>1. MostRetries \in Nat /\ 0 \in Echoes /\ CharRange \in Nat /\ CharRange > 0
    BY SensorAssumption
  <2>2. sensorKind # "distance" => \A second, count \in BOOLEAN : CountedFrom(second, count)
    BY <2>1 DEF SensorInit, CountedFrom
  <2>3. {DOMAIN kept, DOMAIN retries, DOMAIN lost, DOMAIN good} = {BOOLEAN} /\ lost[TRUE] = lost[FALSE]
    BY DEF SensorInit
  <2>4. SilenceInv
    BY <2>2, <2>3 DEF SilenceInv
  <2>5. EchoesInv
    BY <2>1 DEF SensorInit, EchoesInv
  <2>6. SensorShownInv
    <3>1. ~everChanged /\ failCount = 0
      BY DEF SensorInit
    <3>2. lost[FALSE] = IF sensorKind = "distance" THEN 0 ELSE MostRetries + 1
      BY DEF SensorInit
    <3>3. sensorKind = "distance" => DistanceShown
      <4>1. ~(0 > MostRetries)
        BY <2>1
      <4> QED
        BY <3>1, <3>2, <4>1, Zenon DEF DistanceShown
    <3>4. CASE sensorKind = "distance"
      <4>1. lost[FALSE] = 0 /\ 0 \in 0 .. CharRange /\ 0 \in 0 .. CharRange - 1
        BY <2>1, <3>2, <3>4
      <4> QED
        BY <3>1, <3>3, <3>4, <4>1, Zenon DEF SensorShownInv
    <3>5. CASE sensorKind # "distance"
      <4>1. lost[FALSE] = MostRetries + 1 /\ MostRetries + 1 \in Nat /\ MostRetries + 1 # 0
        BY <2>1, <3>2, <3>5
      <4> QED
        BY <3>1, <3>5, <4>1, Zenon DEF SensorShownInv
    <3> QED
      BY <3>4, <3>5
  <2> QED
    BY <2>4, <2>5, <2>6
<1>2. Inv /\ [SensorNext]_sensorVars => Inv'
  <2>1. Inv /\ UNCHANGED sensorVars => Inv'
    <3> SUFFICES ASSUME SilenceInv, EchoesInv, SensorShownInv, UNCHANGED sensorVars
                 PROVE  SilenceInv' /\ EchoesInv' /\ SensorShownInv'
      OBVIOUS
    <3>1. UNCHANGED <<sensorKind, kept, retries, lost, good>> /\ UNCHANGED <<readouts, index>>
          /\ UNCHANGED <<everChanged, sensorShown, failCount>>
      BY DEF sensorVars, ownVars
    <3>2. SilenceInv'
      <4>1. \A second, count : CountedFrom(second, count)' <=> CountedFrom(second, count)
        BY <3>1 DEF CountedFrom, NotMeasured
      <4> QED
        BY <3>1, <4>1, Zenon DEF SilenceInv
    <3>3. EchoesInv'
      BY <3>1 DEF EchoesInv
    <3>4. SensorShownInv'
      BY <3>1 DEF SensorShownInv, DistanceShown, NotMeasured
    <3> QED
      BY <3>2, <3>3, <3>4
  <2> QED
    BY <2>1, SilenceStep, EchoesStep, SensorShownStep
<1>3. SilenceInv /\ SensorShownInv => SilenceIsShown
  <2> SUFFICES ASSUME SilenceInv, SensorShownInv PROVE SilenceIsShown
    OBVIOUS
  <2>1. MostRetries \in Nat
    BY SensorAssumption
  <2>2. ASSUME NEW second \in BOOLEAN, NEW count \in BOOLEAN, CountedFrom(second, count)
        PROVE  kept[second] = GoodOrNone(second)
    BY <2>1, <2>2 DEF CountedFrom, GoodOrNone
  <2>3. /\ sensorKind \in {"dht", "si7021", "sht3x"} =>
             \A second \in BOOLEAN : kept[second] = GoodOrNone(second)
        /\ sensorKind = "ds18b20" => kept[FALSE] = GoodOrNone(FALSE)
    BY <2>2 DEF SilenceInv
  <2> QED
    BY <2>3 DEF SensorShownInv, SilenceIsShown
<1>4. Inv => ReadingIsHonest
  BY <1>3, WrongEchoLemma DEF ReadingIsHonest
<1> HIDE DEF Inv
<1> QED
  BY <1>1, <1>2, <1>4, PTL DEF SensorSpec

-----------------------------------------------------------------------------
(***************************************************************************)
(* Meter.                                                                  *)
(***************************************************************************)
Polls == [Phases -> PhaseReadings \cup {Silent}]
Tables == [Measured -> [Phases -> Nat]]
OnOver(raw) == \E p \in Phases : raw[p] > OverLimit
FlagOf(raw) == IF OnOver(raw) THEN "current_over_65a" ELSE "current"
CurrentOf(raw) == [p \in Phases |-> IF OnOver(raw) THEN raw[p] \div Coarse ELSE raw[p]]

\* What is published are the fields, with the current to the precision that its flag states.
\* Once a value was read, and so before anything is published, the current is available.
FieldsInv ==
  /\ rawCurrent \in [Phases -> Nat] /\ m \in Tables
  /\ measured_values # {} => currentMeasurementAvailable = TRUE
  /\ meterShown # NotYet =>
       /\ measured_values # {}
       /\ meterShown.m = m /\ meterShown.energy = energy
       /\ m["current"] = CurrentOf(rawCurrent) /\ FlagOf(rawCurrent) \in meterShown.measured
       /\ phasesOn = {p \in Phases : m["voltage"][p] > 0}
       /\ \A c \in MeterConditions : meterFired[c] = MeterHolds(meterShown, c)

\* They are what the phases said.
Silence(p, name) == IF p \in heard THEN LastSaid(p, name) ELSE 0
TakenInv ==
  /\ taken \in Polls /\ heard \subseteq Phases
  /\ measured_values = {} => heard = {}
  /\ \A p \in heard : taken[p] # Silent
  /\ \A p \in Phases :
       /\ rawCurrent[p] = LastSaid(p, "current") /\ energy[p] = LastSaid(p, "energy")
       /\ m["voltage"][p] = Silence(p, "voltage") /\ m["power_active"][p] = Silence(p, "power_active")
  /\ meterShown # NotYet /\ heard = {} =>
       meterShown.measured \subseteq {"current", "current_over_65a"}

MeterInv == FieldsInv /\ TakenInv

\* The fields as a record.
Record(raw, available, table, energies, measured, changed) ==
  [raw |-> raw, available |-> available, m |-> table, energy |-> energies,
   measured |-> measured, changed |-> changed]

\* What an answer sets.
RawSet(answers) == Put(rawCurrent, answers, "current")
EnergySet(answers) == Put(energy, answers, "energy")
TableSet(answers) ==
  [name \in Measured |-> IF name = "current" THEN m[name] ELSE Put(m[name], answers, name)]
MeasuredSet == measured_values \cup {"voltage", "power_active", "energy"}
ChangedSet(answers) ==
  TableSet(answers) # m \/ EnergySet(answers) # energy \/ RawSet(answers) # rawCurrent

\* What a poll makes of the fields, one by one.
LEMMA SetFields ==
  ASSUME FieldsInv, NEW answers \in Polls
  PROVE  /\ RawSet(answers) \in [Phases -> Nat] /\ TableSet(answers) \in Tables
         /\ "voltage" \in MeasuredSet /\ TableSet(answers)["current"] = m["current"]
         /\ RawSet(answers) = Put(rawCurrent, answers, "current")
         /\ TableSet(answers)["voltage"] = Put(m["voltage"], answers, "voltage")
         /\ TableSet(answers)["power_active"] = Put(m["power_active"], answers, "power_active")
<1>1. \A p \in Phases, name \in Shapes : answers[p] # Silent => answers[p][name] \in Nat
  BY MeterAssumption DEF Polls
<1>2. RawSet(answers) \in [Phases -> Nat]
  BY <1>1 DEF RawSet, Put, FieldsInv, Shapes
<1>3. m \in [Measured -> [Phases -> Nat]]
  BY DEF FieldsInv, Tables
<1>4. \A name \in {"voltage", "power_active"} : Put(m[name], answers, name) \in [Phases -> Nat]
  BY <1>1, <1>3 DEF Put, Measured, Shapes
<1>5. /\ TableSet(answers) \in Tables /\ TableSet(answers)["current"] = m["current"]
      /\ TableSet(answers)["voltage"] = Put(m["voltage"], answers, "voltage")
      /\ TableSet(answers)["power_active"] = Put(m["power_active"], answers, "power_active")
  BY <1>3, <1>4 DEF TableSet, Tables, Measured
<1> QED
  BY <1>2, <1>5 DEF RawSet, MeasuredSet

\* They are the fields the poll sets.
LEMMA SetIsMeter ==
  ASSUME FieldsInv, NEW answers
  PROVE  Set(Fields, answers) = Record(RawSet(answers), TRUE, TableSet(answers),
                                       EnergySet(answers), MeasuredSet, ChangedSet(answers))
<1>1. /\ Fields.raw = rawCurrent /\ Fields.m = m /\ Fields.energy = energy
      /\ Fields.measured = measured_values
  BY DEF Fields
<1> QED
  BY <1>1 DEF Set, Record, RawSet, TableSet, EnergySet, MeasuredSet, ChangedSet

\* What a change publishes.
LEMMA PublishLemma ==
  ASSUME NEW raw \in [Phases -> Nat], NEW table \in Tables, NEW energies, NEW measured,
         Publish(Record(raw, TRUE, table, energies, measured, TRUE))
  PROVE  /\ rawCurrent' = raw /\ currentMeasurementAvailable' = TRUE /\ energy' = energies
         /\ m' \in Tables /\ m'["current"] = CurrentOf(raw)
         /\ m'["voltage"] = table["voltage"] /\ m'["power_active"] = table["power_active"]
         /\ measured_values' = (measured \ {"current", "current_over_65a"}) \cup {FlagOf(raw)}
         /\ meterShown' = [m |-> m', energy |-> energies, measured |-> measured_values']
         /\ phasesOn' = On(meterShown')
         /\ meterFired' = [c \in MeterConditions |-> MeterHolds(meterShown', c)]
<1> DEFINE f == Record(raw, TRUE, table, energies, measured, TRUE)
           with == [table EXCEPT !["current"] = CurrentOf(raw)]
           flags == (measured \ {"current", "current_over_65a"}) \cup {FlagOf(raw)}
<1>1. Over65A(f) <=> OnOver(raw)
  BY DEF Over65A, OnOver, Record
<1>2. Flag(f) = FlagOf(raw)
  BY <1>1 DEF Flag, FlagOf
<1>3. [p \in Phases |-> IF Over65A(f) THEN f.raw[p] \div Coarse ELSE f.raw[p]] = CurrentOf(raw)
  BY <1>1 DEF CurrentOf, Record
<1>5. /\ WithCurrent(f).raw = raw /\ WithCurrent(f).available = TRUE
      /\ WithCurrent(f).energy = energies /\ WithCurrent(f).m = with
      /\ WithCurrent(f).measured = flags
  <2>1. f.available = TRUE /\ f.raw = raw /\ f.energy = energies /\ f.m = table
        /\ f.measured = measured
    BY DEF Record
  <2> HIDE DEF f
  <2> QED
    BY <1>2, <1>3, <2>1 DEF WithCurrent
<1>6. CurrentOf(raw) \in [Phases -> Nat]
  BY MeterAssumption DEF CurrentOf
<1>7. with \in Tables /\ with["current"] = CurrentOf(raw) /\ with["voltage"] = table["voltage"]
      /\ with["power_active"] = table["power_active"]
  BY <1>6 DEF Tables, Measured
<1>8. f.changed = TRUE
  BY DEF Record
<1> HIDE DEF f, with, flags
<1>9. /\ rawCurrent' = raw /\ currentMeasurementAvailable' = TRUE /\ energy' = energies
      /\ m' = with /\ measured_values' = flags
      /\ meterShown' = [m |-> with, energy |-> energies, measured |-> flags]
      /\ phasesOn' = On(meterShown')
      /\ meterFired' = [c \in MeterConditions |-> MeterHolds(meterShown', c)]
  BY <1>5, <1>8 DEF Publish, Record, f
<1> QED
  BY <1>7, <1>9 DEF flags

\* What is left when nothing changed.
LEMMA SameLemma ==
  ASSUME NEW raw, NEW available, NEW table, NEW energies, NEW measured,
         Publish(Record(raw, available, table, energies, measured, FALSE))
  PROVE  /\ m' = table /\ energy' = energies /\ measured_values' = measured
         /\ rawCurrent' = raw /\ currentMeasurementAvailable' = available
         /\ UNCHANGED <<meterShown, phasesOn, meterFired>>
<1> DEFINE f == Record(raw, available, table, energies, measured, FALSE)
<1>1. f.changed = FALSE /\ f.m = table /\ f.measured = measured /\ f.raw = raw
      /\ f.energy = energies /\ f.available = available
  BY DEF Record
<1>2. /\ WithCurrent(f).raw = raw /\ WithCurrent(f).energy = energies
      /\ WithCurrent(f).available = available
  BY DEF WithCurrent, Record
<1> HIDE DEF f
<1> QED
  BY <1>1, <1>2 DEF Publish, f

\* An answer is published, unless it says what is published already.
LEMMA AnswerLemma ==
  ASSUME FieldsInv, NEW answers \in Polls, Publish(Set(Fields, answers))
  PROVE  /\ FieldsInv' /\ measured_values' # {}
         /\ rawCurrent' = RawSet(answers) /\ energy' = EnergySet(answers)
         /\ m'["voltage"] = TableSet(answers)["voltage"]
         /\ m'["power_active"] = TableSet(answers)["power_active"]
<1> DEFINE raw == RawSet(answers)
           table == TableSet(answers)
           energies == EnergySet(answers)
           measured == MeasuredSet
           changed == ChangedSet(answers)
<1>1. /\ Set(Fields, answers) = Record(raw, TRUE, table, energies, measured, changed)
      /\ raw \in [Phases -> Nat] /\ table \in Tables
      /\ "voltage" \in measured
      /\ table["current"] = m["current"]
  BY SetIsMeter, SetFields
<1>0. /\ ~changed => raw = rawCurrent /\ table = m /\ energies = energy
      /\ changed \in BOOLEAN
  BY DEF ChangedSet
<1> HIDE DEF raw, table, energies, measured, changed
<1>2. /\ FieldsInv' /\ measured_values' # {}
      /\ rawCurrent' = raw /\ energy' = energies
      /\ m'["voltage"] = table["voltage"] /\ m'["power_active"] = table["power_active"]
  <2>1. CASE changed
    <3>1. changed = TRUE
      BY <1>0, <2>1
    <3>2. Publish(Record(raw, TRUE, table, energies, measured, TRUE))
      BY <1>1, <3>1
    <3>3. /\ rawCurrent' = raw /\ currentMeasurementAvailable' = TRUE /\ energy' = energies
          /\ m' \in Tables /\ m'["current"] = CurrentOf(raw)
          /\ m'["voltage"] = table["voltage"] /\ m'["power_active"] = table["power_active"]
          /\ measured_values' = (measured \ {"current", "current_over_65a"}) \cup {FlagOf(raw)}
          /\ meterShown' = [m |-> m', energy |-> energies, measured |-> measured_values']
          /\ phasesOn' = On(meterShown')
          /\ meterFired' = [c \in MeterConditions |-> MeterHolds(meterShown', c)]
      BY <1>1, <3>2, PublishLemma
    <3>4. /\ measured_values' # {} /\ FlagOf(rawCurrent)' \in measured_values'
          /\ "voltage" \in measured_values'
      BY <1>1, <3>3 DEF FlagOf, OnOver
    <3>5. meterShown'.m = m' /\ meterShown'.energy = energy' /\ meterShown'.measured = measured_values'
      BY <3>3
    <3>6. phasesOn' = {p \in Phases : m'["voltage"][p] > 0}
      BY <3>3, <3>4, <3>5 DEF On
    <3>7. \A c \in MeterConditions : meterFired'[c] = MeterHolds(meterShown, c)'
      BY <3>3 DEF MeterHolds, HasValue, GetValue, Factor
    <3>8. CurrentOf(rawCurrent)' = CurrentOf(raw)
      BY <3>3 DEF CurrentOf, OnOver
    <3>9. FieldsInv'
      <4>1. rawCurrent' \in [Phases -> Nat] /\ m' \in Tables
        BY <1>1, <3>3
      <4>2. m'["current"] = CurrentOf(rawCurrent)' /\ FlagOf(rawCurrent)' \in meterShown'.measured
        BY <3>3, <3>4, <3>5, <3>8
      <4> QED
        BY <3>3, <3>4, <3>5, <3>6, <3>7, <4>1, <4>2 DEF FieldsInv
    <3> QED
      BY <3>3, <3>4, <3>9
  <2>2. CASE ~changed
    <3>1. changed = FALSE
      BY <1>0, <2>2
    <3>2. Publish(Record(raw, TRUE, table, energies, measured, FALSE))
      BY <1>1, <3>1
    <3>3. /\ m' = table /\ energy' = energies /\ measured_values' = measured
          /\ rawCurrent' = raw /\ currentMeasurementAvailable' = TRUE
          /\ UNCHANGED <<meterShown, phasesOn, meterFired>>
      BY <3>2, SameLemma
    <3>4. raw = rawCurrent /\ table = m /\ energies = energy /\ measured # {}
      BY <1>0, <1>1, <2>2
    <3>5. (\A c : MeterHolds(meterShown, c)' = MeterHolds(meterShown, c))
          /\ CurrentOf(rawCurrent)' = CurrentOf(rawCurrent) /\ FlagOf(rawCurrent)' = FlagOf(rawCurrent)
      BY <3>3, <3>4 DEF MeterHolds, HasValue, GetValue, Factor, CurrentOf, FlagOf, OnOver
    <3>6. FieldsInv'
      BY <3>3, <3>4, <3>5 DEF FieldsInv
    <3> QED
      BY <3>3, <3>4, <3>6
  <2> QED
    BY <2>1, <2>2
<1> QED
  BY <1>2 DEF raw, table, energies

\* No answer: what can be reset is.
LEMMA SilentLemma ==
  ASSUME FieldsInv, Publish(ResetReadParameters(Fields))
  PROVE  /\ FieldsInv' /\ rawCurrent' = rawCurrent /\ energy' = energy
         /\ meterShown' # NotYet => meterShown'.measured \subseteq {"current", "current_over_65a"}
         /\ \/ m' = m /\ measured_values = {}
            \/ \A p \in Phases : m'["voltage"][p] = 0 /\ m'["power_active"][p] = 0
<1>1. CASE measured_values = {}
  <2>1. ResetReadParameters(Fields)
          = Record(rawCurrent, currentMeasurementAvailable, m, energy, measured_values, FALSE)
    BY <1>1 DEF ResetReadParameters, Fields, Record
  <2>2. /\ m' = m /\ energy' = energy /\ measured_values' = measured_values
        /\ rawCurrent' = rawCurrent /\ currentMeasurementAvailable' = currentMeasurementAvailable
        /\ UNCHANGED <<meterShown, phasesOn, meterFired>>
    BY <2>1, SameLemma
  <2>3. meterShown = NotYet
    BY <1>1 DEF FieldsInv
  <2> QED
    BY <1>1, <2>2, <2>3 DEF FieldsInv
<1>2. CASE measured_values # {}
  <2>1. ResetReadParameters(Fields) = Record(rawCurrent, TRUE, NoMeasurement, energy, {}, TRUE)
    BY <1>2 DEF ResetReadParameters, Fields, Record, FieldsInv
  <2>2. NoMeasurement \in Tables /\ rawCurrent \in [Phases -> Nat]
    BY DEF NoMeasurement, Tables, FieldsInv
  <2>3. /\ rawCurrent' = rawCurrent /\ currentMeasurementAvailable' = TRUE /\ energy' = energy
        /\ m' \in Tables /\ m'["current"] = CurrentOf(rawCurrent)
        /\ m'["voltage"] = NoMeasurement["voltage"]
        /\ m'["power_active"] = NoMeasurement["power_active"]
        /\ measured_values' = ({} \ {"current", "current_over_65a"}) \cup {FlagOf(rawCurrent)}
        /\ meterShown' = [m |-> m', energy |-> energy, measured |-> measured_values']
        /\ phasesOn' = On(meterShown')
        /\ meterFired' = [c \in MeterConditions |-> MeterHolds(meterShown', c)]
    BY <2>1, <2>2, PublishLemma, ZenonT(30)
  <2>4. meterShown'.m = m' /\ meterShown'.energy = energy' /\ meterShown'.measured = {FlagOf(rawCurrent)}
    BY <2>3
  <2>5. FlagOf(rawCurrent) \in {"current", "current_over_65a"} /\ FlagOf(rawCurrent)' = FlagOf(rawCurrent)
        /\ CurrentOf(rawCurrent)' = CurrentOf(rawCurrent)
    BY <2>3 DEF FlagOf, OnOver, CurrentOf
  <2>6. phasesOn' = {}
    BY <2>3, <2>4, <2>5 DEF On
  <2>7. \A p \in Phases : m'["voltage"][p] = 0 /\ m'["power_active"][p] = 0
    BY <2>3 DEF NoMeasurement, Measured
  <2>8. \A c \in MeterConditions : meterFired'[c] = MeterHolds(meterShown, c)'
    BY <2>3 DEF MeterHolds, HasValue, GetValue, Factor
  <2>9. phasesOn' = {p \in Phases : m'["voltage"][p] > 0}
    BY <2>6, <2>7
  <2>10. FieldsInv'
    BY <2>2, <2>3, <2>4, <2>5, <2>8, <2>9 DEF FieldsInv
  <2>11. meterShown'.measured \subseteq {"current", "current_over_65a"}
    BY <2>4, <2>5
  <2> QED
    BY <2>3, <2>7, <2>10, <2>11
<1> QED
  BY <1>1, <1>2

\* Every reading publishes what was read.
LEMMA MeterStep == ASSUME MeterInv, [MeterNext]_meterVars PROVE MeterInv'
<1>1. ASSUME NEW answers \in Polls, \A p \in Phases \ Own : answers[p] = Silent,
             ReadMeter(answers), meterKind' = meterKind
      PROVE  MeterInv'
  <2>1. FieldsInv /\ TakenInv /\ 1 \in Phases
    BY MeterAssumption DEF MeterInv
  <2>2. \/ Publish(Set(Fields, answers)) /\ ~IsDropped(answers)
        \/ Publish(ResetReadParameters(Fields)) /\ IsDropped(answers)
    <3>1. CASE meterKind = "single" /\ Publish(ReadPzem(answers))
      BY <1>1, <2>1, <3>1 DEF ReadPzem, Own, IsDropped
    <3>2. CASE meterKind = "three" /\ Publish(ReadThreePzem(answers))
      BY <2>1, <3>2 DEF ReadThreePzem, IsDropped
    <3>3. CASE meterKind = "parsed" /\ Publish(ReadParsed(answers))
      BY <2>1, <3>3 DEF ReadParsed, IsDropped
    <3> QED
      BY <1>1, <3>1, <3>2, <3>3 DEF ReadMeter
  <2>3. CASE Publish(Set(Fields, answers)) /\ ~IsDropped(answers)
    <3>1. /\ heard' = heard \cup {p \in Phases : answers[p] # Silent}
          /\ taken' = [p \in Phases |-> IF answers[p] = Silent THEN taken[p] ELSE answers[p]]
      BY <1>1, <2>3 DEF ReadMeter
    <3>2. /\ FieldsInv' /\ measured_values' # {}
          /\ rawCurrent' = Put(rawCurrent, answers, "current")
          /\ energy' = Put(energy, answers, "energy")
          /\ m'["voltage"] = Put(m["voltage"], answers, "voltage")
          /\ m'["power_active"] = Put(m["power_active"], answers, "power_active")
      BY <2>1, <2>3, AnswerLemma, SetFields DEF EnergySet
    <3>3. heard' # {} /\ heard' \subseteq Phases
      BY <2>1, <2>3, <3>1 DEF IsDropped, TakenInv
    <3>4. taken' \in Polls /\ \A p \in heard' : taken'[p] # Silent
      BY <2>1, <3>1 DEF Polls, TakenInv
    <3>5. ASSUME NEW p \in Phases
          PROVE  /\ rawCurrent'[p] = LastSaid(p, "current")' /\ energy'[p] = LastSaid(p, "energy")'
                 /\ m'["voltage"][p] = Silence(p, "voltage")'
                 /\ m'["power_active"][p] = Silence(p, "power_active")'
      <4>1. /\ rawCurrent[p] = LastSaid(p, "current") /\ energy[p] = LastSaid(p, "energy")
            /\ m["voltage"][p] = Silence(p, "voltage")
            /\ m["power_active"][p] = Silence(p, "power_active")
        BY <2>1 DEF TakenInv
      <4>2. CASE answers[p] = Silent
        <5>1. taken'[p] = taken[p] /\ (p \in heard' <=> p \in heard)
          BY <3>1, <4>2
        <5>2. /\ rawCurrent'[p] = rawCurrent[p] /\ energy'[p] = energy[p]
              /\ m'["voltage"][p] = m["voltage"][p] /\ m'["power_active"][p] = m["power_active"][p]
          BY <3>2, <4>2 DEF Put
        <5> QED
          BY <4>1, <5>1, <5>2 DEF LastSaid, Silence
      <4>3. CASE answers[p] # Silent
        <5>1. taken'[p] = answers[p] /\ p \in heard'
          BY <3>1, <4>3
        <5>2. /\ rawCurrent'[p] = answers[p]["current"] /\ energy'[p] = answers[p]["energy"]
              /\ m'["voltage"][p] = answers[p]["voltage"]
              /\ m'["power_active"][p] = answers[p]["power_active"]
          BY <3>2, <4>3 DEF Put
        <5> QED
          BY <4>3, <5>1, <5>2 DEF LastSaid, Silence
      <4> QED
        BY <4>2, <4>3
    <3> QED
      BY <3>2, <3>3, <3>4, <3>5 DEF MeterInv, TakenInv
  <2>4. CASE Publish(ResetReadParameters(Fields)) /\ IsDropped(answers)
    <3>1. heard' = {} /\ taken' = taken
      BY <1>1, <2>4 DEF ReadMeter
    <3>2. /\ FieldsInv' /\ rawCurrent' = rawCurrent /\ energy' = energy
          /\ meterShown' # NotYet => meterShown'.measured \subseteq {"current", "current_over_65a"}
          /\ \/ m' = m /\ measured_values = {}
             \/ \A p \in Phases : m'["voltage"][p] = 0 /\ m'["power_active"][p] = 0
      BY <2>1, <2>4, SilentLemma
    <3>3. \A p \in Phases : m'["voltage"][p] = 0 /\ m'["power_active"][p] = 0
      <4>1. measured_values = {} =>
              \A p \in Phases : m["voltage"][p] = 0 /\ m["power_active"][p] = 0
        BY <2>1 DEF TakenInv, Silence
      <4> QED
        BY <3>2, <4>1
    <3>4. \A p, name : LastSaid(p, name)' = LastSaid(p, name) /\ Silence(p, name)' = 0
      BY <3>1 DEF LastSaid, Silence
    <3>5. \A p \in Phases : rawCurrent'[p] = LastSaid(p, "current") /\ energy'[p] = LastSaid(p, "energy")
      BY <2>1, <3>2 DEF TakenInv
    <3>6. taken' \in Polls
      BY <2>1, <3>1 DEF TakenInv
    <3> QED
      BY <3>1, <3>2, <3>3, <3>4, <3>5, <3>6 DEF MeterInv, TakenInv
  <2> QED
    BY <2>2, <2>3, <2>4
<1>2. CASE UNCHANGED meterVars
  <2>1. (\A c : MeterHolds(meterShown, c)' = MeterHolds(meterShown, c))
        /\ CurrentOf(rawCurrent)' = CurrentOf(rawCurrent) /\ FlagOf(rawCurrent)' = FlagOf(rawCurrent)
    BY <1>2 DEF meterVars, MeterHolds, HasValue, GetValue, Factor, CurrentOf, FlagOf, OnOver
  <2>2. FieldsInv'
    BY <1>2, <2>1 DEF meterVars, MeterInv, FieldsInv
  <2>3. TakenInv'
    <3>1. \A p, name : LastSaid(p, name)' = LastSaid(p, name) /\ Silence(p, name)' = Silence(p, name)
      BY <1>2 DEF meterVars, LastSaid, Silence
    <3> QED
      BY <1>2, <3>1 DEF meterVars, MeterInv, TakenInv
  <2> QED
    BY <2>2, <2>3 DEF MeterInv
<1> QED
  BY <1>1, <1>2 DEF MeterNext, Polls

\* It starts so.
LEMMA MeterStarts == MeterInit => MeterInv
<1> SUFFICES ASSUME MeterInit PROVE MeterInv
  OBVIOUS
<1>1. FieldsInv
  BY DEF MeterInit, FieldsInv, NoMeasurement, Tables
<1>2. taken \in Polls /\ heard = {} /\ \A p \in Phases : taken[p] = Silent
  BY DEF MeterInit, Polls
<1>3. \A p \in Phases : rawCurrent[p] = 0 /\ energy[p] = 0 /\ m["voltage"][p] = 0
                        /\ m["power_active"][p] = 0
  BY DEF MeterInit, NoMeasurement, Measured
<1>4. meterShown = NotYet
  BY DEF MeterInit
<1>5. \A p \in Phases : \A name : LastSaid(p, name) = 0 /\ Silence(p, name) = 0
  BY <1>2 DEF LastSaid, Silence
<1> QED
  BY <1>1, <1>2, <1>3, <1>4, <1>5 DEF MeterInv, TakenInv

\* And so what is published is what was said.
LEMMA MeterIsShown == MeterInv => PublishedIsRead
<1> SUFFICES ASSUME MeterInv, meterShown # NotYet
             PROVE  /\ \A p \in Phases : SaidByPhase(p)
                    /\ heard = {} => meterShown.measured \subseteq {"current", "current_over_65a"}
                    /\ \A c \in MeterConditions : meterFired[c] = MeterHolds(meterShown, c)
  BY DEF PublishedIsRead
<1>1. /\ meterShown.m = m /\ meterShown.energy = energy
      /\ m["current"] = CurrentOf(rawCurrent) /\ FlagOf(rawCurrent) \in meterShown.measured
      /\ phasesOn = {q \in Phases : m["voltage"][q] > 0}
      /\ \A c \in MeterConditions : meterFired[c] = MeterHolds(meterShown, c)
  BY DEF MeterInv, FieldsInv
<1>2. ASSUME NEW p \in Phases PROVE SaidByPhase(p)
  <2>1. /\ rawCurrent[p] = LastSaid(p, "current") /\ energy[p] = LastSaid(p, "energy")
        /\ m["voltage"][p] = Silence(p, "voltage") /\ m["power_active"][p] = Silence(p, "power_active")
    BY DEF MeterInv, TakenInv
  <2>2. m["current"][p] = IF OnOver(rawCurrent) THEN rawCurrent[p] \div Coarse ELSE rawCurrent[p]
    BY <1>1 DEF CurrentOf
  <2>3. \/ "current" \in meterShown.measured /\ m["current"][p] = LastSaid(p, "current")
        \/ /\ "current_over_65a" \in meterShown.measured
           /\ m["current"][p] = LastSaid(p, "current") \div Coarse
    BY <1>1, <2>1, <2>2 DEF FlagOf
  <2>4. p \in phasesOn <=> Silence(p, "voltage") > 0
    BY <1>1, <2>1
  <2>5. p \in phasesOn <=> p \in heard /\ LastSaid(p, "voltage") > 0
    BY <2>4 DEF Silence
  <2>6. \A name \in {"voltage", "power_active"} :
          meterShown.m[name][p] = IF p \in heard THEN LastSaid(p, name) ELSE 0
    BY <1>1, <2>1 DEF Silence
  <2> QED
    BY <1>1, <2>1, <2>3, <2>5, <2>6 DEF SaidByPhase
<1>3. heard = {} => meterShown.measured \subseteq {"current", "current_over_65a"}
  BY DEF MeterInv, TakenInv
<1> QED
  BY <1>1, <1>2, <1>3

-----------------------------------------------------------------------------
(***************************************************************************)
(* PvMeter.                                                                *)
(***************************************************************************)
Two == {"power", "energy"}
ReplyLines ==
  {Header, Columns} \cup {Name(f) : f \in Two \cup {"other"}} \cup {Value(v) : v \in Nat}
    \cup {Var(f, v) : f \in Two, v \in Nat}
    \cup {Row(mode, p, e) : mode \in {"MPPT", "SLEEPING"}, p \in Nat, e \in Nat}
Sent == ReplyLines \cup {[what |-> "piece", of |-> line] : line \in ReplyLines}
IsPair(v) == v = [f \in Two |-> v[f]]

\* A socket is open while it is read from, and holds nothing when it is not.
SocketInv ==
  /\ inverter \in Inverters
  /\ isOpen \in BOOLEAN /\ hungUp \in BOOLEAN /\ inLoop \in BOOLEAN
  /\ dataFetchInProgress \in BOOLEAN /\ dataIsReady \in BOOLEAN
  /\ inSocket \in Seq(Sent) /\ unsent \in Seq(ReplyLines)
  /\ descriptors = IF isOpen THEN 1 ELSE 0
  /\ isOpen /\ ~dataFetchInProgress => inLoop /\ hungUp /\ inSocket = << >>
  /\ ~isOpen => inSocket = << >> /\ unsent = << >>

\* An inverter that could not be reached has no power, and this is or will be shown.
NightInv ==
  /\ retryCounter \in Nat /\ IsPair(values)
  /\ retryCounter > 0 => ~isOpen /\ ~dataFetchInProgress
  /\ inverter # "solaredge" /\ retryCounter > MostTries =>
       values.power = 0 /\ (dataIsReady \/ inverterShown.power = 0)

\* How far the parser is with what the reply says, after k lines of it.  The first line of a
\* reply takes up what was left of the one before.
Stage(k) ==
  /\ k >= 1 \/ inverter = "solaredge" => rest = NoLine
  /\ inverter = "afore" => /\ k >= 2 => values.power = inverterSaid.power
                           /\ k >= 3 => values.energy = inverterSaid.energy
  /\ inverter = "fronius" => /\ k = 4 => valueToFetch = "power"
                             /\ k = 5 => valueToFetch = "none"
                             /\ k = 6 => valueToFetch = "energy"
                             /\ k >= 5 => values.power = inverterSaid.power
                             /\ k >= 7 => values.energy = inverterSaid.energy
  /\ inverter = "solaredge" => /\ k >= 2 => headerFound
                               /\ k >= 3 => /\ values.power = inverterSaid.power
                                            /\ values.energy = inverterSaid.energy

\* What is still to be read is the rest of a reply that says it.
Remains(reply, k) ==
  /\ Len(inSocket) + Len(unsent) = Len(reply) - k
  /\ \A i \in 1 .. Len(inSocket) : inSocket[i] = reply[k + i]
  /\ \A i \in 1 .. Len(unsent) : unsent[i] = reply[k + Len(inSocket) + i]
Saying == Replies(inverter, inverterSaid) \ {<<Header, Columns, Asleep>>}
StreamInv == \E reply \in Saying : \E k \in 0 .. Len(reply) : Remains(reply, k) /\ Stage(k)

\* From the request to the channel, for a reply that is not broken off.
ReplyInv ==
  /\ requests \in Nat /\ (dataFetchInProgress => outcome \in {"none", "whole", "cut"})
  /\ inverterSaid # NotSaid => inverterSaid \in [power : Nat \ {0}, energy : Nat \ {0}]
  /\ inverter = "solaredge" /\ dataIsReady => inLoop /\ ~dataFetchInProgress
  /\ outcome = "none" /\ dataFetchInProgress => isOpen /\ ~hungUp
  /\ outcome = "whole" => unsent = << >>
  /\ outcome \in {"none", "whole"} /\ inverterSaid # NotSaid /\ dataFetchInProgress => StreamInv
  /\ outcome = "whole" /\ inverterSaid # NotSaid /\ retryCounter = 0 /\ ~dataFetchInProgress =>
       \/ dataIsReady /\ inLoop /\ values = inverterSaid
       \/ ~dataIsReady /\ inverterShown = inverterSaid

PvInv == SocketInv /\ NightInv /\ ReplyInv

-----------------------------------------------------------------------------
\* The replies are sequences of lines; none of them is a piece.
LEMMA ReplyLinesLemma ==
  /\ \A line \in ReplyLines : line.what # "piece"
  /\ ReplyLines \subseteq Sent
  /\ Header \in ReplyLines /\ Columns \in ReplyLines /\ Asleep \in ReplyLines
  /\ \A f \in Two \cup {"other"} : Name(f) \in ReplyLines
  /\ \A v \in Nat : Value(v) \in ReplyLines
  /\ \A f \in Two, v \in Nat : Var(f, v) \in ReplyLines
  /\ \A p \in Nat, e \in Nat : Row("MPPT", p, e) \in ReplyLines
<1>1. \A line \in ReplyLines : line.what # "piece"
  BY DEF ReplyLines, Header, Columns, Name, Value, Var, Row
<1>2. Asleep \in ReplyLines
  BY DEF ReplyLines, Asleep
<1> QED
  BY <1>1, <1>2 DEF ReplyLines, Sent, Header, Columns

\* Each kind of inverter says its power and its energy in lines of its own.
LEMMA RepliesLemma ==
  ASSUME NEW kind \in Inverters, NEW r \in [power : Nat \ {0}, energy : Nat \ {0}],
         NEW reply \in Replies(kind, r)
  PROVE  /\ reply \in Seq(ReplyLines) /\ Len(reply) \in Nat
         /\ kind = "afore" => /\ Len(reply) = 3 /\ reply[1] = Header
                              /\ reply[2] = Var("power", r.power)
                              /\ reply[3] = Var("energy", r.energy)
         /\ kind = "fronius" => /\ Len(reply) = 7 /\ reply[1] = Header
                                /\ reply[2] = Name("other") /\ reply[3] = Value(9)
                                /\ reply[4] = Name("power") /\ reply[5] = Value(r.power)
                                /\ reply[6] = Name("energy") /\ reply[7] = Value(r.energy)
         /\ kind = "solaredge" /\ reply # <<Header, Columns, Asleep>> =>
              /\ Len(reply) = 3 \/ (Len(reply) = 4 /\ reply[4] = Asleep)
              /\ reply[1] = Header /\ reply[2] = Columns /\ reply[3] = Awake(r)
<1>1. r.power \in Nat /\ r.energy \in Nat
  OBVIOUS
<1>2. kind = "afore" \/ kind = "fronius" \/ kind = "solaredge"
  BY PvAssumption
<1>3. CASE kind = "afore"
  <2>1. reply = <<Header, Var("power", r.power), Var("energy", r.energy)>>
    BY <1>3 DEF Replies
  <2>2. Var("power", r.power) \in ReplyLines /\ Var("energy", r.energy) \in ReplyLines /\ Header \in ReplyLines
    BY <1>1, ReplyLinesLemma DEF Two
  <2>3. reply \in Seq(ReplyLines)
    BY <2>1, <2>2
  <2> QED
    BY <1>3, <2>1, <2>3
<1>4. CASE kind = "fronius"
  <2>1. reply = <<Header, Name("other"), Value(9), Name("power"), Value(r.power),
                  Name("energy"), Value(r.energy)>>
    BY <1>4 DEF Replies
  <2>2. /\ Header \in ReplyLines /\ Name("other") \in ReplyLines /\ Value(9) \in ReplyLines
        /\ Name("power") \in ReplyLines /\ Value(r.power) \in ReplyLines
        /\ Name("energy") \in ReplyLines /\ Value(r.energy) \in ReplyLines
    BY <1>1, ReplyLinesLemma DEF Two
  <2>3. reply \in Seq(ReplyLines)
    BY <2>1, <2>2
  <2> QED
    BY <1>4, <2>1, <2>3
<1>5. CASE kind = "solaredge"
  <2>1. \/ reply = <<Header, Columns, Awake(r)>> \/ reply = <<Header, Columns, Awake(r), Asleep>>
        \/ reply = <<Header, Columns, Asleep>>
    BY <1>5 DEF Replies
  <2>2. /\ Header \in ReplyLines /\ Columns \in ReplyLines /\ Awake(r) \in ReplyLines /\ Asleep \in ReplyLines
    BY <1>1, ReplyLinesLemma DEF Awake
  <2>3. /\ <<Header, Columns, Awake(r)>> \in Seq(ReplyLines) /\ <<Header, Columns, Asleep>> \in Seq(ReplyLines)
        /\ <<Header, Columns, Awake(r), Asleep>> \in Seq(ReplyLines)
    BY <2>2
  <2>4. reply \in Seq(ReplyLines)
    BY <2>1, <2>3
  <2>5. CASE reply = <<Header, Columns, Awake(r)>>
    BY <1>5, <2>4, <2>5
  <2>6. CASE reply = <<Header, Columns, Awake(r), Asleep>>
    BY <1>5, <2>4, <2>6
  <2>7. CASE reply = <<Header, Columns, Asleep>>
    BY <1>5, <2>4, <2>7
  <2> QED
    BY <2>1, <2>5, <2>6, <2>7
<1> QED
  BY <1>2, <1>3, <1>4, <1>5

\* Whatever a line is taken for, the parser keeps a power and an energy.
LEMMA PairLemma ==
  ASSUME IsPair(values), NEW line, ParsedLine(line)
  PROVE  IsPair(values')
<1>1. values' = values \/ (\E f, v : values' = [values EXCEPT ![f] = v])
        \/ values' = [power |-> line.power, energy |-> line.energy]
  BY DEF ParsedLine, ParsedAfore, ParsedFronius, ParsedSolarEdge
<1>2. ASSUME NEW f, NEW v, values' = [values EXCEPT ![f] = v] PROVE IsPair(values')
  BY <1>2 DEF IsPair, Two
<1>3. CASE values' = [power |-> line.power, energy |-> line.energy]
  BY <1>3 DEF IsPair, Two
<1> QED
  BY <1>1, <1>2, <1>3 DEF IsPair

\* One line of the reply further.
LEMMA StageLemma ==
  ASSUME inverter \in Inverters, inverterSaid \in [power : Nat \ {0}, energy : Nat \ {0}],
         IsPair(values), NEW reply \in Saying, NEW k \in Nat, k < Len(reply), Stage(k),
         rest = NoLine, rest' = NoLine, ParsedLine(reply[k + 1]),
         UNCHANGED <<inverter, inverterSaid>>
  PROVE  Stage(k + 1)'
<1>1. inverter = "afore" \/ inverter = "fronius" \/ inverter = "solaredge"
  BY PvAssumption
<1>2. DOMAIN values = Two
  BY DEF IsPair
<1>3. CASE inverter = "afore"
  <2>1. Len(reply) = 3 /\ reply[1] = Header /\ reply[2] = Var("power", inverterSaid.power)
        /\ reply[3] = Var("energy", inverterSaid.energy)
    BY <1>3, RepliesLemma DEF Saying
  <2>2. k = 0 \/ k = 1 \/ k = 2
    BY <2>1
  <2>3. ParsedAfore(reply[k + 1])
    BY <1>3 DEF ParsedLine
  <2>4. CASE k = 0
    BY <1>3, <2>4 DEF Stage
  <2>5. CASE k = 1
    BY <1>2, <1>3, <2>1, <2>3, <2>5 DEF Stage, ParsedAfore, Var, Two
  <2>6. CASE k = 2
    BY <1>2, <1>3, <2>1, <2>3, <2>6 DEF Stage, ParsedAfore, Var, Two
  <2> QED
    BY <2>2, <2>4, <2>5, <2>6
<1>4. CASE inverter = "fronius"
  <2>1. Len(reply) = 7 /\ reply[1] = Header /\ reply[2] = Name("other") /\ reply[3] = Value(9)
        /\ reply[4] = Name("power") /\ reply[5] = Value(inverterSaid.power)
        /\ reply[6] = Name("energy") /\ reply[7] = Value(inverterSaid.energy)
    BY <1>4, RepliesLemma DEF Saying
  <2>2. k = 0 \/ k = 1 \/ k = 2 \/ k = 3 \/ k = 4 \/ k = 5 \/ k = 6
    BY <2>1
  <2>3. ParsedFronius(reply[k + 1])
    BY <1>4 DEF ParsedLine
  <2>4. CASE k = 0 \/ k = 1 \/ k = 2
    BY <1>4, <2>4 DEF Stage
  <2>5. CASE k = 3
    BY <1>2, <1>4, <2>1, <2>3, <2>5 DEF Stage, ParsedFronius, Name, Two
  <2>6. CASE k = 4
    BY <1>2, <1>4, <2>1, <2>3, <2>6 DEF Stage, ParsedFronius, Value, Two
  <2>7. CASE k = 5
    BY <1>2, <1>4, <2>1, <2>3, <2>7 DEF Stage, ParsedFronius, Name, Two
  <2>8. CASE k = 6
    BY <1>2, <1>4, <2>1, <2>3, <2>8 DEF Stage, ParsedFronius, Value, Two
  <2> QED
    BY <2>2, <2>4, <2>5, <2>6, <2>7, <2>8
<1>5. CASE inverter = "solaredge"
  <2>1. /\ Len(reply) = 3 \/ (Len(reply) = 4 /\ reply[4] = Asleep)
        /\ reply[1] = Header /\ reply[2] = Columns /\ reply[3] = Awake(inverterSaid)
    BY <1>5, RepliesLemma DEF Saying
  <2>2. k = 0 \/ k = 1 \/ k = 2 \/ (k = 3 /\ reply[4] = Asleep)
    BY <2>1, SMTT(20)
  <2> DEFINE line == reply[k + 1]
  <2>3. ParsedSolarEdge(line)
    BY <1>5 DEF ParsedLine
  <2>4. headerFound \/ line.what = "columns" => headerFound'
    BY <2>3 DEF ParsedSolarEdge
  <2>5. /\ headerFound /\ line.what = "row" /\ line.mode = "MPPT" =>
             values' = [power |-> line.power, energy |-> line.energy]
        /\ line.what # "row" \/ line.mode # "MPPT" => values' = values
    BY <2>3 DEF ParsedSolarEdge
  <2>6. CASE k = 0
    BY <1>5, <2>6 DEF Stage
  <2>7. CASE k = 1
    BY <1>5, <2>1, <2>4, <2>7 DEF Stage, Columns
  <2>8. CASE k = 2
    <3>1. line.what = "row" /\ line.mode = "MPPT" /\ line.power = inverterSaid.power
          /\ line.energy = inverterSaid.energy /\ headerFound
      BY <1>5, <2>1, <2>8 DEF Awake, Row, Stage
    <3>2. values'.power = inverterSaid.power /\ values'.energy = inverterSaid.energy /\ headerFound'
      BY <2>4, <2>5, <3>1
    <3> QED
      BY <1>5, <2>8, <3>2 DEF Stage
  <2>9. CASE k = 3 /\ reply[4] = Asleep
    <3>1. line.mode # "MPPT" /\ headerFound
      BY <1>5, <2>9 DEF Asleep, Row, Stage
    <3>2. values' = values /\ headerFound'
      BY <2>4, <2>5, <3>1
    <3> QED
      BY <1>5, <2>9, <3>2 DEF Stage
  <2> QED
    BY <2>2, <2>6, <2>7, <2>8, <2>9
<1> QED
  BY <1>1, <1>3, <1>4, <1>5

\* The whole of it says what was said.
LEMMA CompleteLemma ==
  ASSUME SocketInv, NightInv, inverterSaid \in [power : Nat \ {0}, energy : Nat \ {0}],
         StreamInv, inSocket = << >>, unsent = << >>
  PROVE  values = inverterSaid
<1>0. PICK reply \in Saying : \E k \in 0 .. Len(reply) : Remains(reply, k) /\ Stage(k)
  BY DEF StreamInv
<1>1. PICK k \in 0 .. Len(reply) : Remains(reply, k) /\ Stage(k)
  BY <1>0
<1>2. inverter \in Inverters /\ Len(reply) \in Nat
  BY RepliesLemma DEF SocketInv, Saying
<1>3. k = Len(reply)
  BY <1>1, <1>2 DEF Remains
<1>4. inverter = "afore" \/ inverter = "fronius" \/ inverter = "solaredge"
  BY <1>2, PvAssumption
<1>5. values.power = inverterSaid.power /\ values.energy = inverterSaid.energy
  BY <1>1, <1>2, <1>3, <1>4, RepliesLemma DEF Stage, Saying
<1>6. values = [f \in Two |-> values[f]]
  BY DEF NightInv, IsPair
<1> QED
  BY <1>5, <1>6 DEF Two

\* The inverter sends a line, the parser reads one.
LEMMA SendLemma ==
  ASSUME SocketInv, unsent # << >>, inSocket' = Append(inSocket, Head(unsent)),
         unsent' = Tail(unsent), NEW reply, NEW k \in Nat, Remains(reply, k)
  PROVE  Remains(reply, k)'
<1>1. inSocket \in Seq(Sent) /\ unsent \in Seq(ReplyLines) /\ unsent # << >> /\ Head(unsent) \in Sent
  BY ReplyLinesLemma DEF SocketInv
<1>2. /\ Len(inSocket') = Len(inSocket) + 1
      /\ \A i \in 1 .. Len(inSocket) : inSocket'[i] = inSocket[i]
      /\ inSocket'[Len(inSocket) + 1] = unsent[1]
  BY <1>1
<1>3. /\ Len(unsent) >= 1 /\ Len(unsent') = Len(unsent) - 1
      /\ \A i \in 1 .. Len(unsent') : unsent'[i] = unsent[i + 1]
  BY <1>1
<1>4. Len(inSocket) \in Nat /\ Len(unsent) \in Nat
  BY <1>1
<1>5. Len(inSocket') + Len(unsent') = Len(reply) - k
  BY <1>2, <1>3, <1>4 DEF Remains
<1>6. ASSUME NEW i \in 1 .. Len(inSocket') PROVE inSocket'[i] = reply[k + i]
  <2>1. CASE i \in 1 .. Len(inSocket)
    BY <1>2, <2>1 DEF Remains
  <2>2. CASE i = Len(inSocket) + 1
    <3>1. 1 \in 1 .. Len(unsent) /\ unsent[1] = reply[k + Len(inSocket) + 1]
      BY <1>3, <1>4 DEF Remains
    <3>2. k + Len(inSocket) + 1 = k + i
      BY <1>4, <2>2
    <3> QED
      BY <1>2, <2>2, <3>1, <3>2
  <2> QED
    BY <1>2, <1>4, <2>1, <2>2
<1>7. ASSUME NEW i \in 1 .. Len(unsent') PROVE unsent'[i] = reply[k + Len(inSocket') + i]
  <2>1. i + 1 \in 1 .. Len(unsent) /\ k + Len(inSocket) + (i + 1) = k + Len(inSocket') + i
    BY <1>2, <1>3, <1>4
  <2>2. unsent[i + 1] = reply[k + Len(inSocket) + (i + 1)]
    BY <2>1 DEF Remains
  <2> QED
    BY <1>3, <2>1, <2>2
<1> QED
  BY <1>5, <1>6, <1>7 DEF Remains

\* What the parser takes from the socket is the next line of the reply.
LEMMA ReadLemma ==
  ASSUME SocketInv, inSocket # << >>, inSocket' = Tail(inSocket), unsent' = unsent,
         NEW reply, Len(reply) \in Nat, NEW k \in Nat, Remains(reply, k)
  PROVE  Head(inSocket) = reply[k + 1] /\ k < Len(reply) /\ Remains(reply, k + 1)'
<1>1. inSocket \in Seq(Sent) /\ unsent \in Seq(ReplyLines) /\ inSocket # << >>
  BY DEF SocketInv
<1>2. /\ Len(inSocket) >= 1 /\ Len(inSocket') = Len(inSocket) - 1 /\ Head(inSocket) = inSocket[1]
      /\ \A i \in 1 .. Len(inSocket') : inSocket'[i] = inSocket[i + 1]
  BY <1>1
<1>3. Len(inSocket) \in Nat /\ Len(unsent) \in Nat
  BY <1>1
<1>4. Head(inSocket) = reply[k + 1] /\ k < Len(reply)
  BY <1>2, <1>3 DEF Remains
<1>5. Len(inSocket') + Len(unsent') = Len(reply) - (k + 1)
  BY <1>2, <1>3 DEF Remains
<1>6. ASSUME NEW i \in 1 .. Len(inSocket') PROVE inSocket'[i] = reply[k + 1 + i]
  <2>1. i + 1 \in 1 .. Len(inSocket) /\ k + (i + 1) = k + 1 + i
    BY <1>2, <1>3
  <2> QED
    BY <1>2, <2>1 DEF Remains
<1>7. ASSUME NEW i \in 1 .. Len(unsent') PROVE unsent'[i] = reply[k + 1 + Len(inSocket') + i]
  <2>1. k + Len(inSocket) + i = k + 1 + Len(inSocket') + i
    BY <1>2, <1>3
  <2> QED
    BY <2>1 DEF Remains
<1> QED
  BY <1>4, <1>5, <1>6, <1>7 DEF Remains

\* A step that reads, sends and parses nothing.
Unread == UNCHANGED <<inverter, inSocket, unsent, inverterSaid, parserVars>>

\* It leaves the stream as it is.
LEMMA UnreadLemma == ASSUME Unread, StreamInv PROVE StreamInv'
<1>1. Saying' = Saying /\ \A reply, k : (Remains(reply, k)' <=> Remains(reply, k)) /\ (Stage(k)' <=> Stage(k))
  BY DEF Unread, Saying, Remains, Stage, parserVars
<1> QED
  BY <1>1 DEF StreamInv

\* What the inverter does.
LEMMA SendStep == ASSUME PvInv, SendLine, UNCHANGED inverter PROVE PvInv'
<1>1. /\ inSocket' = Append(inSocket, Head(unsent)) /\ unsent' = Tail(unsent)
      /\ isOpen /\ ~hungUp /\ unsent # << >>
      /\ UNCHANGED <<descriptors, isOpen, hungUp, inLoop, dataFetchInProgress, dataIsReady,
                     connectionAge, retryCounter, parserVars, inverterShown, replyVars>>
  BY DEF SendLine, fetchVars
<1>2. inSocket \in Seq(Sent) /\ unsent \in Seq(ReplyLines) /\ Head(unsent) \in Sent
  BY <1>1, ReplyLinesLemma DEF PvInv, SocketInv
<1>3. inSocket' \in Seq(Sent) /\ unsent' \in Seq(ReplyLines)
  BY <1>1, <1>2
<1>4. dataFetchInProgress
  BY <1>1 DEF PvInv, SocketInv
<1>5. SocketInv'
  BY <1>1, <1>3, <1>4 DEF PvInv, SocketInv
<1>6. NightInv'
  BY <1>1 DEF PvInv, NightInv, parserVars
<1>7. ASSUME StreamInv PROVE StreamInv'
  <2>1. PICK reply \in Saying : \E k \in 0 .. Len(reply) : Remains(reply, k) /\ Stage(k)
    BY <1>7 DEF StreamInv
  <2>2. PICK k \in 0 .. Len(reply) : Remains(reply, k) /\ Stage(k)
    BY <2>1
  <2>3. Remains(reply, k)'
    BY <1>1, <2>2, SendLemma DEF PvInv
  <2>4. Stage(k)' /\ Saying' = Saying
    BY <1>1, <2>2 DEF Stage, parserVars, replyVars, Saying
  <2> QED
    BY <2>3, <2>4 DEF StreamInv
<1>8. outcome # "whole"
  BY <1>1 DEF PvInv, ReplyInv
<1>9. ReplyInv'
  BY <1>1, <1>4, <1>7, <1>8 DEF PvInv, ReplyInv, replyVars
<1> QED
  BY <1>5, <1>6, <1>9 DEF PvInv

\* An inverter that breaks off or hangs: the reply is cut, or was there as a whole.
LEMMA BreakStep ==
  ASSUME PvInv, Stall \/ (\E withPiece \in BOOLEAN : HangUp(withPiece)), UNCHANGED inverter
  PROVE  PvInv'
<1>1. /\ isOpen /\ ~hungUp
      /\ UNCHANGED <<descriptors, isOpen, inLoop, dataFetchInProgress, dataIsReady,
                     connectionAge, retryCounter, parserVars, inverterShown, requests, inverterSaid>>
  BY DEF Stall, HangUp, fetchVars
<1>2. dataFetchInProgress
  BY <1>1 DEF PvInv, SocketInv
<1>3. hungUp' \in BOOLEAN
  BY DEF Stall, HangUp, PvInv, SocketInv
<1>4. inSocket' \in Seq(Sent) /\ unsent' \in Seq(ReplyLines)
  <2>1. inSocket \in Seq(Sent) /\ unsent \in Seq(ReplyLines)
    BY DEF PvInv, SocketInv
  <2>2. unsent # << >> => [what |-> "piece", of |-> Head(unsent)] \in Sent
    BY <2>1 DEF Sent
  <2>3. unsent' = unsent \/ unsent' = << >>
    BY DEF Stall, HangUp
  <2>4. \/ inSocket' = inSocket
        \/ unsent # << >> /\ inSocket' = Append(inSocket, [what |-> "piece", of |-> Head(unsent)])
    BY DEF Stall, HangUp
  <2>5. << >> \in Seq(ReplyLines)
    OBVIOUS
  <2>6. unsent' \in Seq(ReplyLines)
    BY <2>1, <2>3, <2>5
  <2>7. CASE inSocket' = inSocket
    BY <2>1, <2>6, <2>7
  <2>8. CASE unsent # << >> /\ inSocket' = Append(inSocket, [what |-> "piece", of |-> Head(unsent)])
    <3> DEFINE piece == [what |-> "piece", of |-> Head(unsent)]
    <3>1. piece \in Sent /\ inSocket' = Append(inSocket, piece)
      BY <2>2, <2>8
    <3> HIDE DEF piece
    <3>2. inSocket' \in Seq(Sent)
      BY <2>1, <3>1
    <3> QED
      BY <2>6, <3>2
  <2> QED
    BY <2>4, <2>7, <2>8
<1>5. SocketInv'
  BY <1>1, <1>2, <1>3, <1>4 DEF PvInv, SocketInv
<1>6. NightInv'
  BY <1>1 DEF PvInv, NightInv, parserVars
<1>7. \/ outcome' = "cut"
      \/ /\ outcome' = "whole" /\ unsent = << >> /\ outcome # "cut"
         /\ UNCHANGED <<unsent, inSocket>>
  BY DEF Stall, HangUp
<1>8. CASE outcome' = "cut"
  <2>1. ReplyInv'
    BY <1>1, <1>2, <1>8 DEF PvInv, ReplyInv
  <2> QED
    BY <1>5, <1>6, <2>1 DEF PvInv
<1>9. CASE /\ outcome' = "whole" /\ unsent = << >> /\ outcome # "cut"
           /\ UNCHANGED <<unsent, inSocket>>
  <2>1. inverterSaid # NotSaid => StreamInv'
    BY <1>1, <1>2, <1>9, UnreadLemma DEF PvInv, ReplyInv, Unread
  <2>2. ReplyInv'
    BY <1>1, <1>2, <1>9, <2>1 DEF PvInv, ReplyInv
  <2> QED
    BY <1>5, <1>6, <2>2 DEF PvInv
<1> QED
  BY <1>7, <1>8, <1>9

\* A line is read.
LEMMA ReadStep == ASSUME PvInv, ReadLine, UNCHANGED inverter PROVE PvInv'
<1>1. /\ inLoop /\ isOpen /\ inSocket # << >> /\ inSocket' = Tail(inSocket)
      /\ UNCHANGED <<descriptors, isOpen, unsent, hungUp, inLoop, dataFetchInProgress, dataIsReady,
                     connectionAge, retryCounter, inverterShown, requests, inverterSaid, outcome>>
  BY DEF ReadLine, fetchVars, replyVars
<1>2. dataFetchInProgress
  BY <1>1 DEF PvInv, SocketInv
<1>3. inSocket \in Seq(Sent) /\ inSocket' \in Seq(Sent)
  BY <1>1 DEF PvInv, SocketInv
<1>4. SocketInv'
  BY <1>1, <1>2, <1>3 DEF PvInv, SocketInv
<1> DEFINE line == Head(inSocket)
<1>5. \/ line.what = "piece" /\ values' = values
      \/ line.what # "piece" /\ rest = NoLine /\ ParsedLine(line) /\ rest' = NoLine
      \/ line.what # "piece" /\ rest # NoLine /\ rest' = NoLine /\ \E whole : ParsedLine(whole)
  BY DEF ReadLine
<1>6. retryCounter = 0 /\ IsPair(values)
  BY <1>1 DEF PvInv, NightInv
<1>7. IsPair(values')
  BY <1>5, <1>6, PairLemma
<1>8. NightInv'
  <2>1. MostTries \in Nat /\ retryCounter' = 0
    BY <1>1, <1>6, PvAssumption
  <2> QED
    BY <1>7, <2>1 DEF NightInv
<1>9. ASSUME StreamInv, inverterSaid # NotSaid PROVE StreamInv'
  <2>1. PICK reply \in Saying : \E k \in 0 .. Len(reply) : Remains(reply, k) /\ Stage(k)
    BY <1>9 DEF StreamInv
  <2>2. PICK k \in 0 .. Len(reply) : Remains(reply, k) /\ Stage(k)
    BY <2>1
  <2>3. /\ inverter \in Inverters /\ inverterSaid \in [power : Nat \ {0}, energy : Nat \ {0}]
        /\ reply \in Replies(inverter, inverterSaid)
    BY <1>9 DEF PvInv, SocketInv, ReplyInv, Saying
  <2>4. Len(reply) \in Nat /\ reply \in Seq(ReplyLines)
    BY <2>3, RepliesLemma
  <2>5. line = reply[k + 1] /\ k < Len(reply) /\ Remains(reply, k + 1)'
    BY <1>1, <2>2, <2>4, ReadLemma DEF PvInv
  <2>6. line \in ReplyLines
    <3>1. k + 1 \in 1 .. Len(reply)
      BY <2>4, <2>5
    <3> QED
      BY <2>4, <2>5, <3>1
  <2>7. line.what # "piece"
    BY <2>6, ReplyLinesLemma
  <2>8. Saying' = Saying
    BY <1>1 DEF Saying
  <2>9. Stage(k + 1)'
    <3>1. CASE rest = NoLine
      BY <1>1, <1>5, <1>6, <2>2, <2>3, <2>4, <2>5, <2>7, <3>1, StageLemma
    <3>2. CASE rest # NoLine
      <4>1. k = 0 /\ inverter # "solaredge" /\ rest' = NoLine
        BY <1>5, <2>2, <2>7, <3>2 DEF Stage
      <4> QED
        BY <4>1 DEF Stage
    <3> QED
      BY <3>1, <3>2
  <2>10. k + 1 \in 0 .. Len(reply)
    BY <2>4, <2>5
  <2> QED
    BY <2>5, <2>8, <2>9, <2>10 DEF StreamInv
<1>10. ReplyInv'
  BY <1>1, <1>2, <1>9 DEF PvInv, ReplyInv
<1> QED
  BY <1>4, <1>8, <1>10 DEF PvInv

\* The client gives up on a reply that takes too long.
LEMMA TimeoutStep == ASSUME PvInv, TimesOut, UNCHANGED inverter PROVE PvInv'
<1>1. /\ ~inLoop /\ dataFetchInProgress /\ isOpen' = FALSE /\ unsent' = << >> /\ inSocket' = << >>
      /\ descriptors' = IF isOpen THEN descriptors - 1 ELSE descriptors
      /\ dataFetchInProgress' = FALSE /\ dataIsReady' = FALSE /\ outcome' = "aborted"
      /\ UNCHANGED <<hungUp, inLoop, retryCounter, values, inverterShown, requests, inverterSaid>>
  BY DEF TimesOut, Stop, parserVars
<1>2. descriptors' = 0
  BY <1>1 DEF PvInv, SocketInv
<1>3. << >> \in Seq(Sent) /\ << >> \in Seq(ReplyLines)
  OBVIOUS
<1>4. SocketInv'
  BY <1>1, <1>2, <1>3 DEF PvInv, SocketInv
<1>5. retryCounter = 0 /\ MostTries \in Nat
  BY <1>1, PvAssumption DEF PvInv, NightInv
<1>6. NightInv'
  BY <1>1, <1>5 DEF PvInv, NightInv, IsPair
<1>7. ReplyInv'
  BY <1>1 DEF PvInv, ReplyInv
<1> QED
  BY <1>4, <1>6, <1>7 DEF PvInv

\* The reply has ended, or the loop only goes on.
LEMMA BeginReadStep == ASSUME PvInv, BeginRead, UNCHANGED inverter PROVE PvInv'
<1>1. /\ ~inLoop /\ inLoop' = TRUE
      /\ UNCHANGED <<descriptors, isOpen, unsent, inSocket, hungUp, retryCounter, parserVars,
                     inverterShown, requests, inverterSaid, outcome>>
  BY DEF BeginRead, clientVars, replyVars
<1>2. \/ dataFetchInProgress /\ ~Connected /\ dataFetchInProgress' = FALSE /\ dataIsReady' = TRUE
      \/ UNCHANGED <<dataFetchInProgress, dataIsReady>>
  BY DEF BeginRead
<1>3. CASE dataFetchInProgress /\ ~Connected /\ dataFetchInProgress' = FALSE /\ dataIsReady' = TRUE
  <2>1. inSocket = << >> /\ (isOpen => hungUp)
    BY <1>3 DEF Connected, PvInv, SocketInv
  <2>2. SocketInv'
    BY <1>1, <1>3, <2>1 DEF PvInv, SocketInv
  <2>3. retryCounter = 0 /\ MostTries \in Nat
    BY <1>3, PvAssumption DEF PvInv, NightInv
  <2>4. NightInv'
    BY <1>1, <2>3 DEF PvInv, NightInv, IsPair, parserVars
  <2>5. outcome # "none"
    BY <1>3, <2>1 DEF PvInv, ReplyInv
  <2>6. outcome = "whole" /\ inverterSaid # NotSaid => values = inverterSaid
    BY <1>3, <2>1, CompleteLemma DEF PvInv, ReplyInv
  <2>7. ReplyInv'
    BY <1>1, <1>3, <2>5, <2>6 DEF PvInv, ReplyInv, parserVars
  <2> QED
    BY <2>2, <2>4, <2>7 DEF PvInv
<1>4. CASE UNCHANGED <<dataFetchInProgress, dataIsReady>>
  <2>1. SocketInv'
    BY <1>1, <1>4 DEF PvInv, SocketInv
  <2>2. NightInv'
    BY <1>1, <1>4 DEF PvInv, NightInv, IsPair, parserVars
  <2>3. StreamInv => StreamInv'
    BY <1>1, UnreadLemma DEF Unread
  <2>4. ReplyInv'
    BY <1>1, <1>4, <2>3 DEF PvInv, ReplyInv, parserVars
  <2> QED
    BY <2>1, <2>2, <2>4 DEF PvInv
<1> QED
  BY <1>2, <1>3, <1>4

\* The loop has read what there was: the channel is told, and an ended connection closed.
LEMMA EndReadStep == ASSUME PvInv, EndRead, UNCHANGED inverter PROVE PvInv'
<1>1. /\ inLoop /\ inLoop' = FALSE /\ (isOpen => inSocket = << >>)
      /\ UNCHANGED <<hungUp, dataFetchInProgress, retryCounter, rest, valueToFetch, requests,
                     inverterSaid, outcome>>
  BY DEF EndRead, replyVars
<1>2. inSocket = << >> /\ (~isOpen => unsent = << >>)
  BY <1>1 DEF PvInv, SocketInv
<1>3. \/ /\ isOpen /\ hungUp /\ isOpen' = FALSE /\ descriptors' = descriptors - 1
         /\ unsent' = << >> /\ inSocket' = << >>
      \/ (isOpen => ~hungUp) /\ UNCHANGED <<descriptors, isOpen, unsent, inSocket>>
  BY <1>1 DEF EndRead, Stop, Connected
<1>4. SocketInv'
  <2>1. << >> \in Seq(Sent) /\ << >> \in Seq(ReplyLines)
    OBVIOUS
  <2>2. CASE /\ isOpen /\ hungUp /\ isOpen' = FALSE /\ descriptors' = descriptors - 1
             /\ unsent' = << >> /\ inSocket' = << >>
    <3>1. descriptors' = 0
      BY <2>2 DEF PvInv, SocketInv
    <3>2. dataIsReady' \in BOOLEAN
      BY DEF EndRead, PvInv, SocketInv
    <3> QED
      BY <1>1, <2>1, <2>2, <3>1, <3>2 DEF PvInv, SocketInv
  <2>3. CASE (isOpen => ~hungUp) /\ UNCHANGED <<descriptors, isOpen, unsent, inSocket>>
    <3>1. dataIsReady' \in BOOLEAN
      BY DEF EndRead, PvInv, SocketInv
    <3>2. isOpen' => dataFetchInProgress'
      BY <1>1, <2>3 DEF PvInv, SocketInv
    <3> QED
      BY <1>1, <2>3, <3>1, <3>2 DEF PvInv, SocketInv
  <2> QED
    BY <1>3, <2>2, <2>3
<1>5. \/ /\ dataIsReady /\ inverterShown' = PublishedNow /\ dataIsReady' = FALSE
         /\ \/ inverter = "solaredge" /\ values' = NotSaid
            \/ inverter # "solaredge" /\ UNCHANGED <<headerFound, values>>
      \/ ~dataIsReady /\ UNCHANGED <<inverterShown, dataIsReady, headerFound, values>>
  <2>1. dataIsReady \in BOOLEAN
    BY DEF PvInv, SocketInv
  <2> QED
    BY <2>1 DEF EndRead
<1>6. inverter # "solaredge" => PublishedNow = values
  BY DEF PublishedNow
<1>7. IsPair(values')
  <2>1. IsPair(NotSaid) /\ IsPair(values)
    BY DEF IsPair, NotSaid, Two, PvInv, NightInv
  <2> QED
    BY <1>5, <2>1
<1>8. NightInv'
  <2>1. retryCounter > 0 => ~isOpen'
    BY <1>3 DEF PvInv, NightInv
  <2>2. inverter # "solaredge" /\ retryCounter > MostTries => values'.power = 0 /\ inverterShown'.power = 0
    BY <1>5, <1>6 DEF PvInv, NightInv
  <2> QED
    BY <1>1, <1>7, <2>1, <2>2 DEF PvInv, NightInv
<1>9. outcome = "none" /\ dataFetchInProgress => isOpen' /\ ~hungUp
  BY <1>3 DEF PvInv, ReplyInv
<1>10. outcome = "whole" => unsent' = << >>
  BY <1>3 DEF PvInv, ReplyInv
<1>11. outcome \in {"none", "whole"} /\ inverterSaid # NotSaid /\ dataFetchInProgress => StreamInv'
  <2> SUFFICES ASSUME outcome \in {"none", "whole"}, inverterSaid # NotSaid, dataFetchInProgress
               PROVE  StreamInv'
    OBVIOUS
  <2>1. UNCHANGED <<headerFound, values>>
    BY <1>5 DEF PvInv, ReplyInv
  <2>2. UNCHANGED <<unsent, inSocket>>
    BY <1>2, <1>3 DEF PvInv, ReplyInv
  <2>3. Unread
    BY <1>1, <2>1, <2>2 DEF Unread, parserVars
  <2> QED
    BY <2>3, UnreadLemma DEF PvInv, ReplyInv
<1>12. ASSUME outcome = "whole", inverterSaid # NotSaid, retryCounter = 0, ~dataFetchInProgress
       PROVE  ~dataIsReady' /\ inverterShown' = inverterSaid
  <2>1. CASE dataIsReady
    <3>1. values = inverterSaid
      BY <1>12, <2>1 DEF PvInv, ReplyInv
    <3>2. values.energy # 0
      BY <1>12, <3>1 DEF PvInv, ReplyInv
    <3>3. PublishedNow = values
      BY <3>2 DEF PublishedNow
    <3> QED
      BY <1>5, <2>1, <3>1, <3>3
  <2>2. CASE ~dataIsReady
    BY <1>5, <1>12, <2>2 DEF PvInv, ReplyInv
  <2> QED
    BY <2>1, <2>2
<1>13. ~dataIsReady'
  BY <1>5
<1>14. ReplyInv'
  BY <1>1, <1>9, <1>10, <1>11, <1>12, <1>13 DEF PvInv, ReplyInv
<1> QED
  BY <1>4, <1>8, <1>14 DEF PvInv

\* A new request, or an address that cannot be reached.
LEMMA RequestStep == ASSUME PvInv, RequestData, UNCHANGED inverter PROVE PvInv'
<1>1. /\ ~inLoop /\ ~dataFetchInProgress
      /\ UNCHANGED <<inLoop, valueToFetch, headerFound, inverterShown>>
      /\ inverter = "solaredge" => rest' = NoLine
  BY DEF RequestData
<1>2. /\ isOpen = FALSE /\ descriptors = 0 /\ inSocket = << >> /\ unsent = << >>
  BY <1>1 DEF PvInv, SocketInv
<1>3. \/ Request /\ isOpen' = TRUE /\ descriptors' = descriptors + 1
      \/ ConnectFails /\ isOpen' = FALSE /\ descriptors' = descriptors + 0
  BY DEF RequestData, Connect, LeftOpen
<1>4. inverter = "solaredge" => ~dataIsReady
  BY <1>1 DEF PvInv, ReplyInv
<1>5. CASE Request /\ isOpen' = TRUE /\ descriptors' = descriptors + 1
  <2>1. /\ retryCounter' = 0 /\ dataFetchInProgress' = TRUE /\ hungUp' = FALSE
        /\ inSocket' = << >> /\ outcome' = "none" /\ requests < Len(Reports)
        /\ requests' = requests + 1 /\ UNCHANGED <<values, dataIsReady>>
    BY <1>5 DEF Request
  <2>2. PICK reply \in Replies(inverter, Reports[requests + 1]) :
          /\ unsent' = reply
          /\ inverterSaid' =
               IF reply = <<Header, Columns, Asleep>> THEN NotSaid ELSE Reports[requests + 1]
    BY <1>5 DEF Request
  <2>3. Reports[requests + 1] \in [power : Nat \ {0}, energy : Nat \ {0}] /\ requests' \in Nat
    <3>1. requests \in Nat /\ Reports \in Seq([power : Nat \ {0}, energy : Nat \ {0}])
      BY PvAssumption DEF PvInv, ReplyInv
    <3>2. requests + 1 \in 1 .. Len(Reports) /\ requests + 1 \in Nat
      BY <2>1, <3>1
    <3> DEFINE Report == [power : Nat \ {0}, energy : Nat \ {0}]
    <3>3. Reports[requests + 1] \in Report
      <4>1. Reports \in Seq(Report)
        BY <3>1
      <4> HIDE DEF Report
      <4> QED
        BY <3>2, <4>1
    <3> QED
      BY <2>1, <3>2, <3>3
  <2>4. reply \in Seq(ReplyLines) /\ Len(reply) \in Nat
    BY <2>2, <2>3, RepliesLemma DEF PvInv, SocketInv
  <2>5. << >> \in Seq(Sent) /\ descriptors' = 1
    BY <1>2, <1>5
  <2>6. SocketInv'
    BY <1>1, <1>5, <2>1, <2>2, <2>4, <2>5 DEF PvInv, SocketInv
  <2>7. NightInv'
    BY <2>1, PvAssumption DEF PvInv, NightInv, IsPair
  <2>8. ASSUME inverterSaid' # NotSaid PROVE StreamInv'
    <3>1. reply # <<Header, Columns, Asleep>> /\ inverterSaid' = Reports[requests + 1]
      BY <2>2, <2>8
    <3>2. reply \in Saying'
      BY <2>2, <3>1 DEF Saying
    <3>3. Len(inSocket') = 0 /\ unsent' = reply
      BY <2>1, <2>2
    <3>4. Remains(reply, 0)'
      <4>1. Len(inSocket') + Len(unsent') = Len(reply) - 0
        BY <2>4, <3>3
      <4>2. ASSUME NEW i \in 1 .. Len(unsent') PROVE unsent'[i] = reply[0 + Len(inSocket') + i]
        BY <2>4, <3>3, <4>2
      <4>3. \A i \in 1 .. Len(inSocket') : inSocket'[i] = reply[0 + i]
        BY <3>3
      <4> QED
        BY <4>1, <4>2, <4>3 DEF Remains
    <3>5. Stage(0)'
      BY <1>1 DEF Stage
    <3>6. 0 \in 0 .. Len(reply)
      BY <2>4
    <3> QED
      BY <3>2, <3>4, <3>5, <3>6 DEF StreamInv
  <2>9. inverterSaid' # NotSaid => inverterSaid' \in [power : Nat \ {0}, energy : Nat \ {0}]
    BY <2>2, <2>3
  <2>10. ReplyInv'
    BY <1>1, <1>4, <1>5, <2>1, <2>3, <2>8, <2>9 DEF ReplyInv
  <2> QED
    BY <2>6, <2>7, <2>10 DEF PvInv
<1>6. CASE ConnectFails /\ isOpen' = FALSE /\ descriptors' = descriptors + 0
  <2>1. /\ UNCHANGED <<unsent, inSocket, hungUp, dataFetchInProgress, requests, inverterSaid, outcome>>
        /\ retryCounter' = IF retryCounter > MostTries THEN retryCounter ELSE retryCounter + 1
        /\ \/ /\ inverter # "solaredge" /\ retryCounter + 1 > MostTries
              /\ values' = [values EXCEPT !.power = 0] /\ dataIsReady' = TRUE
           \/ /\ ~(inverter # "solaredge" /\ retryCounter + 1 > MostTries)
              /\ UNCHANGED <<values, dataIsReady>>
    BY <1>6 DEF ConnectFails, replyVars
  <2>2. dataIsReady' \in BOOLEAN /\ descriptors' = 0
    <3>1. descriptors' = 0
      BY <1>2, <1>6
    <3>2. dataIsReady' = TRUE \/ dataIsReady' = dataIsReady
      BY <2>1
    <3> QED
      BY <3>1, <3>2 DEF PvInv, SocketInv
  <2>3. SocketInv'
    BY <1>1, <1>2, <1>6, <2>1, <2>2 DEF PvInv, SocketInv
  <2>4. retryCounter \in Nat /\ MostTries \in Nat /\ IsPair(values)
    BY PvAssumption DEF PvInv, NightInv
  <2>5. PICK tries \in Nat : /\ retryCounter' = tries /\ tries > 0
                             /\ tries > MostTries => retryCounter + 1 > MostTries
    BY <2>1, <2>4
  <2>6. CASE /\ inverter # "solaredge" /\ retryCounter + 1 > MostTries
             /\ values' = [values EXCEPT !.power = 0] /\ dataIsReady' = TRUE
    <3>1. IsPair(values') /\ values'.power = 0
      BY <2>4, <2>6 DEF IsPair, Two
    <3> QED
      BY <1>1, <1>6, <2>1, <2>3, <2>5, <2>6, <3>1 DEF PvInv, NightInv, ReplyInv
  <2>7. CASE /\ ~(inverter # "solaredge" /\ retryCounter + 1 > MostTries)
             /\ UNCHANGED <<values, dataIsReady>>
    <3>1. NightInv'
      BY <1>1, <1>6, <2>1, <2>4, <2>5, <2>7 DEF NightInv, IsPair
    <3>2. ReplyInv'
      BY <1>1, <1>4, <2>1, <2>5, <2>7 DEF PvInv, ReplyInv
    <3> QED
      BY <2>3, <3>1, <3>2 DEF PvInv
  <2> QED
    BY <2>1, <2>6, <2>7
<1> QED
  BY <1>3, <1>5, <1>6

\* Nothing is asked for at the start.
LEMMA PvStarts == PvInit => PvInv
<1> SUFFICES ASSUME PvInit PROVE PvInv
  OBVIOUS
<1>1. << >> \in Seq(Sent) /\ << >> \in Seq(ReplyLines)
  OBVIOUS
<1>2. SocketInv
  BY <1>1 DEF PvInit, SocketInv
<1>3. NightInv
  BY PvAssumption DEF PvInit, NightInv, IsPair, NotSaid, Two
<1>4. ReplyInv
  BY DEF PvInit, ReplyInv
<1> QED
  BY <1>2, <1>3, <1>4 DEF PvInv

\* Every step keeps it.
LEMMA PvStep == PvInv /\ [PvNext]_pvVars => PvInv'
<1> SUFFICES ASSUME PvInv, [PvNext]_pvVars PROVE PvInv'
  OBVIOUS
<1>1. CASE (ReplyIsLate /\ UNCHANGED inverter) \/ UNCHANGED pvVars
  <2>1. UNCHANGED <<inverter, descriptors, isOpen, unsent, inSocket, hungUp, inLoop,
                    dataFetchInProgress, dataIsReady, retryCounter, parserVars, inverterShown,
                    requests, inverterSaid, outcome>>
    BY <1>1 DEF ReplyIsLate, pvVars, clientVars, fetchVars, replyVars
  <2>2. SocketInv' /\ NightInv'
    BY <2>1 DEF PvInv, SocketInv, NightInv, IsPair, parserVars
  <2>3. StreamInv => StreamInv'
    BY <2>1, UnreadLemma DEF Unread
  <2>4. ReplyInv'
    BY <2>1, <2>3 DEF PvInv, ReplyInv, parserVars
  <2> QED
    BY <2>2, <2>4 DEF PvInv
<1>2. CASE PvNext
  BY <1>1, <1>2, SendStep, BreakStep, ReadStep, TimeoutStep, BeginReadStep, EndReadStep, RequestStep DEF PvNext
<1> QED
  BY <1>1, <1>2

\* What the readings' run checks of an inverter follows.
LEMMA PvIsShown == PvInv => InverterIsShown /\ NoSocketIsLost
<1> SUFFICES ASSUME PvInv PROVE InverterIsShown /\ NoSocketIsLost
  OBVIOUS
<1>1. NoSocketIsLost
  BY DEF PvInv, SocketInv, NoSocketIsLost
<1>2. NightIsZero
  BY DEF PvInv, NightInv, NightIsZero
<1>3. WholeReplyIsPublished
  BY DEF PvInv, ReplyInv, WholeReplyIsPublished
<1> QED
  BY <1>1, <1>2, <1>3 DEF InverterIsShown

-----------------------------------------------------------------------------
(***************************************************************************)
(* The types of what the sensors, meters and inverters keep.               *)
(***************************************************************************)

\* What each class of sensors keeps has its type.
LEMMA SensorTypesStart == SensorInit => SensorTypeOK
<1> SUFFICES ASSUME SensorInit PROVE SensorTypeOK
  OBVIOUS
<1>1. MostRetries \in Nat /\ 0 \in Echoes /\ CharRange \in Nat /\ CharRange > 0 /\ ImpulseGap \in Nat
      /\ MostImpulses \in Nat
  BY SensorAssumption
<1>2. \A second \in BOOLEAN : NotMeasured(second) \in {-275, -1}
  BY DEF NotMeasured
<1>3. kept \in [BOOLEAN -> Readings \cup {-275, -1}]
  BY <1>2 DEF SensorInit
<1>4. retries \in [BOOLEAN -> 0 .. MostRetries] /\ readouts \in [0 .. 4 -> Echoes]
  BY <1>1 DEF SensorInit
<1>5. alreadyFired \in [Conditions -> BOOLEAN] /\ DOMAIN sensorShown = BOOLEAN
  <2>1. \A v : DOMAIN Plain(v) = BOOLEAN
    BY DEF Plain
  <2> QED
    BY <2>1 DEF SensorInit
<1>6. sensorStatus \in BOOLEAN /\ prevState \in BOOLEAN /\ state \in BOOLEAN /\ everChanged \in BOOLEAN
      /\ sensorKind \in SensorKinds
  BY DEF SensorInit
<1>7. index \in 0 .. 4 /\ failCount \in 0 .. CharRange - 1
      /\ counter \in 0 .. MostImpulses /\ impulseAge \in 0 .. ImpulseGap + 1
  BY <1>1 DEF SensorInit
<1> QED
  BY <1>3, <1>4, <1>5, <1>6, <1>7 DEF SensorTypeOK

\* And keeps it, whatever is read, answered or left out.
LEMMA SensorTypesStep == ASSUME SensorTypeOK, [SensorNext]_sensorVars PROVE SensorTypeOK'
<1>1. MostRetries \in Nat /\ 0 \in Echoes /\ CharRange \in Nat /\ CharRange > 0 /\ ImpulseGap \in Nat
      /\ MostImpulses \in Nat
  BY SensorAssumption
<1>2. \A second \in BOOLEAN : NotMeasured(second) \in {-275, -1}
  BY DEF NotMeasured
<1>3. sensorKind' = sensorKind
  BY DEF SensorNext, sensorVars
<1> DEFINE Given ==
      DOMAIN sensorShown' = BOOLEAN /\ alreadyFired' \in [Conditions -> BOOLEAN]
      /\ everChanged' \in BOOLEAN
<1>4. ASSUME NEW numbers, DOMAIN numbers = BOOLEAN, SetNewValue(numbers) PROVE Given
  <2>1. alreadyFired \in [Conditions -> BOOLEAN] /\ everChanged \in BOOLEAN
        /\ DOMAIN sensorShown = BOOLEAN
    BY DEF SensorTypeOK
  <2>2. sensorShown' = numbers /\ everChanged' \in BOOLEAN
    BY <1>4, <2>1 DEF SetNewValue
  <2>3. alreadyFired' \in [Conditions -> BOOLEAN]
    <3>1. CASE UNCHANGED alreadyFired
      BY <2>1, <3>1
    <3>2. CASE alreadyFired' = [c \in Conditions |->
                 IF c \in Conditional THEN FiredAfter(c, numbers) ELSE alreadyFired[c]]
      <4>1. ASSUME NEW c \in Conditions
            PROVE  (IF c \in Conditional THEN FiredAfter(c, numbers) ELSE alreadyFired[c]) \in BOOLEAN
        <5>1. FiredAfter(c, numbers) \in BOOLEAN
          <6>1. Meets(c, numbers[c.second]) \in BOOLEAN
            BY Zenon DEF Meets
          <6>2. (c.op = "invalid") \in BOOLEAN
            OBVIOUS
          <6> QED
            BY <6>1, <6>2, Zenon DEF FiredAfter, ConditionHolds
        <5>2. alreadyFired[c] \in BOOLEAN
          BY <2>1
        <5> QED
          BY <5>1, <5>2, Zenon
      <4> QED
        BY <3>2, <4>1, Zenon
    <3> QED
      BY <1>4, <3>1, <3>2 DEF SetNewValue
  <2> QED
    BY <1>4, <2>2, <2>3
<1> DEFINE KeptTyped == kept' \in [BOOLEAN -> Readings \cup {-275, -1}]
                        /\ retries' \in [BOOLEAN -> 0 .. MostRetries]
<1>5. /\ kept \in [BOOLEAN -> Readings \cup {-275, -1}] /\ retries \in [BOOLEAN -> 0 .. MostRetries]
      /\ readouts \in [0 .. 4 -> Echoes] /\ index \in 0 .. 4 /\ failCount \in 0 .. CharRange - 1
      /\ counter \in 0 .. MostImpulses /\ impulseAge \in 0 .. ImpulseGap + 1
      /\ sensorKind \in SensorKinds
  BY DEF SensorTypeOK
<1>6. sensorStatus \in BOOLEAN /\ prevState \in BOOLEAN /\ state \in BOOLEAN /\ everChanged \in BOOLEAN
      /\ alreadyFired \in [Conditions -> BOOLEAN] /\ DOMAIN sensorShown = BOOLEAN
  BY DEF SensorTypeOK
<1>7. \A v : DOMAIN Single(v) = BOOLEAN /\ DOMAIN Plain(v) = BOOLEAN /\ DOMAIN Corrected(v) = BOOLEAN
  BY DEF Single, Plain, Corrected
<1>8. ASSUME NEW second \in BOOLEAN, NEW answer \in Answers
      PROVE  LastOf(answer, second) \in Readings \cup {-275, -1}
             /\ RetriesOf(answer, second) \in 0 .. MostRetries
  <2>1. LastOf(answer, second) \in Readings \cup {-275, -1}
    BY <1>2, <1>5 DEF LastOf, Answers
  <2>2. retries[second] \in 0 .. MostRetries
    BY <1>5
  <2>3. RetriesOf(answer, second) \in 0 .. MostRetries
    BY <1>1, <2>2 DEF RetriesOf, GivesUp
  <2> QED
    BY <2>1, <2>3
<1> HIDE DEF Given, KeptTyped
<1>9. ASSUME ReadTemperature PROVE Given /\ KeptTyped
  <2>1. ASSUME NEW answer \in Answers, ReadPlain(answer) PROVE Given /\ KeptTyped
    BY <1>4, <1>5, <1>7, <2>1 DEF ReadPlain, KeptTyped
  <2>2. ASSUME NEW answer \in Answers, ReadDs18b20(answer) PROVE Given /\ KeptTyped
    <3>1. Given
      BY <1>4, <1>7, <2>2 DEF ReadDs18b20
    <3>2. KeptTyped
      BY <1>5, <1>8, <2>2 DEF ReadDs18b20, KeptTyped
    <3> QED
      BY <3>1, <3>2
  <2>3. ASSUME NEW answers \in [BOOLEAN -> Answers], ReadDht(answers) PROVE Given /\ KeptTyped
    <3>1. Given
      BY <1>4, <1>7, <2>3 DEF ReadDht
    <3>2. KeptTyped
      BY <1>5, <1>8, <2>3 DEF ReadDht, KeptTyped
    <3> QED
      BY <3>1, <3>2
  <2>4. ASSUME NEW answers \in [BOOLEAN -> Answers], ReadBoth(answers) PROVE Given /\ KeptTyped
    <3>1. Given
      BY <1>4, <1>7, <2>4 DEF ReadBoth
    <3>2. answers[FALSE] # Lost => answers[TRUE] # Lost
      <4>1. answers[TRUE] = Lost => answers[~TRUE] = Lost
        BY <2>4 DEF ReadBoth
      <4> QED
        BY <4>1
    <3>3. answers[FALSE] # Lost => answers \in [BOOLEAN -> Readings \cup {-275, -1}]
      BY <3>2 DEF Answers
    <3>4. [second \in BOOLEAN |-> NotMeasured(second)] \in [BOOLEAN -> Readings \cup {-275, -1}]
      BY <1>2
    <3>5. kept' \in [BOOLEAN -> Readings \cup {-275, -1}]
      BY <1>5, <2>4, <3>3, <3>4 DEF ReadBoth
    <3>6. retries' \in [BOOLEAN -> 0 .. MostRetries]
      BY <1>5, <1>8, <2>4 DEF ReadBoth
    <3> QED
      BY <3>1, <3>5, <3>6 DEF KeptTyped
  <2> QED
    BY <1>9, <2>1, <2>2, <2>3, <2>4 DEF ReadTemperature, ReadSi7021, ReadSht3x
<1>10. CASE ReadTemperature
  BY <1>3, <1>5, <1>6, <1>9, <1>10 DEF ReadTemperature, Given, KeptTyped, SensorTypeOK
<1>11. CASE ReadBme
  <2>1. PICK works \in BOOLEAN, first \in BOOLEAN : ReadBme280(works, first)
    BY <1>11 DEF ReadBme
  <2>2. Given
    BY <1>4, <1>7, <2>1 DEF ReadBme280
  <2>3. sensorStatus' \in BOOLEAN
    BY <2>1 DEF ReadBme280, Bme280Value
  <2> QED
    BY <1>3, <1>5, <1>6, <1>11, <2>2, <2>3 DEF ReadBme, Given, SensorTypeOK
<1>12. ASSUME NEW echo \in Echoes, ReadDistance(echo) PROVE SensorTypeOK'
  <2>1. Given
    BY <1>4, <1>7, <1>12 DEF ReadDistance
  <2>2. index' \in 0 .. 4
    BY <1>5, <1>12 DEF ReadDistance
  <2>3. readouts' \in [0 .. 4 -> Echoes]
    BY <1>5, <1>12, <2>2 DEF ReadDistance
  <2>4. failCount' \in 0 .. CharRange - 1
    <3>1. (failCount + 1) % CharRange \in 0 .. CharRange - 1
      BY <1>1, <1>5
    <3> QED
      BY <1>1, <1>12, <3>1 DEF ReadDistance
  <2> QED
    BY <1>3, <1>5, <1>6, <1>12, <2>1, <2>2, <2>3, <2>4 DEF ReadDistance, Given, SensorTypeOK
<1>13. ASSUME NEW level \in BOOLEAN, OnFastTimer(level) PROVE SensorTypeOK'
  <2>1. Given
    BY <1>4, <1>7, <1>13 DEF OnFastTimer
  <2>2. counter' \in 0 .. MostImpulses /\ impulseAge' \in 0 .. ImpulseGap + 1 /\ prevState' \in BOOLEAN
    BY <1>1, <1>5, <1>13 DEF OnFastTimer
  <2> QED
    BY <1>3, <1>5, <1>6, <1>13, <2>1, <2>2 DEF OnFastTimer, Given, SensorTypeOK
<1>14. CASE ResetCounter
  <2>1. Given
    BY <1>4, <1>7, <1>14 DEF ResetCounter
  <2>2. 0 \in 0 .. MostImpulses
    BY <1>1
  <2> QED
    BY <1>3, <1>5, <1>6, <1>14, <2>1, <2>2 DEF ResetCounter, Given, SensorTypeOK
<1>15. CASE SwitchBinary
  BY <1>3, <1>5, <1>6, <1>15 DEF SwitchBinary, SensorTypeOK
<1>16. CASE ReadBinary
  <2>1. Given
    BY <1>4, <1>7, <1>16 DEF ReadBinary
  <2> QED
    BY <1>3, <1>5, <1>6, <1>16, <2>1 DEF ReadBinary, ownVars, Given, SensorTypeOK
<1>17. CASE UNCHANGED sensorVars
  BY <1>17 DEF sensorVars, ownVars, SensorTypeOK
<1> QED
  BY <1>10, <1>11, <1>12, <1>13, <1>14, <1>15, <1>16, <1>17 DEF SensorNext

\* What Publish leaves is typed when what it is given is.
LEMMA PublishTypes ==
  ASSUME MeterTypeOK, NEW f, Publish(f), meterKind' = meterKind,
         taken' \in Polls, heard' \subseteq Phases,
         f.raw \in [Phases -> Nat], f.energy \in [Phases -> Nat], f.m \in Tables,
         f.measured \subseteq Shapes \cup {"current_over_65a"}, f.available \in BOOLEAN
  PROVE  MeterTypeOK'
<1> DEFINE g == WithCurrent(f)
<1>1. /\ meterKind \in MeterKinds /\ phasesOn \subseteq Phases
      /\ meterFired \in [MeterConditions -> BOOLEAN]
  BY DEF MeterTypeOK
<1>2. [f.m EXCEPT !["current"] =
         [p \in Phases |-> IF Over65A(f) THEN f.raw[p] \div Coarse ELSE f.raw[p]]] \in Tables
  <2>1. \A n \in Nat : n \div Coarse \in Nat
    BY MeterAssumption
  <2>2. [p \in Phases |-> IF Over65A(f) THEN f.raw[p] \div Coarse ELSE f.raw[p]] \in [Phases -> Nat]
    BY <2>1
  <2> QED
    BY <2>2 DEF Tables
<1>3. Flag(f) \in Shapes \cup {"current_over_65a"}
  BY DEF Flag, Shapes
<1>4. g.raw \in [Phases -> Nat] /\ g.energy \in [Phases -> Nat] /\ g.m \in Tables
      /\ g.measured \subseteq Shapes \cup {"current_over_65a"} /\ g.available \in BOOLEAN
  <2>1. CASE f.available
    BY <1>2, <1>3, <2>1 DEF WithCurrent
  <2>2. CASE ~f.available
    BY <2>2 DEF WithCurrent
  <2> QED
    BY <2>1, <2>2
<1>5. ASSUME NEW v PROVE On(v) \subseteq Phases
  BY DEF On
<1>6. ASSUME NEW v PROVE [c \in MeterConditions |-> MeterHolds(v, c)] \in [MeterConditions -> BOOLEAN]
  <2>1. \A c \in MeterConditions : MeterHolds(v, c) \in BOOLEAN
    BY Zenon DEF MeterHolds
  <2> QED
    BY <2>1, Zenon
<1> HIDE DEF g
<1>7. rawCurrent' = g.raw /\ currentMeasurementAvailable' = g.available /\ energy' = g.energy
  BY DEF Publish, g
<1>8. /\ m' = g.m \/ m' = f.m
      /\ measured_values' = g.measured \/ measured_values' = f.measured
      /\ phasesOn' \subseteq Phases /\ meterFired' \in [MeterConditions -> BOOLEAN]
  <2> DEFINE v == [m |-> g.m, energy |-> g.energy, measured |-> g.measured]
  <2>1. \/ /\ m' = g.m /\ measured_values' = g.measured /\ phasesOn' = On(v)
           /\ meterFired' = [c \in MeterConditions |-> MeterHolds(v, c)]
        \/ m' = f.m /\ measured_values' = f.measured /\ UNCHANGED <<phasesOn, meterFired>>
    BY DEF Publish, g
  <2> HIDE DEF v
  <2> QED
    BY <1>1, <1>5, <1>6, <2>1
<1> QED
  BY <1>1, <1>4, <1>7, <1>8 DEF MeterTypeOK, Tables, Polls

\* What a meter keeps has its type, whatever the phases answer.
LEMMA MeterTypesStart == MeterInit => MeterTypeOK
<1> SUFFICES ASSUME MeterInit PROVE MeterTypeOK
  OBVIOUS
<1>1. rawCurrent \in [Phases -> Nat] /\ energy \in [Phases -> Nat]
  BY DEF MeterInit
<1>2. m \in [Measured -> [Phases -> Nat]]
  BY DEF MeterInit, NoMeasurement
<1>3. /\ meterFired \in [MeterConditions -> BOOLEAN] /\ meterKind \in MeterKinds
      /\ measured_values = {} /\ phasesOn = {} /\ currentMeasurementAvailable = FALSE
  BY DEF MeterInit
<1>4. taken \in [Phases -> PhaseReadings \cup {Silent}] /\ heard \subseteq Phases
  BY DEF MeterInit
<1> QED
  BY <1>1, <1>2, <1>3, <1>4 DEF MeterTypeOK

\* And so it does, whatever the phases answer.
LEMMA MeterTypesStep == ASSUME MeterTypeOK, [MeterNext]_meterVars PROVE MeterTypeOK'
<1>1. /\ rawCurrent \in [Phases -> Nat] /\ energy \in [Phases -> Nat] /\ m \in Tables
      /\ measured_values \subseteq Shapes \cup {"current_over_65a"}
      /\ currentMeasurementAvailable \in BOOLEAN
  BY DEF MeterTypeOK, Tables
<1>2. ASSUME Publish(ResetReadParameters(Fields)), meterKind' = meterKind,
             taken' \in Polls, heard' \subseteq Phases
      PROVE  MeterTypeOK'
  <2> DEFINE f == ResetReadParameters(Fields)
  <2>1. NoMeasurement \in Tables
    BY DEF NoMeasurement, Tables
  <2>2. f.raw \in [Phases -> Nat] /\ f.energy \in [Phases -> Nat] /\ f.m \in Tables
        /\ f.measured \subseteq Shapes \cup {"current_over_65a"} /\ f.available \in BOOLEAN
    BY <1>1, <2>1 DEF ResetReadParameters, Fields
  <2> HIDE DEF f
  <2> QED
    BY <1>2, <2>2, PublishTypes DEF f
<1>3. ASSUME NEW answers \in Polls, Publish(Set(Fields, answers)), meterKind' = meterKind,
             taken' \in Polls, heard' \subseteq Phases
      PROVE  MeterTypeOK'
  <2> DEFINE f == Set(Fields, answers)
  <2>1. \A p \in Phases, name \in Shapes : answers[p] # Silent => answers[p][name] \in Nat
    BY MeterAssumption DEF Polls
  <2>2. \A old \in [Phases -> Nat], name \in Shapes : Put(old, answers, name) \in [Phases -> Nat]
    BY <2>1 DEF Put
  <2>3. RawSet(answers) \in [Phases -> Nat] /\ EnergySet(answers) \in [Phases -> Nat]
    BY <1>1, <2>2 DEF RawSet, EnergySet, Shapes
  <2>4. TableSet(answers) \in Tables
    <3>1. \A name \in {"voltage", "power_active"} : Put(m[name], answers, name) \in [Phases -> Nat]
      BY <1>1, <2>2 DEF Tables, Measured, Shapes
    <3> QED
      BY <1>1, <3>1 DEF TableSet, Tables, Measured
  <2>5. MeasuredSet \subseteq Shapes \cup {"current_over_65a"}
    BY <1>1 DEF MeasuredSet, Shapes
  <2>6. /\ Fields.raw = rawCurrent /\ Fields.m = m /\ Fields.energy = energy
        /\ Fields.measured = measured_values
    BY DEF Fields
  <2>7. f.raw = RawSet(answers) /\ f.energy = EnergySet(answers) /\ f.m = TableSet(answers)
        /\ f.measured = MeasuredSet /\ f.available = TRUE
    BY <2>6 DEF Set, RawSet, TableSet, EnergySet, MeasuredSet
  <2>8. f.available \in BOOLEAN
    BY <2>7
  <2> HIDE DEF f
  <2> QED
    BY <1>3, <2>3, <2>4, <2>5, <2>7, <2>8, PublishTypes DEF f
<1>4. ASSUME NEW answers \in Polls, ReadMeter(answers), meterKind' = meterKind PROVE MeterTypeOK'
  <2>1. Publish(Set(Fields, answers)) \/ Publish(ResetReadParameters(Fields))
    BY <1>4 DEF ReadMeter, ReadPzem, ReadThreePzem, ReadParsed
  <2>2. taken' \in Polls /\ heard' \subseteq Phases
    BY <1>4 DEF ReadMeter, MeterTypeOK, Polls
  <2> QED
    BY <1>2, <1>3, <1>4, <2>1, <2>2
<1>5. CASE UNCHANGED meterVars
  BY <1>5 DEF meterVars, MeterTypeOK
<1> QED
  BY <1>4, <1>5 DEF MeterNext, Polls

-----------------------------------------------------------------------------
\* A line that came in part is one of a reply.
PvTypes == PvTypeOK /\ rest \in ReplyLines \cup {NoLine}

\* What the lines of a reply have.
LEMMA LineTypes ==
  ASSUME NEW line \in ReplyLines
  PROVE  line.what \in {"name", "var"} => line.f \in Two \cup {"other"}
BY DEF ReplyLines, Two, Header, Columns, Name, Value, Var, Row

\* With what was left of another one it is a line.
LEMMA GluedTypes == \A piece \in ReplyLines : Glued(piece) \subseteq ReplyLines
<1> SUFFICES ASSUME NEW piece \in ReplyLines PROVE Glued(piece) \subseteq ReplyLines
  OBVIOUS
<1>1. Header \in ReplyLines
  BY DEF ReplyLines
<1>2. ASSUME piece.what \in {"value", "var"} PROVE [piece EXCEPT !.v = 9] \in ReplyLines
  <2>1. CASE \E v \in Nat : piece = Value(v)
    <3>1. PICK v \in Nat : piece = Value(v)
      BY <2>1
    <3>2. [piece EXCEPT !.v = 9] = Value(9)
      BY <3>1 DEF Value
    <3> QED
      BY <3>2 DEF ReplyLines
  <2>2. CASE \E f \in Two, v \in Nat : piece = Var(f, v)
    <3>1. PICK f \in Two, v \in Nat : piece = Var(f, v)
      BY <2>2
    <3>2. [piece EXCEPT !.v = 9] = Var(f, 9)
      BY <3>1 DEF Var
    <3> QED
      BY <3>2 DEF ReplyLines
  <2>3. piece \in {Header, Columns} \/ (\E f : piece = Name(f))
        \/ (\E mode, p, e : piece = Row(mode, p, e)) => FALSE
    BY <1>2 DEF Header, Columns, Name, Row
  <2>4. \/ piece \in {Header, Columns} \/ (\E f : piece = Name(f))
        \/ (\E mode, p, e : piece = Row(mode, p, e))
        \/ (\E v \in Nat : piece = Value(v)) \/ (\E f \in Two, v \in Nat : piece = Var(f, v))
    <3> HIDE DEF Header, Columns
    <3> QED
      BY DEF ReplyLines
  <2> QED
    BY <2>1, <2>2, <2>3, <2>4
<1> QED
  BY <1>1, <1>2 DEF Glued

\* What the parser of an inverter makes of a line.
LEMMA ParsedTypes ==
  ASSUME PvTypeOK, NEW line \in ReplyLines \cup {NoLine}, ParsedLine(line)
  PROVE  /\ valueToFetch' \in {"none", "power", "energy"} /\ headerFound' \in BOOLEAN
         /\ DOMAIN values' = {"power", "energy"}
<1>1. /\ valueToFetch \in {"none", "power", "energy"} /\ headerFound \in BOOLEAN
      /\ DOMAIN values = {"power", "energy"}
  BY DEF PvTypeOK
<1>2. CASE ParsedAfore(line)
  BY <1>1, <1>2 DEF ParsedAfore
<1>3. CASE ParsedFronius(line)
  <2>1. line.what = "name" /\ line.f # "other" => line.f \in {"power", "energy"}
    BY LineTypes DEF Two, NoLine
  <2> QED
    BY <1>1, <1>3, <2>1 DEF ParsedFronius
<1>4. CASE ParsedSolarEdge(line)
  <2>1. headerFound' \in BOOLEAN
    BY <1>1, <1>4 DEF ParsedSolarEdge
  <2>2. DOMAIN values' = {"power", "energy"}
    BY <1>1, <1>4 DEF ParsedSolarEdge
  <2> QED
    BY <1>1, <1>4, <2>1, <2>2 DEF ParsedSolarEdge
<1> QED
  BY <1>2, <1>3, <1>4 DEF ParsedLine

\* An inverter starts with nothing read and nothing pending.
LEMMA PvTypesStart == PvInit => PvTypes
<1> SUFFICES ASSUME PvInit PROVE PvTypes
  OBVIOUS
<1>1. 0 \in 0 .. ReplyTimeout + 1 /\ 0 \in 0 .. MostTries + 1
  BY PvAssumption
<1>2. DOMAIN NotSaid = {"power", "energy"}
  BY DEF NotSaid
<1>3. /\ inverter \in Inverters /\ descriptors = 0 /\ isOpen = FALSE
      /\ dataFetchInProgress = FALSE /\ dataIsReady = FALSE
      /\ connectionAge = 0 /\ retryCounter = 0 /\ rest = NoLine /\ valueToFetch = "none"
      /\ headerFound = FALSE /\ values = NotSaid /\ inverterShown = NotSaid
  BY DEF PvInit
<1> QED
  BY <1>1, <1>2, <1>3 DEF PvTypes, PvTypeOK

\* The lines that come, in one piece or in two, leave numbers.
LEMMA PvTypesStep == ASSUME PvTypes, PvInv, PvInv', [PvNext]_pvVars PROVE PvTypes'
<1>1. /\ connectionAge \in 0 .. ReplyTimeout + 1 /\ retryCounter \in 0 .. MostTries + 1
      /\ valueToFetch \in {"none", "power", "energy"} /\ headerFound \in BOOLEAN
      /\ DOMAIN values = {"power", "energy"} /\ DOMAIN inverterShown = {"power", "energy"}
      /\ rest \in ReplyLines \cup {NoLine} /\ PvTypeOK
  BY DEF PvTypes, PvTypeOK
<1>2. /\ inverter' \in Inverters /\ isOpen' \in BOOLEAN /\ dataFetchInProgress' \in BOOLEAN
      /\ dataIsReady' \in BOOLEAN /\ descriptors' \in Nat
  <2>1. descriptors' = IF isOpen' THEN 1 ELSE 0
    BY DEF PvInv, SocketInv
  <2> QED
    BY <2>1 DEF PvInv, SocketInv
<1>3. ReplyTimeout \in Nat /\ MostTries \in Nat
  BY PvAssumption
<1>4. inSocket \in Seq(Sent)
  BY DEF PvInv, SocketInv
<1> DEFINE Typed ==
      /\ connectionAge' \in 0 .. ReplyTimeout + 1 /\ retryCounter' \in 0 .. MostTries + 1
      /\ valueToFetch' \in {"none", "power", "energy"} /\ headerFound' \in BOOLEAN
      /\ DOMAIN values' = {"power", "energy"} /\ DOMAIN inverterShown' = {"power", "energy"}
      /\ rest' \in ReplyLines \cup {NoLine}
<1>5. ASSUME Typed PROVE PvTypes'
  BY <1>2, <1>5 DEF PvTypes, PvTypeOK
<1>6. ASSUME UNCHANGED <<connectionAge, retryCounter, parserVars, inverterShown>> PROVE Typed
  BY <1>1, <1>6 DEF parserVars
<1> HIDE DEF Typed
<1>7. SendLine \/ Stall \/ BeginRead \/ (\E withPiece \in BOOLEAN : HangUp(withPiece)) => Typed
  BY <1>6 DEF SendLine, Stall, BeginRead, HangUp, fetchVars
<1>8. TimesOut => Typed
  BY <1>6 DEF TimesOut
<1>9. ASSUME ReadLine PROVE Typed
  <2>1. UNCHANGED <<connectionAge, retryCounter, inverterShown>>
    BY <1>9 DEF ReadLine, fetchVars
  <2>2. Head(inSocket) \in Sent
    BY <1>4, <1>9 DEF ReadLine
  <2>3. CASE Head(inSocket).what = "piece"
    <3>1. Head(inSocket).of \in ReplyLines
      BY <2>2, <2>3, SMTT(20) DEF Sent, ReplyLines, Header, Columns, Name, Value, Var, Row
    <3>2. rest' = Head(inSocket).of /\ UNCHANGED <<values, valueToFetch, headerFound>>
      BY <1>9, <2>3 DEF ReadLine
    <3> QED
      BY <1>1, <2>1, <3>1, <3>2 DEF Typed
  <2>4. CASE Head(inSocket).what # "piece"
    <3>1. Head(inSocket) \in ReplyLines
      BY <2>2, <2>4 DEF Sent
    <3>2. PICK line \in ReplyLines \cup {NoLine} :
             ParsedLine(line) /\ (rest' = NoLine \/ rest' = rest)
      <4>1. CASE rest = NoLine
        BY <1>9, <2>4, <3>1, <4>1 DEF ReadLine
      <4>2. CASE rest # NoLine
        <5>1. PICK whole \in Glued(rest) : ParsedLine(whole) /\ rest' = NoLine
          BY <1>9, <2>4, <4>2 DEF ReadLine
        <5>2. whole \in ReplyLines
          BY <1>1, <4>2, GluedTypes
        <5> QED
          BY <5>1, <5>2
      <4> QED
        BY <4>1, <4>2
    <3>3. /\ valueToFetch' \in {"none", "power", "energy"} /\ headerFound' \in BOOLEAN
          /\ DOMAIN values' = {"power", "energy"}
      BY <1>1, <3>2, ParsedTypes
    <3> QED
      BY <1>1, <2>1, <3>2, <3>3 DEF Typed
  <2> QED
    BY <2>3, <2>4
<1>10. ASSUME EndRead PROVE Typed
  <2>1. UNCHANGED <<connectionAge, retryCounter, rest, valueToFetch>>
    BY <1>10 DEF EndRead
  <2>2. DOMAIN NotSaid = {"power", "energy"} /\ DOMAIN PublishedNow = {"power", "energy"}
    BY <1>1 DEF NotSaid, PublishedNow
  <2>3. headerFound' \in BOOLEAN /\ DOMAIN values' = {"power", "energy"}
        /\ DOMAIN inverterShown' = {"power", "energy"}
    BY <1>1, <1>10, <2>2 DEF EndRead
  <2> QED
    BY <1>1, <2>1, <2>3 DEF Typed
<1>11. ASSUME RequestData PROVE Typed
  <2>1. UNCHANGED <<valueToFetch, headerFound, inverterShown>> /\ rest' \in ReplyLines \cup {NoLine}
    BY <1>1, <1>11 DEF RequestData
  <2>2. Request \/ ConnectFails
    BY <1>11 DEF RequestData
  <2>3. CASE Request
    <3>1. connectionAge' = 0 /\ retryCounter' = 0 /\ values' = values
      BY <2>3 DEF Request
    <3> QED
      BY <1>1, <1>3, <2>1, <3>1 DEF Typed
  <2>4. CASE ConnectFails
    <3>1. connectionAge' = connectionAge /\ DOMAIN values' = {"power", "energy"}
      BY <1>1, <2>4 DEF ConnectFails
    <3>2. retryCounter' \in 0 .. MostTries + 1
      BY <1>1, <1>3, <2>4 DEF ConnectFails
    <3> QED
      BY <1>1, <2>1, <3>1, <3>2 DEF Typed
  <2> QED
    BY <2>2, <2>3, <2>4
<1>12. ASSUME ReplyIsLate PROVE Typed
  <2>1. connectionAge' \in 0 .. ReplyTimeout + 1
    BY <1>1, <1>3, <1>12 DEF ReplyIsLate
  <2> QED
    BY <1>1, <1>12, <2>1 DEF ReplyIsLate, parserVars, Typed
<1>13. CASE UNCHANGED pvVars
  BY <1>5, <1>6, <1>13 DEF pvVars, fetchVars
<1> QED
  BY <1>5, <1>7, <1>8, <1>9, <1>10, <1>11, <1>12, <1>13 DEF PvNext
=============================================================================
