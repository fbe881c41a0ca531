-------------------------------- MODULE Meter -------------------------------
(***************************************************************************)
(* ElectricityMeter: what was read from the device, what the channel       *)
(* publishes of it, and the conditions on published values.                *)
(*                                                                         *)
(* Of the values of a phase there are the voltage, the active power and    *)
(* the current, and the energy that survives a silence; the others are     *)
(* handled as the power is.  The readers are PzemV3 (one phase), the three *)
(* phase PzemV3, and the meter fed from a parsed source.                   *)
(***************************************************************************)
EXTENDS Integers, FiniteSets
LOCAL INSTANCE FiniteSetsExt

CONSTANTS
  MeterKinds,      \* of "single", "three", "parsed"
  Phases,          \* phases of a meter with more than one, 1 is there
  PhaseReadings,   \* what a phase answers: [voltage, power_active, current, energy]
  OverLimit,       \* 65000 mA
  Coarse,          \* by what a larger current is divided (10)
  MeterConditions  \* [get, phase, above]: a getter and the threshold of OnGreater, phase 0 for
                   \* the total of all phases

Shapes == {"voltage", "power_active", "current", "energy"}
Silent == [silent |-> TRUE]

ASSUME MeterAssumption ==
  /\ MeterKinds \subseteq {"single", "three", "parsed"}
  /\ 1 \in Phases /\ IsFiniteSet(Phases)
  /\ PhaseReadings \subseteq [Shapes -> Nat]
  /\ OverLimit \in Nat /\ Coarse \in Nat \ {0}
  /\ MeterConditions \subseteq
       [get : {"voltage", "power_active", "current"}, phase : Phases \cup {0}, above : Nat]

VARIABLES
  meterKind,
  rawCurrent, currentMeasurementAvailable,
  m,               \* emValue.m[0]: by name and phase
  energy,          \* total_forward_active_energy
  measured_values,
  meterShown,      \* extended value of the channel, NotYet before the first one
  phasesOn,        \* flags of the channel's own value
  meterFired,      \* alreadyFired
  taken,           \* what each phase answered last, in a reading that was not dropped
  heard            \* phases that did so since the readings were reset

NotYet == [none |-> TRUE]
meterVars == <<meterKind, rawCurrent, currentMeasurementAvailable, m, energy, measured_values,
               meterShown, phasesOn, meterFired, taken, heard>>

Own == IF meterKind = "single" THEN {1} ELSE Phases
Measured == {"voltage", "power_active", "current"}
NoMeasurement == [name \in Measured |-> [p \in Phases |-> 0]]

MeterTypeOK ==
  /\ meterKind \in MeterKinds
  /\ rawCurrent \in [Phases -> Nat] /\ energy \in [Phases -> Nat]
  /\ m \in [Measured -> [Phases -> Nat]]
  /\ measured_values \subseteq Shapes \cup {"current_over_65a"}
  /\ currentMeasurementAvailable \in BOOLEAN
  /\ phasesOn \subseteq Phases
  /\ meterFired \in [MeterConditions -> BOOLEAN]
  /\ taken \in [Phases -> PhaseReadings \cup {Silent}] /\ heard \subseteq Phases

-----------------------------------------------------------------------------
(***************************************************************************)
(* setVoltage, setPowerActive, setCurrent, setFwdActEnergy for all phases  *)
(* that answered, and resetReadParameters, on a record of the fields.      *)
(***************************************************************************)
Fields == [raw |-> rawCurrent, available |-> currentMeasurementAvailable, m |-> m,
           energy |-> energy, measured |-> measured_values, changed |-> FALSE]

Put(old, answers, name) ==
  [p \in Phases |-> IF answers[p] = Silent THEN old[p] ELSE answers[p][name]]

Set(f, answers) ==
  LET raw == Put(f.raw, answers, "current")
      table == [name \in Measured |->
                  IF name = "current" THEN f.m[name] ELSE Put(f.m[name], answers, name)]
      energies == Put(f.energy, answers, "energy")
  IN [raw |-> raw, available |-> TRUE, m |-> table, energy |-> energies,
      measured |-> f.measured \cup {"voltage", "power_active", "energy"},
      changed |-> table # f.m \/ energies # f.energy \/ raw # f.raw]

\* The raw currents stay, and so does that they are available.
ResetReadParameters(f) ==
  IF f.measured = {} THEN f ELSE [f EXCEPT !.measured = {}, !.m = NoMeasurement, !.changed = TRUE]

\* PZEMv3, ThreePhasePZEMv3 and ElectricityMeterParsed::readValuesFromDevice
ReadPzem(answers) ==
  IF answers[1] = Silent THEN ResetReadParameters(Fields) ELSE Set(Fields, answers)
ReadThreePzem(answers) ==
  IF \A p \in Phases : answers[p] = Silent THEN ResetReadParameters(Fields)
  ELSE Set(Fields, answers)
ReadParsed(answers) ==
  IF \E p \in Phases : answers[p] = Silent THEN ResetReadParameters(Fields)
  ELSE Set(Fields, answers)

-----------------------------------------------------------------------------
(***************************************************************************)
(* updateChannelValues                                                     *)
(***************************************************************************)
Over65A(f) == \E p \in Phases : f.raw[p] > OverLimit
Flag(f) == IF Over65A(f) THEN "current_over_65a" ELSE "current"
WithCurrent(f) ==
  IF ~f.available THEN f
  ELSE [raw |-> f.raw, available |-> TRUE, energy |-> f.energy, changed |-> f.changed,
        m |-> [f.m EXCEPT !["current"] =
                 [p \in Phases |-> IF Over65A(f) THEN f.raw[p] \div Coarse ELSE f.raw[p]]],
        measured |-> (f.measured \ {"current", "current_over_65a"}) \cup {Flag(f)}]

\* ConditionGetter: the getters of condition_getter.cpp, in thousandths for the current.
Total(f, S) == MapThenSumSet(LAMBDA p : f[p], S)
Factor(v) == IF "current" \in v.measured THEN 1 ELSE Coarse
HasValue(v, name) ==
  IF name = "current" THEN v.measured \cap {"current", "current_over_65a"} # {}
  ELSE name \in v.measured
GetValue(v, c) ==
  LET values == v.m[c.get]
      value == IF c.phase = 0 THEN Total(values, Phases) ELSE values[c.phase]
  IN IF c.get = "current" THEN value * Factor(v) ELSE value
MeterHolds(v, c) == HasValue(v, c.get) /\ GetValue(v, c) > c.above

\* Channel::setNewValue of an extended value
On(v) == IF "voltage" \in v.measured THEN {p \in Phases : v.m["voltage"][p] > 0} ELSE {}

Publish(f) ==
  LET g == WithCurrent(f)
      v == [m |-> g.m, energy |-> g.energy, measured |-> g.measured]
  IN /\ rawCurrent' = g.raw /\ currentMeasurementAvailable' = g.available
     /\ energy' = g.energy
     /\ IF f.changed
        THEN /\ m' = g.m /\ measured_values' = g.measured
             /\ meterShown' = v /\ phasesOn' = On(v)
             /\ meterFired' = [c \in MeterConditions |-> MeterHolds(v, c)]
        ELSE /\ m' = f.m /\ measured_values' = f.measured
             /\ UNCHANGED <<meterShown, phasesOn, meterFired>>

\* The readings that end in resetReadParameters().
IsDropped(answers) ==
  \/ \A p \in Phases : answers[p] = Silent
  \/ meterKind = "parsed" /\ \E p \in Phases : answers[p] = Silent

\* onInit and, every refreshRateSec, iterateAlways.
ReadMeter(answers) ==
  /\ \/ IsDropped(answers) /\ heard' = {} /\ taken' = taken
     \/ /\ ~IsDropped(answers)
        /\ heard' = heard \cup {p \in Phases : answers[p] # Silent}
        /\ taken' = [p \in Phases |-> IF answers[p] = Silent THEN taken[p] ELSE answers[p]]
  /\ \/ meterKind = "single" /\ Publish(ReadPzem(answers))
     \/ meterKind = "three" /\ Publish(ReadThreePzem(answers))
     \/ meterKind = "parsed" /\ Publish(ReadParsed(answers))

MeterInit ==
  /\ meterKind \in MeterKinds
  /\ rawCurrent = [p \in Phases |-> 0] /\ currentMeasurementAvailable = FALSE
  /\ m = NoMeasurement /\ energy = [p \in Phases |-> 0] /\ measured_values = {}
  /\ meterShown = NotYet /\ phasesOn = {}
  /\ meterFired = [c \in MeterConditions |-> FALSE]
  /\ taken = [p \in Phases |-> Silent] /\ heard = {}

MeterNext ==
  /\ \E answers \in [Phases -> PhaseReadings \cup {Silent}] :
       /\ \A p \in Phases \ Own : answers[p] = Silent
       /\ ReadMeter(answers)
  /\ UNCHANGED meterKind
-----------------------------------------------------------------------------
\* What the channel publishes of a phase is what the phase said last, the current to the precision
\* its flag states, and whether the phase is on: however readings with some phases, with all of
\* them and with none follow each other.  A meter that is silent as a whole (one with a parsed
\* source: when any phase is) loses its voltages and powers until its phases are heard again; its
\* currents and energies stay, and so does everything of one silent phase among others.
LastSaid(p, name) == IF taken[p] = Silent THEN 0 ELSE taken[p][name]
SaidByPhase(p) ==
  /\ \A name \in {"voltage", "power_active"} :
       meterShown.m[name][p] = IF p \in heard THEN LastSaid(p, name) ELSE 0
  /\ meterShown.energy[p] = LastSaid(p, "energy")
  /\ \/ "current" \in meterShown.measured /\ meterShown.m["current"][p] = LastSaid(p, "current")
     \/ /\ "current_over_65a" \in meterShown.measured
        /\ meterShown.m["current"][p] = LastSaid(p, "current") \div Coarse
  /\ p \in phasesOn <=> p \in heard /\ LastSaid(p, "voltage") > 0
PublishedIsRead ==
  meterShown # NotYet =>
    /\ \A p \in Phases : SaidByPhase(p)
    /\ heard = {} => meterShown.measured \subseteq {"current", "current_over_65a"}
    /\ \A c \in MeterConditions : meterFired[c] = MeterHolds(meterShown, c)
=============================================================================
