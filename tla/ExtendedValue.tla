--------------------------- MODULE ExtendedValue ---------------------------
(***************************************************************************)
(* The extended value of a channel: a type, a size and a buffer, into      *)
(* which the details of an electricity meter, a thermostat or a counter    *)
(* are put without the part at the end that says nothing; and several of   *)
(* them in one, each with its header, read by walking from header to       *)
(* header.  Whoever puts a value in expects to get it back.                *)
(*                                                                         *)
(* A buffer is a sequence of cells.  A member of a structure and a header  *)
(* are one cell each.                                                      *)
(***************************************************************************)
EXTENDS Integers, Sequences, SequencesExt, FiniteSetsExt

CONSTANTS
  ValueSize,    \* SUPLA_CHANNELEXTENDEDVALUE_SIZE
  Measurements, \* EM_MEASUREMENT_COUNT
  Given,        \* bound: the details there are to put in
  MostValues    \* bound: calls of value_add
ASSUME ExtendedValueAssumption ==
  ValueSize \in Nat /\ Measurements \in Nat /\ MostValues \in Nat

VARIABLES
  dest,         \* the value that is built
  taken,        \* the details it took, in order
  adds         \* calls of value_add

valueVars == <<dest, taken, adds>>

Zeros(n) == [i \in 1 .. n |-> 0]
Padded(cells, n) == cells \o Zeros(n - Len(cells))
NoValue == [type |-> "none", size |-> 0, content |-> << >>]
ValueFrom(type, cells) == [type |-> type, size |-> Len(cells), content |-> cells]

-----------------------------------------------------------------------------
(***************************************************************************)
(* Electricity meters: the totals, the bits of what is measured with the   *)
(* number of measurements, and the measurements.                           *)
(***************************************************************************)
Balanced == {"forward_balanced", "reverse_balanced"}
Totals(meter) == IF meter.version = 1 THEN <<"totals">> ELSE <<"totals", meter.balanced>>
MeterCells(meter) ==
  Totals(meter) \o <<[bits |-> meter.bits, count |-> meter.count]>> \o meter.m

MeterEncoded(type, meter) ==
  LET size == Len(MeterCells(meter)) - Measurements + meter.count
  IN  IF meter.count \notin 0 .. Measurements \/ size > ValueSize THEN NoValue
      ELSE ValueFrom(type, SubSeq(MeterCells(meter), 1, size))
EncodedV1(meter) == MeterEncoded("meter1", meter)
EncodedV2(meter) == MeterEncoded("meter2", meter)

\* The size must be that of the number of measurements inside.
MeterDecoded(ev, totals) ==
  LET full == totals + 1 + Measurements
      cells == Padded(ev.content, full)
  IN  IF ev.size \in 1 .. full /\ cells[totals + 1].count <= Measurements
         /\ ev.size = totals + 1 + cells[totals + 1].count
        THEN cells ELSE Zeros(full)
DecodedV1(ev) == MeterDecoded(ev, 1)
DecodedV2(ev) == MeterDecoded(ev, 2)

\* The first version has no balanced energies: neither they nor their bits get through.
V1To2(meter) ==
  [meter EXCEPT !.version = 2, !.balanced = 0, !.bits = @ \ Balanced]
V2To1(meter) ==
  [meter EXCEPT !.version = 1, !.balanced = 0, !.bits = @ \ Balanced]

-----------------------------------------------------------------------------
(***************************************************************************)
(* Thermostats: what follows the last field in use is left out.            *)
(***************************************************************************)
ThermostatFields == <<"measured", "preset", "flags", "values", "time", "schedule">>
ThermostatCells(thermostat) == <<thermostat.fields>> \o ThermostatFields

LastUsed(fields) ==
  Max({0} \cup {i \in 1 .. Len(ThermostatFields) : ThermostatFields[i] \in fields})
ThermostatEncoded(thermostat) ==
  ValueFrom("thermostat",
          SubSeq(ThermostatCells(thermostat), 1, 1 + LastUsed(thermostat.fields)))
ThermostatDecoded(ev) == Padded(ev.content, 1 + Len(ThermostatFields))

CounterEncoded == ValueFrom("counter", <<"cost", "count">>)
CounterDecoded(ev) == IF ev.size = 2 THEN ev.content ELSE Zeros(2)

ValueOfDetails(details) ==
  CASE details.kind = "meter" ->
         IF details.version = 1 THEN EncodedV1(details) ELSE EncodedV2(details)
    [] details.kind = "thermostat" -> ThermostatEncoded(details)
    [] details.kind = "counter" -> CounterEncoded

DetailsOfValue(ev) ==
  CASE ev.type = "meter1" -> DecodedV1(ev)
    [] ev.type = "meter2" -> DecodedV2(ev)
    [] ev.type = "thermostat" -> ThermostatDecoded(ev)
    [] ev.type = "counter" -> CounterDecoded(ev)

-----------------------------------------------------------------------------
(***************************************************************************)
(* Several values in one.                                                  *)
(***************************************************************************)
WithHeader(ev) == <<[type |-> ev.type, size |-> ev.size]>> \o ev.content
Appended(ev, src) == ValueFrom("multi", ev.content \o WithHeader(src))

\* srpc_evtool_value_add(); a value that does not fit changes nothing.
ValueAdd(ev, src) ==
  LET first == ValueFrom("multi", WithHeader(ev))
      multi == IF ev.type = "multi" THEN ev ELSE first
  IN  CASE src.type = "none" \/ src.size = 0 -> NoValue
        [] src.size > 0 /\ ev.type = "none" -> src
        [] OTHER -> IF multi.size + 1 + src.size > ValueSize THEN NoValue
                    ELSE Appended(multi, src)

\* srpc_evtool_value_get(): where each value starts, by the sizes of those before.
ItemAt(ev, offset) == ev.content[offset + 1]
Offsets(ev) ==
  LET offset[n \in 0 .. MostValues] ==
        IF n = 0 THEN 0
        ELSE IF offset[n - 1] >= ev.size - 1 THEN ev.size
        ELSE offset[n - 1] + 1 + ItemAt(ev, offset[n - 1]).size
  IN  offset
ValueGet(ev, i) ==
  CASE ev.type = "none" -> NoValue
    [] ev.type = "multi" /\ Offsets(ev)[i] < ev.size - 1 ->
         LET start == Offsets(ev)[i]
             item == ItemAt(ev, start)
         IN  [type |-> item.type, size |-> item.size,
              content |-> SubSeq(ev.content, start + 2, start + 1 + item.size)]
    [] OTHER -> IF i = 0 THEN ev ELSE NoValue

ValuesInit == dest = NoValue /\ taken = << >> /\ adds = 0

AddValue ==
  /\ adds < MostValues /\ adds' = adds + 1
  /\ \E details \in Given :
       LET sum == ValueAdd(dest, ValueOfDetails(details)) IN
       IF sum = NoValue THEN UNCHANGED <<dest, taken>>
       ELSE dest' = sum /\ taken' = Append(taken, details)

ValuesNext == AddValue

ValuesTypeOK ==
  adds \in 0 .. MostValues /\ taken \in Seq(Given) /\ Len(taken) <= adds

-----------------------------------------------------------------------------
\* What is left of the details: everything that was in use.
ComesBack(details, cells) ==
  CASE details.kind = "meter" ->
         SubSeq(cells, 1, Len(MeterCells(details)) - Measurements + details.count) =
           SubSeq(MeterCells(details), 1, Len(MeterCells(details)) - Measurements + details.count)
    [] details.kind = "thermostat" ->
         /\ cells[1] = details.fields
         /\ \A i \in 1 .. Len(ThermostatFields) :
              ThermostatFields[i] \in details.fields => cells[i + 1] = ThermostatFields[i]
    [] details.kind = "counter" -> cells = CounterEncoded.content

\* Every value that was taken comes back at its place, with all that was in use, and nothing
\* comes back behind the last; a meter of the first version survives the second.
ValuesComeBack ==
  /\ dest.size = Len(dest.content) /\ dest.size <= ValueSize
  /\ \A i \in 1 .. Len(taken) :
       LET item == ValueGet(dest, i - 1) IN
       item = ValueOfDetails(taken[i]) /\ ComesBack(taken[i], DetailsOfValue(item))
  /\ ValueGet(dest, Len(taken)) = NoValue
  /\ \A i \in 1 .. Len(taken) :
       taken[i].kind = "meter" /\ taken[i].version = 1 =>
         ValueOfDetails(V2To1(V1To2(taken[i]))) = ValueOfDetails([taken[i] EXCEPT !.bits = @ \ Balanced])
=============================================================================
