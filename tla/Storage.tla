------------------------------ MODULE Storage ------------------------------
(***************************************************************************)
(* Supla::Storage: the element state section and the way SuplaDevice uses  *)
(* it.  At start the section is found, compared with the elements by a dry *)
(* run of saving, and loaded; later it is written piece by piece while the *)
(* power may fail at any of them and a start may run another firmware.     *)
(*                                                                         *)
(* An address stands for a unit of the medium that is written as a whole.  *)
(* The preamble (0) and the section preamble (1) take one each, an element *)
(* state as many as it has parts.  A datum is kept with its owner, so that *)
(* reading somebody else's bytes shows.                                    *)
(***************************************************************************)
EXTENDS Integers, Sequences

CONSTANTS
  Layouts,         \* firmwares: the parts of the element states, <<element, part>>, in the order
                   \* they are written
  SizeBound,       \* bound of their number
  Values,
  Default,
  Garbled          \* what an element makes of units that are not one whole state of its own

\* Element by element, and part by part.
InOrder(l) ==
  /\ l[1] = <<1, 1>>
  /\ \A i \in 2 .. Len(l) : l[i] \in {<<l[i - 1][1], l[i - 1][2] + 1>>, <<l[i - 1][1] + 1, 1>>}

\* No two firmwares have the same total size: the sizes are all that validation looks at.
ASSUME LayoutsAssumption ==
  /\ SizeBound \in Nat
  /\ \A l \in Layouts :
       /\ l \in Seq((1 .. SizeBound) \X (1 .. SizeBound))
       /\ Len(l) \in 1 .. SizeBound /\ InOrder(l)
  /\ \A l, m \in Layouts : Len(l) = Len(m) => l = m

ASSUME ValuesAssumption == Default \in Values /\ Garbled \notin Values

VARIABLES
  writeThrough,    \* the medium: writeStorage() reaches it at once (FRAM, AVR EEPROM); if not,
                   \* commit() takes it there as a whole (ESP EEPROM emulation)
  pc,              \* "off", or what the firmware does next
  layout,          \* the running firmware
  live,            \* state of its elements
  medium,          \* what a power failure leaves
  view,            \* what readStorage() sees
  elementStateOffset, elementStateSize, currentStateOffset, newSectionSize, sectionsCount,
  done,            \* parts that the save in progress has written
  kept,            \* the last save that was finished, NothingKept if another firmware wrote
  touched          \* elements that have written another state since

registers == <<elementStateOffset, elementStateSize, currentStateOffset, newSectionSize,
               sectionsCount>>
storageVars == <<writeThrough, pc, layout, live, medium, view, registers, done, kept, touched>>

NoLayout == << >>
NothingKept == [layout |-> NoLayout, state |-> << >>]

Blank == [kind |-> "blank"]
Preamble(n) == [kind |-> "preamble", sections |-> n]
SectionPreamble(n) == [kind |-> "section", size |-> n]
Datum(part, v) == [kind |-> "datum", part |-> part, value |-> v]

Addresses == 0 .. 1 + SizeBound
Units == {Blank} \cup {Preamble(n) : n \in {0, 1}} \cup {SectionPreamble(n) : n \in 0 .. SizeBound}
         \cup {Datum(part, v) : part \in (1 .. SizeBound) \X (1 .. SizeBound),
                                v \in Values \cup {Garbled}}

Elements(l) == {l[i][1] : i \in DOMAIN l}

StorageTypeOK ==
  /\ writeThrough \in BOOLEAN
  /\ pc \in {"off", "init", "validate", "load", "run", "write", "finalize", "commit"}
  /\ layout \in Layouts \cup {NoLayout}
  /\ live \in [Elements(layout) -> Values \cup {Garbled}]
  /\ medium \in [Addresses -> Units] /\ view \in [Addresses -> Units]
  /\ elementStateOffset \in {0, 1} /\ elementStateSize \in 0 .. SizeBound
  /\ currentStateOffset \in 0 .. 2 + SizeBound
  /\ newSectionSize \in 0 .. SizeBound /\ sectionsCount \in {0, 1}
  /\ done \in 0 .. Len(layout)
  /\ kept.layout \in Layouts \cup {NoLayout}
  /\ kept.state \in [Elements(kept.layout) -> Values \cup {Garbled}]
  /\ touched \subseteq Elements(kept.layout)

-----------------------------------------------------------------------------
StorageInit ==
  /\ writeThrough \in BOOLEAN
  /\ pc = "off" /\ layout = NoLayout /\ live = << >>
  /\ medium = [a \in Addresses |-> Blank] /\ view = medium
  /\ elementStateOffset = 0 /\ elementStateSize = 0 /\ currentStateOffset = 0
  /\ newSectionSize = 0 /\ sectionsCount = 0
  /\ done = 0 /\ kept = NothingKept /\ touched = {}

\* The power fails, or the device restarts; what was not committed is lost.
PowerOff ==
  /\ pc # "off"
  /\ pc' = "off" /\ layout' = NoLayout /\ live' = << >> /\ view' = medium /\ done' = 0
  /\ elementStateOffset' = 0 /\ elementStateSize' = 0 /\ currentStateOffset' = 0
  /\ newSectionSize' = 0 /\ sectionsCount' = 0
  /\ UNCHANGED <<medium, kept, touched>>

PowerOn(l) ==
  /\ pc = "off"
  /\ pc' = "init" /\ layout' = l /\ live' = [e \in Elements(l) |-> Default]
  /\ UNCHANGED <<medium, view, registers, done, kept, touched>>

\* Wrong variant: a write reaches the medium at once whatever the medium is.
WriteAtOnce(a, unit) ==
  view' = [view EXCEPT ![a] = unit] /\ medium' = view'

\* writeStorage() of one unit.  updateStorage() skips it if the medium has that already.
Write(a, unit) ==
  /\ view' = [view EXCEPT ![a] = unit]
  /\ medium' = IF writeThrough THEN view' ELSE medium

-----------------------------------------------------------------------------
(***************************************************************************)
(* SuplaDeviceClass::begin().                                              *)
(***************************************************************************)
\* Storage::init, first part: no preamble yet.  The write is committed.
InitNew ==
  /\ pc = "init" /\ view[0].kind # "preamble"
  /\ pc' = "validate"
  /\ view' = [view EXCEPT ![0] = Preamble(0)] /\ medium' = view'
  /\ UNCHANGED <<layout, live, registers, done, kept, touched>>

\* Storage::init, second part: read the section preambles.  sectionsCount stays 0.  What is
\* there may be no section preamble yet.
InitRead ==
  /\ pc = "init" /\ view[0].kind = "preamble"
  /\ pc' = "validate"
  /\ IF view[0].sections > 0 /\ view[1].kind = "section"
       THEN elementStateOffset' = 1 /\ elementStateSize' = view[1].size
       ELSE UNCHANGED <<elementStateOffset, elementStateSize>>
  /\ UNCHANGED <<layout, live, medium, view, currentStateOffset, newSectionSize, sectionsCount,
                 done, kept, touched>>

\* The dry run ends well: the section has the size the elements would write.
Validated == elementStateSize = Len(layout)

ValidateState ==
  /\ pc = "validate"
  /\ newSectionSize' = Len(layout)
  /\ IF Validated
       THEN pc' = "load" /\ UNCHANGED <<elementStateOffset, elementStateSize>>
       ELSE pc' = "run" /\ elementStateOffset' = 0 /\ elementStateSize' = 0
  /\ UNCHANGED <<layout, live, medium, view, currentStateOffset, sectionsCount, done, kept,
                 touched>>

\* What element e of firmware l makes of its units.
HasState(store, l, e, v) == \A i \in DOMAIN l : l[i][1] = e => store[1 + i] = Datum(l[i], v)
StateIn(store, l, e) ==
  IF \E v \in Values : HasState(store, l, e, v)
    THEN CHOOSE v \in Values : HasState(store, l, e, v)
    ELSE Garbled
StatesIn(store, l) == [e \in Elements(l) |-> StateIn(store, l, e)]

\* PrepareState() and every element's onLoadState().
LoadState ==
  /\ pc = "load"
  /\ pc' = "run"
  /\ live' = StatesIn(view, layout)
  /\ newSectionSize' = 0
  /\ currentStateOffset' = elementStateOffset + 1 + Len(layout)
  /\ UNCHANGED <<layout, medium, view, elementStateOffset, elementStateSize, sectionsCount,
                 done, kept, touched>>

-----------------------------------------------------------------------------
(***************************************************************************)
(* SuplaDeviceClass::saveStateToStorage().                                 *)
(***************************************************************************)
ChangeState(e, v) ==
  /\ pc = "run" /\ live[e] # v
  /\ live' = [live EXCEPT ![e] = v]
  /\ UNCHANGED <<pc, layout, medium, view, registers, done, kept, touched>>

\* mutant: the section is made invalid for the time of the save.
InvalidateSection ==
  /\ newSectionSize' = 0 /\ currentStateOffset' = elementStateOffset + 1
  /\ IF elementStateOffset = 0 THEN UNCHANGED <<view, medium>> ELSE Write(1, SectionPreamble(0))

PrepareState ==
  /\ newSectionSize' = 0 /\ currentStateOffset' = elementStateOffset + 1
  /\ UNCHANGED <<view, medium>>

BeginSave ==
  /\ pc = "run"
  /\ pc' = "write"
  /\ PrepareState
  /\ done' = 0
  /\ kept' = IF kept.layout = layout THEN kept ELSE NothingKept
  /\ touched' = IF kept.layout = layout THEN touched ELSE {}
  /\ UNCHANGED <<layout, live, elementStateOffset, elementStateSize, sectionsCount>>

\* writeState() with elementStateOffset = 0: place the section and count it in the preamble.
PlaceSection ==
  /\ pc = "write" /\ elementStateOffset = 0
  /\ elementStateOffset' = 1 /\ currentStateOffset' = 2
  /\ sectionsCount' = sectionsCount + 1
  /\ Write(0, Preamble(sectionsCount + 1))
  /\ UNCHANGED <<pc, layout, live, elementStateSize, newSectionSize, done, kept, touched>>

\* writeState() of the rest of element e would leave the section.  With a validated section no
\* save does; if it did, the section and the rest would be given up.
Outside(e) ==
  /\ elementStateSize > 0
  /\ \E n \in DOMAIN layout : layout[n][1] = e
       /\ elementStateOffset + 1 + elementStateSize < currentStateOffset + n - done

LastPart(e) ==
  CHOOSE n \in DOMAIN layout :
    layout[n][1] = e /\ \A i \in DOMAIN layout : layout[i][1] = e => i <= n

\* writeState(): the next part of an element state.
WriteState ==
  /\ pc = "write" /\ elementStateOffset # 0
  /\ LET part == layout[done + 1]
         e == part[1]
         last == LastPart(e)
     IN  IF Outside(e)
           THEN /\ elementStateSize' = 0 /\ elementStateOffset' = 0
                /\ newSectionSize' = newSectionSize + last - done
                /\ done' = last
                /\ UNCHANGED <<view, medium, currentStateOffset, touched>>
           ELSE /\ Write(currentStateOffset, Datum(part, live[e]))
                /\ currentStateOffset' = currentStateOffset + 1
                /\ newSectionSize' = newSectionSize + 1
                /\ done' = done + 1
                /\ touched' = IF kept.layout = layout /\ live[e] # kept.state[e]
                                THEN touched \cup {e} ELSE touched
                /\ UNCHANGED <<elementStateOffset, elementStateSize>>
  /\ pc' = IF done' = Len(layout) THEN "finalize" ELSE "write"
  /\ UNCHANGED <<layout, live, sectionsCount, kept>>

\* finalizeSaveState() up to commit()
FinalizeSaveState ==
  /\ pc = "finalize"
  /\ pc' = "commit"
  /\ Write(elementStateOffset, SectionPreamble(newSectionSize))
  /\ UNCHANGED <<layout, live, registers, done, kept, touched>>

Commit ==
  /\ pc = "commit"
  /\ pc' = "run"
  /\ medium' = view
  /\ kept' = [layout |-> layout, state |-> live] /\ touched' = {}
  /\ UNCHANGED <<layout, live, view, registers, done>>

StorageNext ==
  /\ UNCHANGED writeThrough
  /\ \/ PowerOff
     \/ \E l \in Layouts : PowerOn(l)
     \/ InitNew \/ InitRead \/ ValidateState \/ LoadState
     \/ \E e \in DOMAIN live, v \in Values : ChangeState(e, v)
     \/ BeginSave \/ PlaceSection \/ WriteState \/ FinalizeSaveState \/ Commit

StorageSpec == StorageInit /\ [][StorageNext]_storageVars

-----------------------------------------------------------------------------
\* Whatever saves were interrupted, the state this firmware saved last is found valid, and an
\* element that has not written another state since comes back with it.
UnchangedSurvives ==
  [][ kept.layout = layout =>
        /\ ValidateState => pc' = "load"
        /\ LoadState => \A e \in Elements(layout) \ touched : live'[e] = kept.state[e] ]_storageVars

(***************************************************************************)
(* Refinement.  The store has what the next start would load.              *)
(***************************************************************************)
OnMedium ==
  LET saved == {l \in Layouts : medium[0] = Preamble(1) /\ medium[1] = SectionPreamble(Len(l))}
  IN  IF saved = {} THEN NothingKept
      ELSE LET l == CHOOSE l \in saved : TRUE
           IN  [layout |-> l, state |-> StatesIn(medium, l)]

\* Only a medium that commits as a whole keeps the promise; on the other one nothing is shown.
Running == pc \in {"run", "write", "finalize", "commit"} /\ ~writeThrough

Store == INSTANCE StateStore WITH
  layout <- IF Running THEN layout ELSE NoLayout,
  live <- IF Running THEN live ELSE << >>,
  disk <- IF writeThrough THEN NothingKept ELSE OnMedium

\* On a medium that commits as a whole, the elements come back as StateStore promises.
Refines == Store!Spec
=============================================================================
