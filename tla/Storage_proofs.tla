--------------------------- MODULE Storage_proofs ---------------------------
(***************************************************************************)
(* Proofs about Storage, for any firmwares, states and media: what was     *)
(* saved last is found and loaded whatever saves were interrupted, and on  *)
(* a medium that commits as a whole Storage implements StateStore.  Then   *)
(* about the identity that a Linux device keeps in its file, its LED, its  *)
(* clocks and its log of the last states, and at the end about all the     *)
(* services of a device together.                                          *)
(***************************************************************************)
EXTENDS MCServices, Network_proofs, Settings_proofs, SequenceTheorems, TLAPS

-----------------------------------------------------------------------------
(***************************************************************************)
(* The inductive invariants.                                               *)
(***************************************************************************)
Saving == pc \in {"write", "finalize", "commit"}

\* Only a save in progress on a medium that commits as a whole makes the two differ.
MediaInv == view = medium \/ (~writeThrough /\ Saving)

\* The section is placed where its preamble is counted, and a save has come as far as it counts.
SectionInv ==
  /\ pc = "off" <=> layout = NoLayout
  /\ pc \in {"off", "init"} => elementStateOffset = 0 /\ done = 0
  /\ pc \in {"off", "init", "validate"} => sectionsCount = 0
  /\ sectionsCount = 1 => elementStateOffset = 1
  /\ elementStateOffset = 0 => elementStateSize = 0
  /\ elementStateOffset = 1 => view[0] = Preamble(1)
  /\ pc = "load" => elementStateSize = Len(layout)
  /\ pc = "run" \/ Saving => elementStateSize \in {0, Len(layout)}
  /\ Saving => /\ newSectionSize = done
               /\ IF elementStateOffset = 0 THEN done = 0 ELSE currentStateOffset = 2 + done
  /\ pc = "write" => done < Len(layout)
  /\ pc \in {"finalize", "commit"} => done = Len(layout)

\* What the start has read of the section is what there is.
ReadInv ==
  pc \in {"validate", "load"} =>
    IF view[0] = Preamble(1) /\ view[1].kind = "section"
      THEN elementStateOffset = 1 /\ elementStateSize = view[1].size
      ELSE elementStateSize = 0

\* What was saved last is there, but for what was written over it since.
HoldsKept(image) ==
  /\ image[0] = Preamble(1) /\ image[1] = SectionPreamble(Len(kept.layout))
  /\ \A i \in DOMAIN kept.layout :
       \/ kept.layout[i][1] \in touched
       \/ image[1 + i] = Datum(kept.layout[i], kept.state[kept.layout[i][1]])

KeptInv ==
  /\ Saving => kept.layout \in {layout, NoLayout}
  /\ kept.layout # NoLayout => HoldsKept(medium) /\ HoldsKept(view)

\* What a save has written so far is what the elements are.
WrittenInv ==
  /\ Saving => \A i \in 1 .. done : view[1 + i] = Datum(layout[i], live[layout[i][1]])
  /\ pc = "commit" => view[1] = SectionPreamble(Len(layout))

\* On a medium that commits as a whole, what looks like a section of some firmware holds states
\* of its elements, and so what is loaded, changed and saved are states.
SavedOn(image, l) == image[0] = Preamble(1) /\ image[1] = SectionPreamble(Len(l))
WholeInv ==
  ~writeThrough =>
    /\ pc \in {"init", "validate", "load"} => live = [e \in Elements(layout) |-> Default]
    /\ pc = "run" \/ Saving => live \in [Elements(layout) -> Values]
    /\ \A l \in Layouts : SavedOn(medium, l) => StatesIn(medium, l) \in [Elements(l) -> Values]

-----------------------------------------------------------------------------
(***************************************************************************)
(* Layouts, units and writes.                                              *)
(***************************************************************************)
Firmware(l) ==
  /\ l \in Seq((1 .. SizeBound) \X (1 .. SizeBound))
  /\ Len(l) \in 1 .. SizeBound /\ DOMAIN l = 1 .. Len(l)
  /\ \A i \in 1 .. Len(l) :
       /\ l[i] \in (1 .. SizeBound) \X (1 .. SizeBound)
       /\ l[i][1] \in Elements(l) /\ 1 + i \in Addresses
  /\ \A e \in Elements(l) : \E i \in 1 .. Len(l) : l[i][1] = e

\* What the proofs need of the assumptions: a firmware has parts, no more than fit.
LEMMA LayoutsLemma ==
  /\ SizeBound \in Nat
  /\ \A l \in Layouts : Firmware(l) /\ l # NoLayout
  /\ \A l, m \in Layouts : Len(l) = Len(m) => l = m
  /\ Elements(NoLayout) = {} /\ Len(NoLayout) = 0
<1>1. SizeBound \in Nat /\ \A l, m \in Layouts : Len(l) = Len(m) => l = m
  BY LayoutsAssumption
<1>2. ASSUME NEW l \in Layouts PROVE Firmware(l) /\ l # NoLayout
  <2>1. l \in Seq((1 .. SizeBound) \X (1 .. SizeBound)) /\ Len(l) \in 1 .. SizeBound
    BY LayoutsAssumption
  <2>2. DOMAIN l = 1 .. Len(l)
    BY <2>1
  <2>3. \A i \in 1 .. Len(l) : l[i] \in (1 .. SizeBound) \X (1 .. SizeBound)
    BY <2>1, <2>2
  <2>4. \A i \in 1 .. Len(l) : l[i][1] \in Elements(l)
    BY <2>2 DEF Elements
  <2>5. \A e \in Elements(l) : \E i \in 1 .. Len(l) : l[i][1] = e
    BY <2>2 DEF Elements
  <2>6. \A i \in 1 .. Len(l) : 1 + i \in Addresses
    BY <1>1, <2>1 DEF Addresses
  <2>7. l # NoLayout
    BY <2>1 DEF NoLayout
  <2> QED
    BY <2>1, <2>2, <2>3, <2>4, <2>5, <2>6, <2>7 DEF Firmware
<1>3. Elements(NoLayout) = {} /\ Len(NoLayout) = 0
  BY DEF Elements, NoLayout
<1> QED
  BY <1>1, <1>2, <1>3

\* Units of different kinds differ, and tell what is in them.
LEMMA UnitsLemma ==
  /\ 0 \in Addresses /\ 1 \in Addresses
  /\ Blank \in Units /\ Preamble(0) \in Units /\ Preamble(1) \in Units
  /\ \A n \in 0 .. SizeBound : SectionPreamble(n) \in Units
  /\ \A part \in (1 .. SizeBound) \X (1 .. SizeBound), v \in Values \cup {Garbled} :
       Datum(part, v) \in Units
  /\ \A n : Preamble(n).kind = "preamble" /\ Preamble(n).sections = n
  /\ \A n : SectionPreamble(n).kind = "section" /\ SectionPreamble(n).size = n
  /\ \A part, v : Datum(part, v).kind = "datum" /\ Datum(part, v).value = v
  /\ \A u \in Units : u.kind = "preamble" => u = Preamble(0) \/ u = Preamble(1)
  /\ \A u \in Units : u.kind = "section" => u.size \in 0 .. SizeBound /\ u = SectionPreamble(u.size)
<1> USE LayoutsLemma
<1>1. 0 \in Addresses /\ 1 \in Addresses
  BY DEF Addresses
<1>2. /\ \A n : Preamble(n).kind = "preamble" /\ Preamble(n).sections = n
      /\ \A n : SectionPreamble(n).kind = "section" /\ SectionPreamble(n).size = n
      /\ \A part, v : Datum(part, v).kind = "datum" /\ Datum(part, v).value = v
  BY DEF Preamble, SectionPreamble, Datum
<1>3. Blank \in Units /\ Preamble(0) \in Units /\ Preamble(1) \in Units
  BY DEF Units
<1>4. \A n \in 0 .. SizeBound : SectionPreamble(n) \in Units
  BY DEF Units
<1>5. \A part \in (1 .. SizeBound) \X (1 .. SizeBound), v \in Values \cup {Garbled} :
        Datum(part, v) \in Units
  BY DEF Units
<1>6. ASSUME NEW u \in Units
      PROVE  \/ u = Blank \/ u = Preamble(0) \/ u = Preamble(1)
             \/ \E n \in 0 .. SizeBound : u = SectionPreamble(n)
             \/ \E part, v : u = Datum(part, v)
  BY DEF Units
<1>7. Blank.kind = "blank"
  BY DEF Blank
<1>8. \A u \in Units : u.kind = "preamble" => u = Preamble(0) \/ u = Preamble(1)
  BY <1>2, <1>6, <1>7
<1>9. \A u \in Units : u.kind = "section" => u.size \in 0 .. SizeBound /\ u = SectionPreamble(u.size)
  BY <1>2, <1>6, <1>7
<1> QED
  BY <1>1, <1>2, <1>3, <1>4, <1>5, <1>8, <1>9

\* A write changes one unit of what is read, and reaches such a medium at once.
Puts(a, unit) ==
  /\ view' \in [Addresses -> Units] /\ view'[a] = unit
  /\ \A b \in Addresses : b # a => view'[b] = view[b]
  /\ medium' = IF writeThrough THEN view' ELSE medium

LEMMA WriteLemma ==
  ASSUME StorageTypeOK, NEW a \in Addresses, NEW unit \in Units, Write(a, unit)
  PROVE  Puts(a, unit)
BY DEF StorageTypeOK, Write, Puts

\* No save leaves a section that was found to have the right size.
WritesPart ==
  /\ pc = "write" /\ elementStateOffset = 1 /\ done \in Nat /\ done + 1 \in 1 .. Len(layout)
  /\ layout \in Layouts
  /\ LET part == layout[done + 1]
         e == part[1]
     IN  /\ Puts(2 + done, Datum(part, live[e]))
         /\ touched' = IF kept.layout = layout /\ live[e] # kept.state[e]
                         THEN touched \cup {e} ELSE touched
  /\ currentStateOffset' = 2 + done'
  /\ newSectionSize' = done' /\ done' = done + 1
  /\ pc' = IF done' = Len(layout) THEN "finalize" ELSE "write"
  /\ UNCHANGED <<layout, live, elementStateOffset, elementStateSize, sectionsCount, kept>>

LEMMA WriteStateLemma ==
  ASSUME StorageTypeOK, SectionInv, WriteState
  PROVE  WritesPart
<1> USE LayoutsLemma
<1>1. pc = "write" /\ elementStateOffset = 1 /\ layout \in Layouts
  BY DEF WriteState, StorageTypeOK, SectionInv
<1>2. Firmware(layout) /\ done \in Nat /\ done + 1 \in 1 .. Len(layout)
  <2>1. Firmware(layout) /\ Len(layout) \in Nat
    BY <1>1 DEF Firmware
  <2>2. done \in 0 .. Len(layout)
    BY DEF StorageTypeOK
  <2>3. done < Len(layout)
    BY <1>1 DEF SectionInv
  <2> QED
    BY <2>1, <2>2, <2>3
<1>3. newSectionSize = done /\ currentStateOffset = 2 + done /\ elementStateSize \in {0, Len(layout)}
  BY <1>1 DEF SectionInv, Saving
<1> DEFINE part == layout[done + 1]
           e == part[1]
<1>4. ~Outside(e)
  <2>1. SUFFICES ASSUME elementStateSize > 0, NEW n \in DOMAIN layout,
                        elementStateOffset + 1 + elementStateSize < currentStateOffset + n - done
                 PROVE  FALSE
    BY DEF Outside
  <2>2. n \in 1 .. Len(layout) /\ Len(layout) \in Nat
    BY <1>2 DEF Firmware
  <2> QED
    BY <1>1, <1>2, <1>3, <2>1, <2>2
<1>5. /\ Write(currentStateOffset, Datum(part, live[e]))
      /\ currentStateOffset' = currentStateOffset + 1
      /\ newSectionSize' = newSectionSize + 1
      /\ done' = done + 1
      /\ touched' = IF kept.layout = layout /\ live[e] # kept.state[e]
                      THEN touched \cup {e} ELSE touched
      /\ UNCHANGED <<elementStateOffset, elementStateSize>>
      /\ pc' = IF done' = Len(layout) THEN "finalize" ELSE "write"
      /\ UNCHANGED <<layout, live, sectionsCount, kept>>
  BY <1>4 DEF WriteState
<1>6. 2 + done \in Addresses /\ part \in (1 .. SizeBound) \X (1 .. SizeBound) /\ e \in Elements(layout)
  <2>1. 1 + (done + 1) \in Addresses /\ 1 + (done + 1) = 2 + done
    BY <1>2 DEF Firmware
  <2> QED
    BY <1>2, <2>1 DEF Firmware
<1>7. live[e] \in Values \cup {Garbled}
  BY <1>6 DEF StorageTypeOK
<1>8. Puts(2 + done, Datum(part, live[e]))
  BY <1>3, <1>5, <1>6, <1>7, UnitsLemma, WriteLemma
<1> QED
  BY <1>1, <1>2, <1>3, <1>5, <1>8 DEF WritesPart

-----------------------------------------------------------------------------
(***************************************************************************)
(* Types, the section and what the start reads of it.                      *)
(***************************************************************************)

\* Every step keeps the types.
LEMMA TypeStep ==
  ASSUME StorageTypeOK, SectionInv, [StorageNext]_storageVars
  PROVE  StorageTypeOK'
<1> USE LayoutsLemma, UnitsLemma
<1>0. writeThrough' \in BOOLEAN
  BY DEF StorageTypeOK, StorageNext, storageVars
<1>1. CASE PowerOff
  BY <1>0, <1>1 DEF StorageTypeOK, PowerOff
<1>2. ASSUME NEW l \in Layouts, PowerOn(l) PROVE StorageTypeOK'
  <2>1. live' \in [Elements(layout') -> Values \cup {Garbled}] /\ layout' \in Layouts
    BY <1>2, ValuesAssumption DEF PowerOn
  <2>2. done' \in 0 .. Len(layout')
    <3>1. done = 0 \/ pc # "off"
      BY <1>2 DEF StorageTypeOK, SectionInv, PowerOn
    <3> QED
      BY <1>2, <2>1, <3>1 DEF PowerOn, Firmware
  <2> QED
    BY <1>0, <1>2, <2>1, <2>2 DEF StorageTypeOK, PowerOn, registers
<1>3. CASE InitNew
  BY <1>0, <1>3 DEF StorageTypeOK, InitNew, registers
<1>4. CASE InitRead
  BY <1>0, <1>4 DEF StorageTypeOK, InitRead, registers
<1>5. CASE ValidateState
  <2>1. layout \in Layouts
    BY <1>5 DEF StorageTypeOK, SectionInv, ValidateState
  <2>2. Len(layout) \in 0 .. SizeBound
    BY <2>1 DEF Firmware
  <2>3. elementStateOffset' \in {0, 1} /\ elementStateSize' \in 0 .. SizeBound
    BY <1>5 DEF StorageTypeOK, ValidateState
  <2> QED
    BY <1>0, <1>5, <2>2, <2>3 DEF StorageTypeOK, ValidateState, registers
<1>6. CASE LoadState
  <2>1. live' \in [Elements(layout) -> Values \cup {Garbled}]
    <3>1. \A e : StateIn(view, layout, e) \in Values \cup {Garbled}
      BY DEF StateIn
    <3> QED
      BY <1>6, <3>1 DEF LoadState, StatesIn
  <2>2. layout \in Layouts
    BY <1>6 DEF StorageTypeOK, SectionInv, LoadState
  <2>3. Len(layout) \in 0 .. SizeBound
    BY <2>2 DEF Firmware
  <2>4. currentStateOffset' \in 0 .. 2 + SizeBound
    BY <1>6, <2>3, SMTT(20) DEF StorageTypeOK, LoadState
  <2> QED
    BY <1>0, <1>6, <2>1, <2>4 DEF StorageTypeOK, LoadState, registers
<1>7. ASSUME NEW e \in DOMAIN live, NEW v \in Values, ChangeState(e, v) PROVE StorageTypeOK'
  BY <1>0, <1>7 DEF StorageTypeOK, ChangeState, registers
<1>8. CASE BeginSave
  BY <1>0, <1>8 DEF StorageTypeOK, BeginSave, PrepareState, registers, NothingKept
<1>9. CASE PlaceSection
  <2>1. sectionsCount = 0
    BY <1>9 DEF StorageTypeOK, SectionInv, PlaceSection
  <2>2. Puts(0, Preamble(1))
    BY <1>9, <2>1, WriteLemma DEF PlaceSection
  <2>3. view' \in [Addresses -> Units] /\ medium' \in [Addresses -> Units]
    BY <2>2 DEF Puts, StorageTypeOK
  <2>4. currentStateOffset' \in 0 .. 2 + SizeBound /\ sectionsCount' = 1
    BY <1>9, <2>1 DEF PlaceSection
  <2> QED
    BY <1>0, <1>9, <2>3, <2>4 DEF StorageTypeOK, PlaceSection, registers
<1>10. CASE WriteState
  <2>1. WritesPart
    BY <1>10, WriteStateLemma
  <2>2. view' \in [Addresses -> Units] /\ medium' \in [Addresses -> Units]
    BY <2>1 DEF WritesPart, Puts, StorageTypeOK
  <2>3. Firmware(layout) /\ done' \in 1 .. Len(layout)
    BY <2>1 DEF WritesPart
  <2>4. /\ newSectionSize' \in 0 .. SizeBound /\ done' \in 0 .. Len(layout)
        /\ currentStateOffset' \in 0 .. 2 + SizeBound
    <3>1. newSectionSize' = done' /\ currentStateOffset' = 2 + done'
      BY <2>1 DEF WritesPart
    <3>2. Len(layout) \in 1 .. SizeBound
      BY <2>3 DEF Firmware
    <3>3. PICK d \in 1 .. Len(layout) : done' = d
      BY <2>3
    <3> QED
      BY <3>1, <3>2, <3>3
  <2>5. touched' \subseteq Elements(kept.layout)
    <3>1. done + 1 \in 1 .. Len(layout)
      BY <2>1 DEF WritesPart
    <3>2. layout[done + 1][1] \in Elements(layout)
      BY <2>3, <3>1 DEF Firmware
    <3> QED
      BY <2>1, <3>2 DEF WritesPart, StorageTypeOK
  <2> QED
    BY <1>0, <2>1, <2>2, <2>4, <2>5 DEF StorageTypeOK, WritesPart
<1>11. CASE FinalizeSaveState
  <2>1. Puts(elementStateOffset, SectionPreamble(newSectionSize))
    BY <1>11, WriteLemma DEF FinalizeSaveState, StorageTypeOK
  <2>2. view' \in [Addresses -> Units] /\ medium' \in [Addresses -> Units]
    BY <2>1 DEF Puts, StorageTypeOK
  <2> QED
    BY <1>0, <1>11, <2>2 DEF StorageTypeOK, FinalizeSaveState, registers
<1>12. CASE Commit
  BY <1>0, <1>12 DEF StorageTypeOK, Commit, registers
<1>13. CASE UNCHANGED storageVars
  BY <1>13 DEF StorageTypeOK, storageVars, registers
<1> QED
  BY <1>1, <1>2, <1>3, <1>4, <1>5, <1>6, <1>7, <1>8, <1>9, <1>10, <1>11, <1>12, <1>13
  DEF StorageNext

\* Every step keeps the section in its place.
LEMMA SectionStep ==
  ASSUME StorageTypeOK, SectionInv, ReadInv, [StorageNext]_storageVars
  PROVE  SectionInv'
<1> USE LayoutsLemma, UnitsLemma DEF Saving
<1>1. CASE PowerOff
  BY <1>1 DEF SectionInv, PowerOff
<1>2. ASSUME NEW l \in Layouts, PowerOn(l) PROVE SectionInv'
  BY <1>2 DEF SectionInv, PowerOn, registers
<1>3. CASE InitNew
  BY <1>3 DEF SectionInv, InitNew, registers
<1>4. CASE InitRead
  BY <1>4 DEF StorageTypeOK, SectionInv, InitRead, registers
<1>5. CASE ValidateState
  <2>1. layout \in Layouts
    BY <1>5 DEF StorageTypeOK, SectionInv, ValidateState
  <2>2. Len(layout) > 0
    BY <2>1 DEF Firmware
  <2>3. pc' = "load" => /\ elementStateOffset = 1 /\ elementStateOffset' = 1
                            /\ elementStateSize' = Len(layout)
    BY <1>5, <2>2 DEF StorageTypeOK, SectionInv, ValidateState, Validated
  <2>4. pc' # "load" => pc' = "run" /\ elementStateOffset' = 0 /\ elementStateSize' = 0
    BY <1>5 DEF ValidateState
  <2>5. UNCHANGED <<layout, view, sectionsCount>>
    BY <1>5 DEF ValidateState
  <2>6. sectionsCount = 0
    BY <1>5 DEF SectionInv, StorageTypeOK, ValidateState
  <2> QED
    BY <2>1, <2>3, <2>4, <2>5, <2>6 DEF SectionInv
<1>6. CASE LoadState
  BY <1>6 DEF SectionInv, LoadState, registers
<1>7. ASSUME NEW e \in DOMAIN live, NEW v \in Values, ChangeState(e, v) PROVE SectionInv'
  BY <1>7 DEF SectionInv, ChangeState, registers
<1>8. CASE BeginSave
  BY <1>8 DEF StorageTypeOK, SectionInv, BeginSave, PrepareState, registers
<1>9. CASE PlaceSection
  <2>1. sectionsCount = 0 /\ done = 0 /\ elementStateSize = 0
    BY <1>9 DEF StorageTypeOK, SectionInv, PlaceSection
  <2>2. Puts(0, Preamble(1))
    BY <1>9, <2>1, WriteLemma DEF PlaceSection
  <2> QED
    BY <1>9, <2>1, <2>2 DEF SectionInv, PlaceSection, Puts
<1>10. CASE WriteState
  BY <1>10, WriteStateLemma DEF StorageTypeOK, SectionInv, WritesPart, Puts
<1>11. CASE FinalizeSaveState
  <2>1. layout \in Layouts
    BY <1>11 DEF StorageTypeOK, SectionInv, FinalizeSaveState
  <2>2. elementStateOffset = 1
    BY <1>11, <2>1 DEF StorageTypeOK, SectionInv, FinalizeSaveState, Firmware
  <2>3. Puts(1, SectionPreamble(newSectionSize))
    BY <1>11, <2>2, WriteLemma DEF FinalizeSaveState, StorageTypeOK
  <2>4. view'[0] = view[0]
    BY <2>3 DEF Puts
  <2> QED
    BY <1>11, <2>2, <2>4 DEF SectionInv, FinalizeSaveState, registers
<1>12. CASE Commit
  BY <1>12 DEF SectionInv, Commit, registers
<1>13. CASE UNCHANGED storageVars
  BY <1>13 DEF SectionInv, storageVars, registers
<1> QED
  BY <1>1, <1>2, <1>3, <1>4, <1>5, <1>6, <1>7, <1>8, <1>9, <1>10, <1>11, <1>12, <1>13
  DEF StorageNext

\* Every step keeps what is read, and where the media differ.
LEMMA ReadStep ==
  ASSUME StorageTypeOK, SectionInv, ReadInv, MediaInv, [StorageNext]_storageVars
  PROVE  ReadInv' /\ MediaInv'
<1> USE LayoutsLemma, UnitsLemma DEF Saving
<1>0. UNCHANGED writeThrough
  BY DEF StorageNext, storageVars
<1>1. CASE PowerOff
  BY <1>1 DEF ReadInv, MediaInv, PowerOff
<1>2. ASSUME NEW l \in Layouts, PowerOn(l) PROVE ReadInv' /\ MediaInv'
  BY <1>2 DEF ReadInv, MediaInv, PowerOn, registers
<1>3. CASE InitNew
  BY <1>3 DEF StorageTypeOK, SectionInv, ReadInv, MediaInv, InitNew, registers
<1>4. CASE InitRead
  BY <1>4 DEF StorageTypeOK, SectionInv, ReadInv, MediaInv, InitRead, registers
<1>5. CASE ValidateState
  BY <1>5 DEF ReadInv, MediaInv, ValidateState, Validated, registers
<1>6. CASE LoadState
  BY <1>6 DEF ReadInv, MediaInv, LoadState, registers
<1>7. ASSUME NEW e \in DOMAIN live, NEW v \in Values, ChangeState(e, v) PROVE ReadInv' /\ MediaInv'
  BY <1>7 DEF ReadInv, MediaInv, ChangeState, registers
<1>8. CASE BeginSave
  BY <1>8 DEF ReadInv, MediaInv, BeginSave, PrepareState, registers
<1>9. CASE PlaceSection
  BY <1>0, <1>9 DEF ReadInv, MediaInv, PlaceSection, Write, registers
<1>10. CASE WriteState
  BY <1>0, <1>10, WriteStateLemma DEF ReadInv, MediaInv, WritesPart, Puts
<1>11. CASE FinalizeSaveState
  BY <1>0, <1>11 DEF ReadInv, MediaInv, FinalizeSaveState, Write, registers
<1>12. CASE Commit
  BY <1>12 DEF ReadInv, MediaInv, Commit, registers
<1>13. CASE UNCHANGED storageVars
  BY <1>13 DEF ReadInv, MediaInv, storageVars, registers
<1> QED
  BY <1>1, <1>2, <1>3, <1>4, <1>5, <1>6, <1>7, <1>8, <1>9, <1>10, <1>11, <1>12, <1>13
  DEF StorageNext

-----------------------------------------------------------------------------
(***************************************************************************)
(* What was saved last.                                                    *)
(***************************************************************************)

\* A write of a part puts the state of its element there, and nothing else.
LEMMA PartLemma ==
  ASSUME StorageTypeOK, SectionInv, WritesPart
  PROVE  /\ view'[0] = view[0] /\ view'[1] = view[1]
         /\ \A i \in 1 .. Len(layout) :
              view'[1 + i] = IF i = done + 1 THEN Datum(layout[i], live[layout[i][1]])
                             ELSE view[1 + i]
<1> USE LayoutsLemma, UnitsLemma
<1>1. done \in Nat /\ Firmware(layout) /\ Puts(2 + done, Datum(layout[done + 1], live[layout[done + 1][1]]))
  BY DEF WritesPart
<1>2. 0 # 2 + done /\ 1 # 2 + done
  BY <1>1
<1>3. ASSUME NEW i \in 1 .. Len(layout), i # done + 1 PROVE view'[1 + i] = view[1 + i]
  <2>1. 1 + i \in Addresses /\ 1 + i # 2 + done
    BY <1>1, <1>3 DEF Firmware
  <2> QED
    BY <1>1, <2>1 DEF Puts
<1>4. 1 + (done + 1) = 2 + done
  BY <1>1
<1> QED
  BY <1>1, <1>2, <1>3, <1>4 DEF Puts

\* Every step keeps what a save has written.
LEMMA WrittenStep ==
  ASSUME StorageTypeOK, SectionInv, WrittenInv, [StorageNext]_storageVars
  PROVE  WrittenInv'
<1> USE LayoutsLemma, UnitsLemma DEF Saving
<1>1. CASE PowerOff
  BY <1>1 DEF WrittenInv, PowerOff
<1>2. ASSUME NEW l \in Layouts, PowerOn(l) PROVE WrittenInv'
  BY <1>2 DEF WrittenInv, PowerOn, registers
<1>3. CASE InitNew
  BY <1>3 DEF WrittenInv, InitNew, registers
<1>4. CASE InitRead
  BY <1>4 DEF WrittenInv, InitRead, registers
<1>5. CASE ValidateState
  BY <1>5 DEF WrittenInv, ValidateState, Validated, registers
<1>6. CASE LoadState
  BY <1>6 DEF WrittenInv, LoadState, registers
<1>7. ASSUME NEW e \in DOMAIN live, NEW v \in Values, ChangeState(e, v) PROVE WrittenInv'
  BY <1>7 DEF WrittenInv, ChangeState, registers
<1>8. CASE BeginSave
  BY <1>8 DEF WrittenInv, BeginSave, PrepareState, registers
<1>9. CASE PlaceSection
  <2>1. pc' = "write" /\ done' = 0
    BY <1>9 DEF SectionInv, PlaceSection
  <2> QED
    BY <2>1 DEF WrittenInv
<1>10. CASE WriteState
  <2>1. WritesPart /\ pc = "write"
    BY <1>10, WriteStateLemma DEF WriteState
  <2>2. UNCHANGED <<layout, live>> /\ done' = done + 1 /\ done \in Nat /\ done + 1 \in 1 .. Len(layout)
        /\ pc' # "commit" /\ Len(layout) \in Nat
    BY <2>1 DEF WritesPart, Firmware
  <2>3. ASSUME NEW i \in 1 .. done' PROVE view'[1 + i] = Datum(layout[i], live[layout[i][1]])
    <3>1. i \in 1 .. Len(layout)
      BY <2>2
    <3>2. CASE i = done + 1
      BY <2>1, <3>1, <3>2, PartLemma
    <3>3. CASE i # done + 1
      <4>1. i \in 1 .. done
        BY <2>2, <3>3
      <4> QED
        BY <2>1, <3>1, <3>3, <4>1, PartLemma DEF WrittenInv
    <3> QED
      BY <3>2, <3>3
  <2> QED
    BY <2>2, <2>3 DEF WrittenInv
<1>11. CASE FinalizeSaveState
  <2>1. layout \in Layouts /\ Saving
    BY <1>11 DEF StorageTypeOK, SectionInv, FinalizeSaveState
  <2>2. elementStateOffset = 1 /\ newSectionSize = Len(layout) /\ done = Len(layout)
    BY <1>11, <2>1 DEF StorageTypeOK, SectionInv, FinalizeSaveState, Firmware
  <2>3. Puts(1, SectionPreamble(Len(layout)))
    BY <1>11, <2>2, WriteLemma DEF FinalizeSaveState, StorageTypeOK
  <2>4. ASSUME NEW i \in 1 .. done PROVE view'[1 + i] = view[1 + i]
    <3>1. 1 + i \in Addresses /\ 1 + i # 1
      BY <2>1, <2>2 DEF Firmware
    <3> QED
      BY <2>3, <3>1 DEF Puts
  <2>5. UNCHANGED <<layout, live, done>>
    BY <1>11 DEF FinalizeSaveState
  <2>6. view'[1] = SectionPreamble(Len(layout))
    BY <2>3 DEF Puts
  <2> QED
    BY <2>1, <2>4, <2>5, <2>6 DEF WrittenInv
<1>12. CASE Commit
  BY <1>12 DEF WrittenInv, Commit, registers
<1>13. CASE UNCHANGED storageVars
  BY <1>13 DEF WrittenInv, storageVars, registers
<1> QED
  BY <1>1, <1>2, <1>3, <1>4, <1>5, <1>6, <1>7, <1>8, <1>9, <1>10, <1>11, <1>12, <1>13
  DEF StorageNext

\* When a save is done, what is on the medium is what the elements are.
LEMMA CommitLemma ==
  ASSUME StorageTypeOK, SectionInv, WrittenInv, pc = "commit"
  PROVE  /\ layout \in Layouts /\ elementStateOffset = 1
         /\ view[0] = Preamble(1) /\ view[1] = SectionPreamble(Len(layout))
         /\ \A i \in 1 .. Len(layout) : view[1 + i] = Datum(layout[i], live[layout[i][1]])
<1>1. layout \in Layouts /\ done = Len(layout)
  BY DEF StorageTypeOK, SectionInv
<1>2. Len(layout) > 0
  BY <1>1, LayoutsLemma DEF Firmware
<1>3. elementStateOffset = 1
  BY <1>1, <1>2 DEF SectionInv, StorageTypeOK, Saving
<1> QED
  BY <1>1, <1>3 DEF SectionInv, WrittenInv, Saving

\* What was saved last stays where those units stay.
LEMMA HoldsLemma ==
  ASSUME StorageTypeOK, kept.layout # NoLayout, HoldsKept(view), UNCHANGED kept,
         touched \subseteq touched',
         view'[0] = view[0], view'[1] = view[1],
         \A i \in 1 .. Len(kept.layout) :
           \/ view'[1 + i] = view[1 + i] \/ kept.layout[i][1] \in touched'
           \/ view'[1 + i] = Datum(kept.layout[i], kept.state[kept.layout[i][1]])
  PROVE  HoldsKept(view)'
<1>1. DOMAIN kept.layout = 1 .. Len(kept.layout)
  BY LayoutsLemma DEF StorageTypeOK, Firmware
<1> QED
  BY <1>1 DEF HoldsKept

\* Every step keeps what was saved last.
LEMMA KeptStep ==
  ASSUME StorageTypeOK, SectionInv, MediaInv, WrittenInv, KeptInv, [StorageNext]_storageVars
  PROVE  KeptInv'
<1> USE LayoutsLemma, UnitsLemma DEF Saving
<1>0. UNCHANGED writeThrough
  BY DEF StorageNext, storageVars
<1>1. CASE PowerOff
  BY <1>1 DEF KeptInv, HoldsKept, PowerOff
<1>2. ASSUME NEW l \in Layouts, PowerOn(l) PROVE KeptInv'
  BY <1>2 DEF KeptInv, HoldsKept, PowerOn, registers
<1>3. CASE InitNew
  <2>1. kept.layout = NoLayout
    BY <1>3 DEF InitNew, KeptInv, HoldsKept
  <2> QED
    BY <1>3, <2>1 DEF KeptInv, InitNew
<1>4. CASE InitRead
  BY <1>4 DEF KeptInv, HoldsKept, InitRead, registers
<1>5. CASE ValidateState
  BY <1>5 DEF KeptInv, HoldsKept, ValidateState, registers
<1>6. CASE LoadState
  BY <1>6 DEF KeptInv, HoldsKept, LoadState, registers
<1>7. ASSUME NEW e \in DOMAIN live, NEW v \in Values, ChangeState(e, v) PROVE KeptInv'
  BY <1>7 DEF KeptInv, HoldsKept, ChangeState, registers
<1>8. CASE BeginSave
  BY <1>8 DEF KeptInv, HoldsKept, BeginSave, PrepareState, registers, NothingKept
<1>9. CASE PlaceSection
  <2>1. sectionsCount = 0
    BY <1>9 DEF StorageTypeOK, SectionInv, PlaceSection
  <2>2. Puts(0, Preamble(1))
    BY <1>9, <2>1, WriteLemma DEF PlaceSection
  <2>3. kept.layout \in {layout, NoLayout} /\ UNCHANGED <<kept, touched, layout>>
    BY <1>9 DEF KeptInv, PlaceSection
  <2>4. kept.layout # NoLayout => HoldsKept(view)'
    <3>1. SUFFICES ASSUME kept.layout # NoLayout PROVE HoldsKept(view)'
      OBVIOUS
    <3>2. Firmware(kept.layout) /\ HoldsKept(view)
      BY <3>1 DEF StorageTypeOK, KeptInv
    <3>3. \A i \in 1 .. Len(kept.layout) : 1 + i \in Addresses /\ 1 + i # 0
      BY <3>2 DEF Firmware
    <3>4. view'[0] = view[0] /\ view'[1] = view[1]
      BY <2>2, <3>2 DEF HoldsKept, Puts
    <3>5. \A i \in 1 .. Len(kept.layout) : view'[1 + i] = view[1 + i]
      BY <2>2, <3>3 DEF Puts
    <3> QED
      BY <2>3, <3>1, <3>2, <3>4, <3>5, HoldsLemma
  <2>5. kept.layout # NoLayout => HoldsKept(medium)'
    BY <2>2, <2>3, <2>4 DEF Puts, KeptInv, HoldsKept
  <2> QED
    BY <2>3, <2>4, <2>5 DEF KeptInv
<1>10. CASE WriteState
  <2>1. WritesPart
    BY <1>10, WriteStateLemma
  <2>2. kept.layout \in {layout, NoLayout} /\ UNCHANGED <<kept, layout>> /\ touched \subseteq touched'
    BY <2>1 DEF KeptInv, WritesPart
  <2>3. kept.layout # NoLayout => HoldsKept(view)'
    <3>1. SUFFICES ASSUME kept.layout # NoLayout PROVE HoldsKept(view)'
      OBVIOUS
    <3>2. HoldsKept(view) /\ kept.layout = layout
      BY <2>2, <3>1 DEF KeptInv
    <3>3. ASSUME NEW i \in 1 .. Len(layout)
          PROVE  \/ view'[1 + i] = view[1 + i] \/ layout[i][1] \in touched'
                 \/ view'[1 + i] = Datum(layout[i], kept.state[layout[i][1]])
      <4>1. CASE i # done + 1
        BY <2>1, <4>1, PartLemma
      <4>2. CASE i = done + 1
        <5>1. view'[1 + i] = Datum(layout[i], live[layout[i][1]])
          BY <2>1, <4>2, PartLemma
        <5>2. live[layout[i][1]] = kept.state[layout[i][1]] \/ layout[i][1] \in touched'
          BY <2>1, <3>2, <4>2 DEF WritesPart
        <5> QED
          BY <5>1, <5>2
      <4> QED
        BY <4>1, <4>2
    <3>4. view'[0] = view[0] /\ view'[1] = view[1]
      BY <2>1, PartLemma
    <3> QED
      BY <2>2, <3>1, <3>2, <3>3, <3>4, HoldsLemma
  <2>4. kept.layout # NoLayout => HoldsKept(medium)'
    <3>1. CASE medium' = view'
      BY <2>3, <3>1 DEF HoldsKept
    <3>2. CASE medium' = medium
      BY <2>2, <3>2 DEF KeptInv, HoldsKept
    <3> QED
      BY <2>1, <3>1, <3>2 DEF WritesPart, Puts
  <2> QED
    BY <2>2, <2>3, <2>4 DEF KeptInv
<1>11. CASE FinalizeSaveState
  <2>1. layout \in Layouts /\ Saving
    BY <1>11 DEF StorageTypeOK, SectionInv, FinalizeSaveState
  <2>2. elementStateOffset = 1 /\ newSectionSize = Len(layout)
    BY <1>11, <2>1 DEF StorageTypeOK, SectionInv, FinalizeSaveState, Firmware
  <2>3. Puts(1, SectionPreamble(Len(layout)))
    BY <1>11, <2>2, WriteLemma DEF FinalizeSaveState, StorageTypeOK
  <2>4. kept.layout \in {layout, NoLayout} /\ UNCHANGED <<kept, touched, layout>>
    BY <1>11 DEF KeptInv, FinalizeSaveState
  <2>5. kept.layout # NoLayout => HoldsKept(view)'
    <3>1. SUFFICES ASSUME kept.layout # NoLayout PROVE HoldsKept(view)'
      OBVIOUS
    <3>2. HoldsKept(view) /\ kept.layout = layout
      BY <2>4, <3>1 DEF KeptInv
    <3>3. \A i \in 1 .. Len(layout) : 1 + i \in Addresses /\ 1 + i # 1
      BY <2>1 DEF Firmware
    <3>4. view'[0] = view[0] /\ view'[1] = view[1]
      BY <2>3, <3>2 DEF HoldsKept, Puts
    <3>5. \A i \in 1 .. Len(layout) : view'[1 + i] = view[1 + i]
      BY <2>3, <3>3 DEF Puts
    <3> QED
      BY <2>4, <3>1, <3>2, <3>4, <3>5, HoldsLemma
  <2>6. kept.layout # NoLayout => HoldsKept(medium)'
    <3>1. CASE medium' = view'
      BY <2>5, <3>1 DEF HoldsKept
    <3>2. CASE medium' = medium
      BY <2>4, <3>2 DEF KeptInv, HoldsKept
    <3> QED
      BY <2>3, <3>1, <3>2 DEF Puts
  <2> QED
    BY <2>4, <2>5, <2>6 DEF KeptInv
<1>12. CASE Commit
  <2>1. kept' = [layout |-> layout, state |-> live] /\ medium' = view /\ view' = view /\ pc' = "run"
    BY <1>12 DEF Commit
  <2>2. /\ layout \in Layouts /\ DOMAIN layout = 1 .. Len(layout)
        /\ view[0] = Preamble(1) /\ view[1] = SectionPreamble(Len(layout))
        /\ \A i \in 1 .. Len(layout) : view[1 + i] = Datum(layout[i], live[layout[i][1]])
    BY <1>12, CommitLemma DEF Commit, Firmware
  <2> QED
    BY <2>1, <2>2 DEF KeptInv, HoldsKept
<1>13. CASE UNCHANGED storageVars
  BY <1>13 DEF KeptInv, HoldsKept, storageVars, registers
<1> QED
  BY <1>1, <1>2, <1>3, <1>4, <1>5, <1>6, <1>7, <1>8, <1>9, <1>10, <1>11, <1>12, <1>13
  DEF StorageNext

-----------------------------------------------------------------------------
(***************************************************************************)
(* What is loaded.                                                         *)
(***************************************************************************)

\* An element makes of its units the state that all of them hold.
LEMMA StateInLemma ==
  ASSUME NEW image, NEW l \in Layouts, NEW e \in Elements(l), NEW v \in Values \cup {Garbled},
         HasState(image, l, e, v)
  PROVE  StateIn(image, l, e) = v
<1>1. Firmware(l)
  BY LayoutsLemma
<1>2. HasState(image, l, e, v)
  OBVIOUS
<1>3. ASSUME NEW w, HasState(image, l, e, w) PROVE w = v
  <2>1. PICK i \in 1 .. Len(l) : l[i][1] = e
    BY <1>1 DEF Firmware
  <2>2. Datum(l[i], w) = Datum(l[i], v)
    BY <1>1, <1>2, <1>3, <2>1 DEF HasState, Firmware
  <2> QED
    BY <2>2, UnitsLemma
<1>4. CASE v \in Values
  BY <1>2, <1>3, <1>4 DEF StateIn
<1>5. CASE v \notin Values
  BY <1>3, <1>5 DEF StateIn
<1> QED
  BY <1>4, <1>5

\* The start finds a section of the right size if and only if there is one.
LEMMA FoundLemma ==
  ASSUME StorageTypeOK, SectionInv, ReadInv, pc \in {"validate", "load"}
  PROVE  /\ layout \in Layouts
         /\ Validated <=> SavedOn(view, layout)
<1> USE LayoutsLemma, UnitsLemma
<1>1. layout \in Layouts
  BY DEF StorageTypeOK, SectionInv
<1>2. Len(layout) > 0
  BY <1>1 DEF Firmware
<1>3. ASSUME SavedOn(view, layout) PROVE Validated
  BY <1>3 DEF ReadInv, SavedOn, Validated
<1>4. ASSUME Validated PROVE SavedOn(view, layout)
  <2>1. view[0] = Preamble(1) /\ view[1].kind = "section" /\ elementStateSize = view[1].size
    BY <1>2, <1>4 DEF ReadInv, Validated
  <2>2. view[1] = SectionPreamble(view[1].size)
    BY <2>1 DEF StorageTypeOK
  <2> QED
    BY <1>4, <2>1, <2>2 DEF SavedOn, Validated
<1> QED
  BY <1>1, <1>3, <1>4

\* Of a step that validates or loads.
LEMMA SurvivesStep ==
  ASSUME StorageTypeOK, SectionInv, ReadInv, KeptInv, kept.layout = layout
  PROVE  /\ ValidateState => pc' = "load"
         /\ LoadState => \A e \in Elements(layout) \ touched : live'[e] = kept.state[e]
<1>1. ASSUME ValidateState PROVE pc' = "load"
  <2>1. pc = "validate"
    BY <1>1 DEF ValidateState
  <2>2. layout \in Layouts
    BY <2>1, FoundLemma
  <2>3. SavedOn(view, layout)
    BY <2>2, LayoutsLemma DEF KeptInv, HoldsKept, SavedOn
  <2> QED
    BY <1>1, <2>1, <2>3, FoundLemma DEF ValidateState
<1>2. ASSUME LoadState, NEW e \in Elements(layout) \ touched PROVE live'[e] = kept.state[e]
  <2>1. layout \in Layouts
    BY <1>2, FoundLemma DEF LoadState
  <2>2. HasState(view, layout, e, kept.state[e])
    BY <2>1, <1>2, LayoutsLemma DEF KeptInv, HoldsKept, HasState
  <2>3. kept.state[e] \in Values \cup {Garbled}
    BY DEF StorageTypeOK
  <2>4. StateIn(view, layout, e) = kept.state[e]
    BY <1>2, <2>1, <2>2, <2>3, StateInLemma
  <2> QED
    BY <1>2, <2>4 DEF LoadState, StatesIn
<1> QED
  BY <1>1, <1>2

\* Storage starts like that.
LEMMA StorageInitLemma ==
  ASSUME StorageInit
  PROVE  /\ StorageTypeOK /\ SectionInv /\ ReadInv /\ MediaInv
         /\ WrittenInv /\ KeptInv /\ WholeInv
<1> USE LayoutsLemma, UnitsLemma DEF StorageInit
<1>1. StorageTypeOK
  BY DEF StorageTypeOK, NothingKept, NoLayout
<1>2. SectionInv /\ ReadInv /\ MediaInv
  BY DEF SectionInv, ReadInv, MediaInv, Saving
<1>3. WrittenInv /\ KeptInv
  BY DEF WrittenInv, KeptInv, Saving, NothingKept
<1>4. WholeInv
  <2>1. medium[0] # Preamble(1)
    BY DEF Blank, Preamble
  <2> QED
    BY <2>1 DEF WholeInv, SavedOn, Saving
<1> QED
  BY <1>1, <1>2, <1>3, <1>4

-----------------------------------------------------------------------------
(***************************************************************************)
(* A medium that commits as a whole.                                       *)
(***************************************************************************)

\* There, what a step other than a commit or the first preamble leaves alone stays whole.
LEMMA SameMedium ==
  ASSUME UNCHANGED medium, WholeInv, ~writeThrough
  PROVE  \A l \in Layouts : (SavedOn(medium, l) => StatesIn(medium, l) \in [Elements(l) -> Values])'
BY DEF WholeInv, SavedOn, StatesIn, StateIn, HasState

\* What a finished save takes to the medium are the states of the elements.
LEMMA CommittedLemma ==
  ASSUME StorageTypeOK, SectionInv, WrittenInv, pc = "commit"
  PROVE  SavedOn(view, layout) /\ StatesIn(view, layout) = live
<1>1. /\ layout \in Layouts
      /\ view[0] = Preamble(1) /\ view[1] = SectionPreamble(Len(layout))
      /\ \A i \in 1 .. Len(layout) : view[1 + i] = Datum(layout[i], live[layout[i][1]])
  BY CommitLemma
<1>2. live \in [Elements(layout) -> Values \cup {Garbled}]
  BY DEF StorageTypeOK
<1>3. ASSUME NEW e \in Elements(layout) PROVE StateIn(view, layout, e) = live[e]
  <2>1. HasState(view, layout, e, live[e])
    <3>1. DOMAIN layout = 1 .. Len(layout)
      BY <1>1, LayoutsLemma DEF Firmware
    <3> QED
      BY <1>1, <3>1 DEF HasState
  <2>2. live[e] \in Values \cup {Garbled}
    BY <1>2, <1>3
  <2> QED
    BY <1>1, <1>3, <2>1, <2>2, StateInLemma
<1> QED
  BY <1>1, <1>2, <1>3 DEF SavedOn, StatesIn

\* Every step keeps it whole.
LEMMA WholeStep ==
  ASSUME StorageTypeOK, SectionInv, ReadInv, MediaInv, WrittenInv, WholeInv,
         [StorageNext]_storageVars
  PROVE  WholeInv'
<1> USE LayoutsLemma, UnitsLemma DEF Saving
<1>0. UNCHANGED writeThrough
  BY DEF StorageNext, storageVars
<1> SUFFICES ASSUME ~writeThrough PROVE WholeInv'
  BY <1>0 DEF WholeInv
<1>1. CASE PowerOff
  BY <1>1, SameMedium DEF WholeInv, PowerOff
<1>2. ASSUME NEW l \in Layouts, PowerOn(l) PROVE WholeInv'
  BY <1>2, SameMedium DEF WholeInv, PowerOn
<1>3. CASE InitNew
  <2>1. medium'[0] = Preamble(0)
    BY <1>3 DEF InitNew, StorageTypeOK
  <2>2. Preamble(0) # Preamble(1)
    OBVIOUS
  <2>3. \A l \in Layouts : ~SavedOn(medium, l)'
    BY <2>1, <2>2 DEF SavedOn
  <2> QED
    BY <1>3, <2>3 DEF WholeInv, InitNew
<1>4. CASE InitRead
  BY <1>4, SameMedium DEF WholeInv, InitRead
<1>5. CASE ValidateState
  <2>1. live' \in [Elements(layout') -> Values]
    BY <1>5, ValuesAssumption DEF WholeInv, ValidateState
  <2> QED
    BY <1>5, <2>1, SameMedium DEF WholeInv, ValidateState
<1>6. CASE LoadState
  <2>1. layout \in Layouts /\ Validated
    BY <1>6, FoundLemma DEF SectionInv, LoadState, Validated
  <2>2. SavedOn(medium, layout) /\ view = medium
    BY <1>6, <2>1, FoundLemma DEF MediaInv, LoadState
  <2>3. live' \in [Elements(layout') -> Values]
    BY <1>6, <2>1, <2>2 DEF WholeInv, LoadState
  <2> QED
    BY <1>6, <2>3, SameMedium DEF WholeInv, LoadState
<1>7. ASSUME NEW e \in DOMAIN live, NEW v \in Values, ChangeState(e, v) PROVE WholeInv'
  <2>1. live' \in [Elements(layout') -> Values]
    BY <1>7 DEF WholeInv, ChangeState
  <2> QED
    BY <1>7, <2>1, SameMedium DEF WholeInv, ChangeState
<1>8. CASE BeginSave
  BY <1>8, SameMedium DEF WholeInv, BeginSave, PrepareState
<1>9. CASE PlaceSection
  BY <1>9, SameMedium DEF WholeInv, PlaceSection, Write
<1>10. CASE WriteState
  <2>1. WritesPart /\ medium' = medium
    BY <1>10, WriteStateLemma DEF WritesPart, Puts
  <2> QED
    BY <2>1, SameMedium DEF WholeInv, WritesPart
<1>11. CASE FinalizeSaveState
  BY <1>11, SameMedium DEF WholeInv, FinalizeSaveState, Write
<1>12. CASE Commit
  <2>1. medium' = view /\ UNCHANGED <<view, live, layout>> /\ pc = "commit" /\ pc' = "run"
    BY <1>12 DEF Commit
  <2>2. SavedOn(view, layout) /\ StatesIn(view, layout) = live /\ layout \in Layouts
    BY <2>1, CommittedLemma, CommitLemma
  <2>3. ASSUME NEW l \in Layouts, SavedOn(medium, l)' PROVE (StatesIn(medium, l) \in [Elements(l) -> Values])'
    <3>1. SavedOn(view, l)
      BY <2>1, <2>3 DEF SavedOn
    <3>2. l = layout
      <4>1. SectionPreamble(Len(l)) = SectionPreamble(Len(layout))
        BY <2>2, <3>1 DEF SavedOn
      <4>2. Len(l) = Len(layout)
        BY <4>1
      <4> QED
        BY <2>2, <4>2
    <3>3. StatesIn(medium, l)' = StatesIn(view, l)
      BY <2>1 DEF StatesIn, StateIn, HasState
    <3> QED
      BY <2>1, <2>2, <3>2, <3>3 DEF WholeInv
  <2> QED
    BY <2>1, <2>3 DEF WholeInv
<1>13. CASE UNCHANGED storageVars
  BY <1>13, SameMedium DEF WholeInv, storageVars
<1> QED
  BY <1>1, <1>2, <1>3, <1>4, <1>5, <1>6, <1>7, <1>8, <1>9, <1>10, <1>11, <1>12, <1>13
  DEF StorageNext

\* What a medium holds of a firmware is what the next start of it loads.
MediumTells ==
  /\ \A l \in Layouts : SavedOn(medium, l) =>
       OnMedium = [layout |-> l, state |-> StatesIn(medium, l)]
  /\ (\A l \in Layouts : ~SavedOn(medium, l)) => OnMedium = NothingKept

LEMMA OnMediumLemma == MediumTells
<1> DEFINE saved == {l \in Layouts : medium[0] = Preamble(1) /\ medium[1] = SectionPreamble(Len(l))}
<1>1. ASSUME NEW l \in Layouts, SavedOn(medium, l)
      PROVE  OnMedium = [layout |-> l, state |-> StatesIn(medium, l)]
  <2>1. l \in saved
    BY <1>1 DEF SavedOn
  <2>2. \A m \in saved : m = l
    BY <1>1, LayoutsLemma, UnitsLemma DEF SavedOn
  <2>3. (CHOOSE m \in saved : TRUE) = l
    BY <2>1, <2>2
  <2> QED
    BY <2>1, <2>3 DEF OnMedium
<1>2. ASSUME \A l \in Layouts : ~SavedOn(medium, l) PROVE OnMedium = NothingKept
  <2>1. saved = {}
    BY <1>2 DEF SavedOn
  <2> QED
    BY <2>1 DEF OnMedium
<1> QED
  BY <1>1, <1>2 DEF MediumTells

-----------------------------------------------------------------------------
(***************************************************************************)
(* The theorems.                                                           *)
(***************************************************************************)

\* All that the proofs know of a storage.
StorageInv ==
  /\ StorageTypeOK /\ SectionInv /\ ReadInv /\ MediaInv
  /\ WrittenInv /\ KeptInv /\ WholeInv

LEMMA StorageStep ==
  ASSUME StorageInv, [StorageNext]_storageVars
  PROVE  StorageInv'
BY TypeStep, SectionStep, ReadStep, WrittenStep, KeptStep, WholeStep DEF StorageInv

LEMMA StorageIsSound == StorageSpec => []StorageInv
<1>1. StorageInit => StorageInv
  BY StorageInitLemma DEF StorageInv
<1>2. StorageInv /\ [StorageNext]_storageVars => StorageInv'
  BY StorageStep
<1> QED
  BY <1>1, <1>2, PTL DEF StorageSpec

\* The storage keeps its types: no offset, size or count leaves the medium.
THEOREM StorageTypesAreKept == StorageSpec => []StorageTypeOK
<1>1. StorageInv => StorageTypeOK
  BY DEF StorageInv
<1> QED
  BY <1>1, StorageIsSound, PTL

\* Whatever saves were interrupted, on either medium and with other firmwares in between, the
\* state a firmware saved last is found valid at its next start, and each element that has not
\* written another state since is loaded with what it saved.
THEOREM SavedIsLoaded == StorageSpec => UnchangedSurvives
<1> DEFINE Survives ==
      kept.layout = layout =>
        /\ ValidateState => pc' = "load"
        /\ LoadState => \A e \in Elements(layout) \ touched : live'[e] = kept.state[e]
<1>1. StorageInv => Survives
  BY SurvivesStep DEF StorageInv
<1> HIDE DEF Survives
<1>2. StorageInv /\ [StorageNext]_storageVars => [Survives]_storageVars
  BY <1>1
<1>3. StorageSpec => [][Survives]_storageVars
  BY <1>2, StorageIsSound, PTL DEF StorageSpec
<1> QED
  BY <1>3 DEF UnchangedSurvives, Survives

\* A step of the storage is one of the store, or none of it.
LEMMA RefinementStep ==
  ASSUME StorageInv, StorageInv', [StorageNext]_storageVars
  PROVE  [Store!Next]_(Store!vars)
<1> USE LayoutsLemma DEF StorageInv
<1>0. UNCHANGED writeThrough
  BY DEF StorageNext, storageVars
<1> DEFINE sLayout == IF Running THEN layout ELSE NoLayout
           sLive == IF Running THEN live ELSE << >>
           disk == IF writeThrough THEN NothingKept ELSE OnMedium
<1>1. CASE writeThrough
  BY <1>0, <1>1 DEF Store!vars, Running
<1>2. CASE ~writeThrough
  <2>1. medium' = medium => disk' = disk
    BY <1>0 DEF OnMedium, StatesIn, StateIn, HasState
  <2>2. Running <=> pc \in {"run", "write", "finalize", "commit"}
    BY <1>2 DEF Running
  <2>3. Running' <=> pc' \in {"run", "write", "finalize", "commit"}
    BY <1>0, <1>2 DEF Running
  <2>4. ASSUME ~Running, ~Running', disk' = disk PROVE UNCHANGED Store!vars
    BY <2>4 DEF Store!vars
  <2>5. ASSUME Running, Running', disk' = disk, UNCHANGED <<layout, live>>
        PROVE  UNCHANGED Store!vars
    BY <2>5 DEF Store!vars
  <2>6. CASE PowerOff
    <3>1. ~Running' /\ disk' = disk
      BY <2>1, <2>3, <2>6 DEF PowerOff
    <3>2. Store!Crash
      BY <3>1 DEF Store!Crash, Store!NoLayout, NoLayout
    <3> QED
      BY <3>2 DEF Store!Next
  <2>7. ASSUME NEW l \in Layouts, PowerOn(l) PROVE UNCHANGED Store!vars
    BY <2>1, <2>2, <2>3, <2>4, <2>7 DEF PowerOn
  <2>8. CASE InitNew
    <3>1. view = medium
      BY <2>8 DEF InitNew, MediaInv, Saving
    <3>2. medium[0] # Preamble(1) /\ medium'[0] # Preamble(1)
      BY <2>8, <3>1, UnitsLemma DEF InitNew, StorageTypeOK
    <3>3. OnMedium = NothingKept
      BY <3>2, OnMediumLemma DEF MediumTells, SavedOn
    <3>4. MediumTells'
      BY OnMediumLemma, PTL
    <3>5. OnMedium' = NothingKept
      BY <3>2, <3>4 DEF MediumTells, SavedOn, NothingKept
    <3> QED
      BY <1>0, <2>2, <2>3, <2>4, <2>8, <3>3, <3>5 DEF InitNew
  <2>9. CASE InitRead
    BY <2>1, <2>2, <2>3, <2>4, <2>9 DEF InitRead
  <2>10. CASE ValidateState
    <3>1. layout \in Layouts /\ view = medium /\ disk' = disk
      BY <2>1, <2>10, FoundLemma DEF ValidateState, MediaInv, Saving
    <3>2. CASE Validated
      BY <2>2, <2>3, <2>4, <2>10, <3>1, <3>2 DEF ValidateState
    <3>3. CASE ~Validated
      <4>1. ~SavedOn(medium, layout)
        BY <2>10, <3>1, <3>3, FoundLemma DEF ValidateState
      <4>2. disk.layout # layout
        <5>1. CASE \E l \in Layouts : SavedOn(medium, l)
          <6>1. PICK l \in Layouts : SavedOn(medium, l)
            BY <5>1
          <6>2. OnMedium.layout = l /\ l # layout
            BY <4>1, <6>1, OnMediumLemma DEF MediumTells
          <6> QED
            BY <1>2, <6>2
        <5>2. CASE \A l \in Layouts : ~SavedOn(medium, l)
          BY <1>2, <3>1, <5>2, OnMediumLemma DEF MediumTells, NothingKept
        <5> QED
          BY <5>1, <5>2
      <4>3. ~Running /\ Running' /\ layout' = layout /\ live' = live
        BY <2>2, <2>3, <2>10, <3>3 DEF ValidateState
      <4>4. live = Store!Fresh(layout)
        BY <1>2, <2>10 DEF WholeInv, ValidateState, Store!Fresh, Store!Elements, Elements
      <4>5. Store!Start(layout)
        BY <3>1, <4>2, <4>3, <4>4 DEF Store!Start, Store!NoLayout, NoLayout
      <4> QED
        BY <3>1, <4>5 DEF Store!Next
    <3> QED
      BY <3>2, <3>3
  <2>11. CASE LoadState
    <3>1. layout \in Layouts /\ view = medium /\ disk' = disk /\ SavedOn(view, layout)
      BY <2>1, <2>11, FoundLemma DEF LoadState, MediaInv, Saving, SectionInv, Validated
    <3>2. OnMedium = [layout |-> layout, state |-> StatesIn(medium, layout)]
      BY <3>1, OnMediumLemma DEF MediumTells
    <3>3. ~Running /\ Running' /\ layout' = layout /\ live' = OnMedium.state
      BY <2>2, <2>3, <2>11, <3>1, <3>2 DEF LoadState
    <3>4. Store!Start(layout)
      BY <1>2, <3>1, <3>2, <3>3 DEF Store!Start, Store!NoLayout, NoLayout
    <3> QED
      BY <3>1, <3>4 DEF Store!Next
  <2>12. ASSUME NEW e \in DOMAIN live, NEW v \in Values, ChangeState(e, v)
         PROVE  Store!Next
    <3>1. Running /\ Running' /\ layout' = layout /\ disk' = disk
      BY <2>1, <2>2, <2>3, <2>12 DEF ChangeState
    <3>2. live' \in Store!States(layout)
      BY <1>0, <1>2, <2>12 DEF ChangeState, WholeInv, Store!States, Store!Elements, Elements
    <3>3. layout # NoLayout
      BY <2>12 DEF ChangeState, SectionInv
    <3> QED
      BY <3>1, <3>2, <3>3 DEF Store!Next, Store!Change, Store!NoLayout, NoLayout
  <2>13. CASE BeginSave
    BY <2>1, <2>2, <2>3, <2>5, <2>13 DEF BeginSave, PrepareState
  <2>14. CASE PlaceSection
    BY <1>2, <2>1, <2>2, <2>3, <2>5, <2>14 DEF PlaceSection, Write
  <2>15. CASE WriteState
    BY <1>2, <2>1, <2>2, <2>3, <2>5, <2>15, WriteStateLemma DEF WritesPart, Puts
  <2>16. CASE FinalizeSaveState
    BY <1>2, <2>1, <2>2, <2>3, <2>5, <2>16 DEF FinalizeSaveState, Write
  <2>17. CASE Commit
    <3>1. Running /\ Running' /\ UNCHANGED <<layout, live, view>> /\ medium' = view /\ pc = "commit"
      BY <2>2, <2>3, <2>17 DEF Commit
    <3>2. SavedOn(view, layout) /\ StatesIn(view, layout) = live /\ layout \in Layouts
      BY <3>1, CommittedLemma, CommitLemma
    <3>3. MediumTells'
      BY OnMediumLemma, PTL
    <3>4. SavedOn(medium, layout)' /\ StatesIn(medium, layout)' = live
      BY <3>1, <3>2 DEF SavedOn, StatesIn, StateIn, HasState
    <3>5. OnMedium' = [layout |-> layout, state |-> live]
      BY <3>1, <3>2, <3>3, <3>4 DEF MediumTells
    <3>6. Store!Save
      BY <1>0, <1>2, <3>1, <3>2, <3>5 DEF Store!Save, Store!NoLayout, NoLayout
    <3> QED
      BY <3>6 DEF Store!Next
  <2>18. CASE UNCHANGED storageVars
    <3>1. UNCHANGED <<layout, live, pc>> /\ disk' = disk
      BY <2>1, <2>18 DEF storageVars
    <3> QED
      BY <2>2, <2>3, <2>4, <2>5, <3>1
  <2> QED
    BY <2>6, <2>7, <2>8, <2>9, <2>10, <2>11, <2>12, <2>13, <2>14, <2>15, <2>16, <2>17, <2>18
    DEF StorageNext
<1> QED
  BY <1>1, <1>2

\* On a medium that commits as a whole, the storage implements the store.
THEOREM StorageImplementsStore == StorageSpec => Refines
<1>1. StorageInit => Store!Init
  <2> SUFFICES ASSUME StorageInit PROVE Store!Init
    OBVIOUS
  <2>1. medium[0] # Preamble(1)
    BY UnitsLemma DEF StorageInit, Blank, Preamble
  <2>2. OnMedium = NothingKept
    BY <2>1, OnMediumLemma DEF MediumTells, SavedOn
  <2>3. NothingKept = Store!NoSnapshot
    BY DEF NothingKept, NoLayout, Store!NoSnapshot, Store!NoLayout
  <2>4. ~Running
    BY DEF StorageInit, Running
  <2> QED
    BY <2>2, <2>3, <2>4 DEF Store!Init, NoLayout, Store!NoLayout
<1>2. StorageInv /\ StorageInv' /\ [StorageNext]_storageVars => [Store!Next]_(Store!vars)
  BY RefinementStep
<1> QED
  BY <1>1, <1>2, StorageIsSound, PTL DEF StorageSpec, Refines, Store!Spec

-----------------------------------------------------------------------------
(***************************************************************************)
(* The identity of a Linux device.                                         *)
(***************************************************************************)
IsWhole(identity) ==
  identity.guid \notin {None, Cut} /\ identity.authkey \notin {None, Cut}

\* What the server has seen is what the file holds, and is never made anew; while a new one is
\* written, nothing has been seen.
IdentityInv ==
  /\ identities \in Nat
  /\ seen \subseteq {guidFile}
  /\ seen # {} => IsWhole(guidFile) /\ process # "saving"
  /\ process = "saving" => \E n \in Nat \ {0} : config = Identity(n)
  /\ process = "running" => reg = guidFile /\ IsWhole(guidFile)

\* What is whole is what is not generated again, and is loaded as it is written.
LEMMA WholeLemma ==
  ASSUME NEW file
  PROVE  /\ IsWhole(file) <=> ~ToGenerate(LoadGuidAuth(file))
         /\ IsWhole(file) => /\ LoadGuidAuth(file).guid = file.guid
                           /\ LoadGuidAuth(file).authkey = file.authkey
BY DEF IsWhole, ToGenerate, LoadGuidAuth, FromFile, None, Cut

\* An identity is a pair, whatever is in the file.
IsIdentity(x) == x = [guid |-> x.guid, authkey |-> x.authkey]

LEMMA IdentityStep ==
  ASSUME IdentityInv, IsIdentity(guidFile), [DaemonNext]_daemonVars
  PROVE  (IdentityInv /\ IsIdentity(guidFile))'
<1> USE DEF IdentityInv
<1>1. CASE Starts
  <2> DEFINE loaded == LoadGuidAuth(guidFile)
  <2>1. UNCHANGED seen /\ process = "off" /\ reg' = loaded
    BY <1>1 DEF Starts
  <2>2. CASE ToGenerate(loaded)
    <3>1. seen = {}
      BY <2>2, WholeLemma
    <3>2. Generates(StatusBefore(yaml))
      BY <1>1, <2>2 DEF Starts
    <3>3. IsIdentity(NoIdentity)
      BY DEF IsIdentity, NoIdentity
    <3> QED
      BY <2>1, <3>1, <3>2, <3>3 DEF Generates, IsIdentity
  <2>3. CASE ~ToGenerate(loaded)
    <3>1. IsWhole(guidFile) /\ loaded = guidFile
      BY <2>3, WholeLemma DEF IsIdentity, LoadGuidAuth
    <3>2. Completed(StatusBefore(yaml)) /\ UNCHANGED <<guidFile, identities>>
      BY <1>1, <2>3 DEF Starts
    <3>3. process' \in {"off", "running"}
      BY <3>2 DEF Completed, Finished
    <3> QED
      BY <2>1, <3>1, <3>2, <3>3 DEF IsIdentity
  <2> QED
    BY <2>2, <2>3
<1>2. CASE Exits
  BY <1>2 DEF Exits, IsIdentity
<1>3. CASE Saves
  <2>1. seen = {} /\ UNCHANGED <<seen, identities, config>>
    BY <1>3 DEF Saves
  <2>2. PICK n \in Nat \ {0} : config = Identity(n)
    BY <1>3 DEF Saves
  <2>3. IsWhole(config) /\ IsIdentity(config)
    BY <2>2 DEF IsWhole, Identity, None, Cut, IsIdentity
  <2>4. CASE Saved
    <3>1. process' \in {"off", "running"}
      BY <2>4 DEF Saved, Completed, Finished
    <3> QED
      BY <2>1, <2>3, <2>4, <3>1 DEF Saved, IsIdentity
  <2>5. CASE guidFile' \in PartlyWritten(config) /\ SaveFails
    <3>1. IsIdentity(guidFile')
      BY <2>5 DEF PartlyWritten, IsIdentity, NoIdentity
    <3> QED
      BY <2>1, <2>5, <3>1 DEF SaveFails, IsIdentity
  <2> QED
    BY <1>3, <2>4, <2>5 DEF Saves
<1>4. CASE Killed
  <2>1. process' = "off" /\ UNCHANGED <<seen, identities>>
    BY <1>4 DEF Killed
  <2>2. CASE process = "saving"
    <3>1. guidFile' \in PartlyWritten(config)
      BY <1>4, <2>2 DEF Killed
    <3>2. IsIdentity(guidFile')
      BY <3>1 DEF PartlyWritten, IsIdentity, NoIdentity
    <3> QED
      BY <2>1, <2>2, <3>2 DEF IsIdentity
  <2>3. CASE process # "saving"
    BY <1>4, <2>1, <2>3 DEF Killed, IsIdentity
  <2> QED
    BY <2>2, <2>3
<1>5. CASE EntersConfigMode \/ SoftRestarts \/ FolderChanges \/ (\E y \in YamlFiles : Edited(y))
  BY <1>5 DEF EntersConfigMode, SoftRestarts, FolderChanges, Edited, IsIdentity
<1>6. CASE Registers
  BY <1>6 DEF Registers, IsIdentity
<1>7. CASE UNCHANGED daemonVars
  BY <1>7 DEF daemonVars, IsIdentity
<1> QED
  BY <1>1, <1>2, <1>3, <1>4, <1>5, <1>6, <1>7 DEF DaemonNext

\* Whatever fails or is killed, a Linux device never changes an identity that the server knows.
THEOREM LinuxIdentityIsKept == DaemonInit /\ [][DaemonNext]_daemonVars => []IdentityIsKept
<1> DEFINE AllInv == IdentityInv /\ IsIdentity(guidFile)
<1>1. DaemonInit => AllInv
  BY DEF DaemonInit, IdentityInv, IsIdentity, NoIdentity
<1>2. AllInv /\ [DaemonNext]_daemonVars => AllInv'
  BY IdentityStep
<1>3. AllInv => IdentityIsKept
  BY WholeLemma DEF IdentityInv, IdentityIsKept
<1> QED
  BY <1>1, <1>2, <1>3, PTL

-----------------------------------------------------------------------------
(***************************************************************************)
(* Indicators.  What the LED was last told, and what it plays since.       *)
(***************************************************************************)
LedTimes == Rhythms \cup { Durations(sequence, mode) :
  sequence \in {"connecting", "registering", "ready", "config", "download", "problem"}, mode \in Modes }
Led ==
  [ times : LedTimes, state : {"on", "off", "not"}, pin : BOOLEAN, invert : BOOLEAN, mode : Modes,
    sequence : {"connecting", "registering", "ready", "config", "download", "problem", "custom"},
    lastStatus : Statuses ]

\* The level of the pin follows its state and the wiring.
LedShown(l) == l.state # "not" /\ l.pin = ((l.state = "on") # l.invert)
\* What a pass of the main loop told it.
LedTold(l) ==
  /\ l.mode = "never" => l.lastStatus = "unknown"
  /\ l.sequence # "custom" /\ l.lastStatus # "unknown" =>
       l.times = Durations(SequenceFor(l.lastStatus), l.mode)
\* After such a pass another one tells it nothing new.
LedFollows(l, s) ==
  /\ l.mode = "never" => l.times = <<0, 1000>>
  /\ l.mode # "never" /\ l.sequence # "custom" => l.lastStatus = s
LedSteady(l) ==
  /\ l.times = <<0, 1000>> => l.state = "off"
  /\ l.times = <<1000, 0>> => l.state = "on"

LedInv ==
  /\ led \in Led /\ status \in Statuses /\ settled \in {"no", "loop", "timer"}
  /\ LedShown(led) /\ LedTold(led)
  /\ settled # "no" => LedFollows(led, status)
  /\ settled = "timer" => LedSteady(led)

\* A record of the LED, field by field.
LEMMA LedFields ==
  \A l \in Led :
    /\ l = [ times |-> l.times, state |-> l.state, pin |-> l.pin, invert |-> l.invert,
             mode |-> l.mode, sequence |-> l.sequence, lastStatus |-> l.lastStatus ]
    /\ l.times \in LedTimes /\ l.state \in {"on", "off", "not"} /\ l.pin \in BOOLEAN /\ l.invert \in BOOLEAN
    /\ l.mode \in Modes /\ l.lastStatus \in Statuses
    /\ l.sequence \in {"connecting", "registering", "ready", "config", "download", "problem", "custom"}
  BY DEF Led

\* The sequence and the rhythm of a status are ones that the LED has.
LEMMA SequenceLemma ==
  \A s \in Statuses :
    SequenceFor(s) \in {"connecting", "registering", "ready", "config", "download", "problem"}
  BY DEF SequenceFor

\* Also for a mode.
LEMMA DurationsLemma ==
  \A s \in Statuses : \A m \in Modes : Durations(SequenceFor(s), m) \in LedTimes
  BY SequenceLemma DEF LedTimes

\* What it is when it is lit or not.
LEMMA LitLemma ==
  ASSUME NEW l \in Led, NEW on \in BOOLEAN
  PROVE  /\ Lit(l, on) \in Led /\ LedShown(Lit(l, on))
         /\ Lit(l, on).state = (IF on THEN "on" ELSE "off")
         /\ Lit(l, on).times = l.times /\ Lit(l, on).mode = l.mode
         /\ Lit(l, on).sequence = l.sequence /\ Lit(l, on).lastStatus = l.lastStatus
         /\ Lit(l, on).invert = l.invert
<1>1. /\ Lit(l, on).state = (IF on THEN "on" ELSE "off")
      /\ Lit(l, on).pin = (IF l.invert THEN ~on ELSE on)
      /\ Lit(l, on).times = l.times /\ Lit(l, on).mode = l.mode
      /\ Lit(l, on).sequence = l.sequence /\ Lit(l, on).lastStatus = l.lastStatus
      /\ Lit(l, on).invert = l.invert
  BY DEF Lit, Led
<1>2. Lit(l, on) \in Led
  BY DEF Lit, Led
<1>3. LedShown(Lit(l, on))
  <2>1. l.invert \in BOOLEAN
    BY LedFields
  <2>2. (Lit(l, on).state = "on") = on
    BY <1>1
  <2> QED
    BY <1>1, <2>1, <2>2 DEF LedShown
<1> QED
  BY <1>1, <1>2, <1>3

\* The timer turns the LED, or sets it once when it is steady.
LEMMA UpdatedLemma ==
  ASSUME NEW l \in Led, NEW over \in BOOLEAN, LedShown(l)
  PROVE  LET u == Updated(l, over)
         IN  /\ u \in Led /\ LedShown(u) /\ LedSteady(u)
             /\ u.times = l.times /\ u.mode = l.mode /\ u.sequence = l.sequence
             /\ u.lastStatus = l.lastStatus
<1> DEFINE steady == 0 \in Range(l.times)
           darker == IF l.state \in {"on", "not"} /\ l.times[1] = 0 THEN Lit(l, FALSE) ELSE l
           u == Updated(l, over)
<1>1. u = IF steady
            THEN IF darker.state \in {"off", "not"} /\ l.times[2] = 0 THEN Lit(darker, TRUE)
                 ELSE darker
            ELSE IF over /\ l.state # "not" THEN Lit(l, l.state = "off") ELSE l
  BY DEF Updated
<1>2. l.state \in {"on", "off"}
  BY LedFields DEF LedShown
<1>3. /\ darker \in Led /\ LedShown(darker) /\ darker.times = l.times /\ darker.mode = l.mode
      /\ darker.sequence = l.sequence /\ darker.lastStatus = l.lastStatus
      /\ darker.state = IF l.times[1] = 0 THEN "off" ELSE l.state
  <2>1. CASE l.state = "on" /\ l.times[1] = 0
    <3>1. darker = Lit(l, FALSE)
      BY <2>1
    <3>2. FALSE \in BOOLEAN
      OBVIOUS
    <3> QED
      BY <2>1, <3>1, <3>2, LitLemma
  <2>2. CASE ~(l.state = "on" /\ l.times[1] = 0)
    <3>1. darker = l
      BY <1>2, <2>2
    <3> QED
      BY <1>2, <2>2, <3>1
  <2> QED
    BY <2>1, <2>2
<1> HIDE DEF darker, u
<1>4. u \in Led /\ LedShown(u) /\ u.times = l.times /\ u.mode = l.mode /\ u.sequence = l.sequence
      /\ u.lastStatus = l.lastStatus
  <2>1. CASE u = Lit(darker, TRUE)
    BY <1>3, <2>1, LitLemma
  <2>2. CASE u = darker
    BY <1>3, <2>2
  <2>3. CASE u = Lit(l, l.state = "off")
    <3>1. (l.state = "off") \in BOOLEAN
      OBVIOUS
    <3> QED
      BY <2>3, <3>1, LitLemma
  <2>4. CASE u = l
    BY <2>4
  <2> QED
    BY <1>1, <2>1, <2>2, <2>3, <2>4
<1>5. LedSteady(u)
  <2>1. CASE l.times = <<0, 1000>>
    <3>1. steady /\ l.times[1] = 0 /\ l.times[2] # 0
      BY <2>1 DEF Range
    <3>2. u = darker /\ darker.state = "off"
      BY <1>1, <1>3, <3>1
    <3> QED
      BY <1>4, <2>1, <3>2 DEF LedSteady
  <2>2. CASE l.times = <<1000, 0>>
    <3>1. steady /\ l.times[1] # 0 /\ l.times[2] = 0
      BY <2>2 DEF Range
    <3>2. u.state = "on"
      <4>1. CASE l.state = "off"
        <5>1. u = Lit(darker, TRUE)
          BY <1>1, <1>3, <3>1, <4>1
        <5> QED
          BY <1>3, <5>1, LitLemma
      <4>2. CASE l.state = "on"
        <5>1. u = darker
          BY <1>1, <1>3, <3>1, <4>2
        <5> QED
          BY <1>3, <3>1, <4>2, <5>1
      <4> QED
        BY <1>2, <4>1, <4>2
    <3> QED
      BY <1>4, <2>2, <3>2 DEF LedSteady
  <2> QED
    BY <1>4, <2>1, <2>2 DEF LedSteady
<1> QED
  BY <1>4, <1>5 DEF u

\* Ways to tell an LED something.
LEMMA TellLemma ==
  ASSUME NEW l \in Led
  PROVE  /\ \A mode \in Modes :
              LET m == [l EXCEPT !.mode = mode, !.lastStatus = "unknown"]
              IN  /\ m \in Led /\ m.lastStatus = "unknown" /\ m.pin = l.pin /\ m.state = l.state
                  /\ m.invert = l.invert
         /\ \A rhythm \in Rhythms :
              LET m == [l EXCEPT !.sequence = "custom", !.times = rhythm]
              IN  /\ m \in Led /\ m.sequence = "custom" /\ m.pin = l.pin /\ m.state = l.state
                  /\ m.invert = l.invert /\ m.mode = l.mode /\ m.lastStatus = l.lastStatus
         /\ LET m == [l EXCEPT !.sequence = "connecting", !.lastStatus = "unknown"]
            IN  /\ m \in Led /\ m.lastStatus = "unknown" /\ m.pin = l.pin /\ m.state = l.state
                /\ m.invert = l.invert /\ m.mode = l.mode
<1>1. "unknown" \in Statuses
  BY DEF Statuses, StatusNumber
<1>2. ASSUME NEW mode \in Modes
      PROVE  LET m == [l EXCEPT !.mode = mode, !.lastStatus = "unknown"]
             IN  /\ m \in Led /\ m.lastStatus = "unknown" /\ m.pin = l.pin /\ m.state = l.state
                 /\ m.invert = l.invert
  BY <1>1 DEF Led
<1>3. ASSUME NEW rhythm \in Rhythms
      PROVE  LET m == [l EXCEPT !.sequence = "custom", !.times = rhythm]
             IN  /\ m \in Led /\ m.sequence = "custom" /\ m.pin = l.pin /\ m.state = l.state
                 /\ m.invert = l.invert /\ m.mode = l.mode /\ m.lastStatus = l.lastStatus
  <2>1. rhythm \in LedTimes
    BY DEF LedTimes
  <2> QED
    BY <2>1 DEF Led
<1>4. LET m == [l EXCEPT !.sequence = "connecting", !.lastStatus = "unknown"]
      IN  /\ m \in Led /\ m.lastStatus = "unknown" /\ m.pin = l.pin /\ m.state = l.state
          /\ m.invert = l.invert /\ m.mode = l.mode
  BY <1>1 DEF Led
<1> QED
  BY <1>2, <1>3, <1>4

\* A pass of the main loop.
LEMMA ChosenLemma ==
  ASSUME NEW l \in Led, status \in Statuses, LedShown(l), LedTold(l)
  PROVE  LET c == Chosen(l)
         IN  /\ c \in Led /\ LedShown(c) /\ LedTold(c) /\ LedFollows(c, status)
             /\ LedFollows(l, status) => c.times = l.times /\ c.state = l.state
<1> DEFINE c == Chosen(l)
<1>1. l.mode \in Modes
  BY LedFields
<1>2. CASE l.mode = "never"
  <2>1. c = [l EXCEPT !.times = <<0, 1000>>]
    BY <1>2 DEF Chosen
  <2>2. <<0, 1000>> \in LedTimes
    <3>1. Durations("ready", "never") = <<0, 1000>> /\ "never" \in Modes
      BY DEF Durations, Modes
    <3> QED
      BY <3>1 DEF LedTimes
  <2>3. /\ c \in Led /\ c.times = <<0, 1000>> /\ c.state = l.state /\ c.pin = l.pin
        /\ c.invert = l.invert /\ c.mode = l.mode /\ c.lastStatus = l.lastStatus
        /\ c.sequence = l.sequence
    BY <2>1, <2>2 DEF Led
  <2> HIDE DEF c
  <2> QED
    BY <1>2, <2>3 DEF LedShown, LedTold, LedFollows, c
<1>3. CASE l.mode # "never" /\ (l.sequence = "custom" \/ l.lastStatus = status)
  <2>1. c = l
    BY <1>3 DEF Chosen
  <2> QED
    BY <1>3, <2>1 DEF LedFollows
<1>4. CASE l.mode # "never" /\ l.sequence # "custom" /\ l.lastStatus # status
  <2> DEFINE seq == SequenceFor(status)
             d == Durations(seq, l.mode)
  <2>1. c = [l EXCEPT !.lastStatus = status, !.sequence = seq, !.times = d]
    BY <1>4 DEF Chosen
  <2>2. /\ seq \in {"connecting", "registering", "ready", "config", "download", "problem"}
        /\ d \in LedTimes
    BY <1>1, SequenceLemma, DurationsLemma
  <2> HIDE DEF seq, d
  <2>3. /\ c \in Led /\ c.times = d /\ c.state = l.state /\ c.pin = l.pin
        /\ c.invert = l.invert /\ c.mode = l.mode /\ c.lastStatus = status
        /\ c.sequence = seq
    BY <2>1, <2>2 DEF Led
  <2> HIDE DEF c
  <2>4. c.times = Durations(SequenceFor(c.lastStatus), c.mode)
    BY <2>3 DEF seq, d
  <2>5. ~LedFollows(l, status)
    BY <1>4 DEF LedFollows
  <2> QED
    BY <1>4, <2>3, <2>4, <2>5 DEF LedShown, LedTold, LedFollows, c
<1> QED
  BY <1>2, <1>3, <1>4

\* What begin() does to an LED that was never lit.
LEMMA SetUpLemma ==
  ASSUME NEW l \in Led, l.times = <<0, 1000>>, l.state = "not", NEW over \in BOOLEAN
  PROVE  LET u == Updated(l, over)
         IN  u \in Led /\ LedShown(u) /\ u.state = "off" /\ u.lastStatus = l.lastStatus
<1>1. 0 \in Range(l.times) /\ l.times[1] = 0 /\ l.times[2] # 0
  BY DEF Range
<1>2. PICK on \in BOOLEAN : on = FALSE
  OBVIOUS
<1> DEFINE v == Lit(l, on)
<1>3. v \in Led /\ LedShown(v) /\ v.state = "off" /\ v.lastStatus = l.lastStatus
  BY <1>2, LitLemma
<1> HIDE DEF v
<1>4. Updated(l, over) = v
  BY <1>1, <1>2, <1>3 DEF Updated, v
<1> QED
  BY <1>3, <1>4

\* An LED that begin() has set up is not lit.
LEMMA LedStarts == IndicatorsInit => LedInv
<1> SUFFICES ASSUME IndicatorsInit PROVE LedInv
  OBVIOUS
<1>1. status = "unknown" /\ settled = "no" /\ led \in LedInit
  BY DEF IndicatorsInit
<1> DEFINE set(inverted, mode) ==
             LET first == Updated([ times |-> <<0, 1000>>, state |-> "not", pin |-> FALSE,
                                    invert |-> inverted, mode |-> mode, sequence |-> "connecting",
                                    lastStatus |-> "unknown" ], FALSE)
             IN  IF first.state = "not" THEN Lit(first, TRUE) ELSE first
<1>2. PICK inverted \in BOOLEAN, mode \in Modes : led = set(inverted, mode)
  <2>1. LedInit = {set(inverted, mode) : inverted \in BOOLEAN, mode \in Modes}
    BY DEF LedInit
  <2> HIDE DEF set
  <2> QED
    BY <1>1, <2>1
<1> DEFINE b == [ times |-> <<0, 1000>>, state |-> "not", pin |-> FALSE, invert |-> inverted,
                  mode |-> mode, sequence |-> "connecting", lastStatus |-> "unknown" ]
           first == Updated(b, FALSE)
<1>3. led = IF first.state = "not" THEN Lit(first, TRUE) ELSE first
  BY <1>2
<1>4. <<0, 1000>> \in LedTimes
  <2>1. Durations("ready", "never") = <<0, 1000>> /\ "never" \in Modes
    BY DEF Durations, Modes
  <2> QED
    BY <2>1 DEF LedTimes
<1>5. "unknown" \in Statuses
  BY DEF Statuses, StatusNumber
<1>6. /\ b.times = <<0, 1000>> /\ b.state = "not" /\ b.sequence = "connecting" /\ b.lastStatus = "unknown"
      /\ b \in Led
  BY <1>4, <1>5 DEF Led
<1>7. /\ first \in Led /\ LedShown(first) /\ first.state = "off" /\ first.lastStatus = "unknown"
  <2> HIDE DEF b
  <2>1. PICK over \in BOOLEAN : over = FALSE
    OBVIOUS
  <2> DEFINE u == Updated(b, over)
  <2>2. u \in Led /\ LedShown(u) /\ u.state = "off" /\ u.lastStatus = b.lastStatus
    BY <1>6, SetUpLemma
  <2>3. u = first
    BY <2>1
  <2> HIDE DEF u, first
  <2> QED
    BY <1>6, <2>2, <2>3
<1>8. led = first
  <2> HIDE DEF first
  <2> QED
    BY <1>3, <1>7
<1> HIDE DEF first
<1> QED
  BY <1>1, <1>5, <1>7, <1>8 DEF LedInv, LedTold

\* Each step keeps what is known of it.
LEMMA LedSteps == LedInv /\ [IndicatorsNext]_indicatorVars => LedInv'
<1> SUFFICES ASSUME LedInv, [IndicatorsNext]_indicatorVars PROVE LedInv'
  OBVIOUS
<1>1. CASE StatusChanges
  <2>1. PICK new \in DOMAIN Texts : status' = new
    BY <1>1 DEF StatusChanges
  <2>2. settled' = "no" /\ led' = led
    BY <1>1 DEF StatusChanges
  <2>3. new \in Statuses
    BY IndicatorsAssumption
  <2> QED
    BY <2>1, <2>2, <2>3 DEF LedInv
<1>2. CASE LogContinues \/ PageStarts \/ PageTakesText \/ UNCHANGED indicatorVars
  <2>1. UNCHANGED <<status, led, settled>>
    BY <1>2 DEF LogContinues, PageStarts, PageTakesText, indicatorVars, statusVars, ledVars
  <2> QED
    BY <2>1 DEF LedInv
<1>3. CASE LedIterates
  <2>1. /\ led' = Chosen(led) /\ settled' = (IF settled = "timer" THEN "timer" ELSE "loop")
        /\ status' = status
    BY <1>3 DEF LedIterates, statusVars
  <2>2. /\ led' \in Led /\ LedShown(led') /\ LedTold(led') /\ LedFollows(led', status)
        /\ LedFollows(led, status) => led'.times = led.times /\ led'.state = led.state
    BY <2>1, ChosenLemma DEF LedInv
  <2>3. settled' = "timer" => LedSteady(led')
    BY <2>1, <2>2 DEF LedInv, LedSteady
  <2> QED
    BY <2>1, <2>2, <2>3 DEF LedInv
<1>4. CASE LedTimer
  <2>1. PICK over \in BOOLEAN : led' = Updated(led, over)
    BY <1>4 DEF LedTimer
  <2>2. settled' = (IF settled = "loop" THEN "timer" ELSE settled) /\ status' = status
    BY <1>4 DEF LedTimer, statusVars
  <2>3. /\ led' \in Led /\ LedShown(led') /\ LedSteady(led')
        /\ led'.times = led.times /\ led'.mode = led.mode /\ led'.sequence = led.sequence
        /\ led'.lastStatus = led.lastStatus
    BY <2>1, UpdatedLemma DEF LedInv
  <2>4. LedTold(led')
    BY <2>3 DEF LedInv, LedTold
  <2>5. settled' # "no" => LedFollows(led', status)
    BY <2>2, <2>3 DEF LedInv, LedFollows
  <2> QED
    BY <2>2, <2>3, <2>4, <2>5 DEF LedInv
<1>5. CASE LedOrdered
  <2>1. settled' = "no" /\ status' = status
    BY <1>5 DEF LedOrdered, statusVars
  <2>2. led' \in Led /\ LedShown(led') /\ LedTold(led')
    <3>1. CASE \E mode \in Modes : led' = [led EXCEPT !.mode = mode, !.lastStatus = "unknown"]
      <4>1. PICK mode \in Modes : led' = [led EXCEPT !.mode = mode, !.lastStatus = "unknown"]
        BY <3>1
      <4>2. /\ led' \in Led /\ led'.lastStatus = "unknown" /\ led'.pin = led.pin
            /\ led'.state = led.state /\ led'.invert = led.invert
        BY <4>1, TellLemma DEF LedInv
      <4> QED
        BY <4>2 DEF LedInv, LedShown, LedTold
    <3>2. CASE \E rhythm \in Rhythms : led' = [led EXCEPT !.sequence = "custom", !.times = rhythm]
      <4>1. PICK rhythm \in Rhythms : led' = [led EXCEPT !.sequence = "custom", !.times = rhythm]
        BY <3>2
      <4>2. /\ led' \in Led /\ led'.sequence = "custom" /\ led'.pin = led.pin
            /\ led'.state = led.state /\ led'.invert = led.invert /\ led'.mode = led.mode
            /\ led'.lastStatus = led.lastStatus
        BY <4>1, TellLemma DEF LedInv
      <4> QED
        BY <4>2 DEF LedInv, LedShown, LedTold
    <3>3. CASE led' = [led EXCEPT !.sequence = "connecting", !.lastStatus = "unknown"]
      <4>1. /\ led' \in Led /\ led'.lastStatus = "unknown" /\ led'.pin = led.pin
            /\ led'.state = led.state /\ led'.invert = led.invert
        BY <3>3, TellLemma DEF LedInv
      <4> QED
        BY <4>1 DEF LedInv, LedShown, LedTold
    <3> QED
      BY <1>5, <3>1, <3>2, <3>3 DEF LedOrdered
  <2> QED
    BY <2>1, <2>2 DEF LedInv
<1> QED
  BY <1>1, <1>2, <1>3, <1>4, <1>5 DEF IndicatorsNext

\* What it says of the LED.
LEMMA LedImplies == LedInv => LedTells
<1> SUFFICES ASSUME LedInv PROVE LedTells
  OBVIOUS
<1>1. led.pin = ((led.state = "on") # led.invert)
  BY DEF LedInv, LedShown
<1>2. ASSUME settled # "no", led.sequence # "custom", status # "unknown"
      PROVE  led.times = IF led.mode = "never" THEN <<0, 1000>>
                         ELSE Durations(SequenceFor(status), led.mode)
  BY <1>2 DEF LedInv, LedTold, LedFollows
<1>3. ASSUME settled = "timer" PROVE LedSteady(led)
  BY <1>3 DEF LedInv
<1> QED
  BY <1>1, <1>2, <1>3 DEF LedTells, LedSteady

\* An LED shows what the device does, once the main loop and the timer have run (status_led.cpp).
THEOREM LedShowsStatus == IndicatorsInit /\ [][IndicatorsNext]_indicatorVars => []LedTells
<1>1. IndicatorsInit => LedInv
  BY LedStarts
<1>2. LedInv /\ [IndicatorsNext]_indicatorVars => LedInv'
  BY LedSteps
<1>3. LedInv => LedTells
  BY LedImplies
<1> QED
  BY <1>1, <1>2, <1>3, PTL

-----------------------------------------------------------------------------
(***************************************************************************)
(* Clocks.  The last second that was counted ends at a whole second since  *)
(* the start.                                                              *)
(***************************************************************************)
Secs(x) == x \div SecondMs

\* A number of milliseconds lies in its second.
LEMMA SecsLemma ==
  ASSUME NEW x \in Nat
  PROVE  Secs(x) \in Nat /\ SecondMs * Secs(x) <= x /\ x < SecondMs * Secs(x) + SecondMs
         /\ x % SecondMs = x - SecondMs * Secs(x)
<1>1. SecondMs \in Nat /\ SecondMs > 0
  BY ClocksAssumption
<1> DEFINE q == x \div SecondMs  r == x % SecondMs
<1>2. q \in Int /\ r \in 0..SecondMs - 1 /\ x = SecondMs * q + r
  BY <1>1, SMT
<1> HIDE DEF q, r
<1>3. q >= 0
  <2> SUFFICES ASSUME q < 0 PROVE FALSE
    BY <1>2
  <2>1. SecondMs * (q + 1) <= 0
    BY <1>1, <1>2, SMT
  <2>2. SecondMs * (q + 1) = SecondMs * q + SecondMs
    BY <1>1, <1>2, SMT
  <2> QED
    BY <1>1, <1>2, <2>1, <2>2, SMT
<1>4. PICK z \in Int : z = SecondMs * q
  BY <1>1, <1>2, SMT
<1>5. q \in Nat /\ z <= x /\ x < z + SecondMs /\ r = x - z
  BY <1>1, <1>2, <1>3, <1>4
<1> QED
  BY <1>4, <1>5 DEF Secs, q, r

\* And in no other one.
LEMMA SecsAre ==
  ASSUME NEW x \in Nat, NEW q \in Int, SecondMs * q <= x, x < SecondMs * q + SecondMs
  PROVE  Secs(x) = q
<1>1. SecondMs \in Nat /\ SecondMs > 0
  BY ClocksAssumption
<1>2. PICK d \in Nat : d = Secs(x) /\ SecondMs * d <= x /\ x < SecondMs * d + SecondMs
  BY SecsLemma
<1>3. ~(d >= q + 1)
  <2> SUFFICES ASSUME d >= q + 1 PROVE FALSE
    OBVIOUS
  <2>1. SecondMs * d >= SecondMs * (q + 1)
    BY <1>1, SMT
  <2>2. SecondMs * (q + 1) = SecondMs * q + SecondMs
    BY <1>1, SMT
  <2> QED
    BY <1>1, <1>2, <2>1, <2>2, SMT
<1>4. ~(q >= d + 1)
  <2> SUFFICES ASSUME q >= d + 1 PROVE FALSE
    OBVIOUS
  <2>1. SecondMs * q >= SecondMs * (d + 1)
    BY <1>1, SMT
  <2>2. SecondMs * (d + 1) = SecondMs * d + SecondMs
    BY <1>1, SMT
  <2> QED
    BY <1>1, <1>2, <2>1, <2>2, SMT
<1> QED
  BY <1>2, <1>3, <1>4

\* The seconds of some milliseconds are not fewer than those that they reach.
LEMMA SecsReach ==
  ASSUME NEW x \in Nat, NEW a \in Int, SecondMs * a <= x PROVE a <= Secs(x)
<1>1. SecondMs \in Nat /\ SecondMs > 0
  BY ClocksAssumption
<1>2. PICK d \in Nat : d = Secs(x) /\ x < SecondMs * d + SecondMs
  BY SecsLemma
<1>3. ~(a >= d + 1)
  <2> SUFFICES ASSUME a >= d + 1 PROVE FALSE
    OBVIOUS
  <2>1. SecondMs * a >= SecondMs * (d + 1)
    BY <1>1, SMT
  <2>2. SecondMs * (d + 1) = SecondMs * d + SecondMs
    BY <1>1, SMT
  <2> QED
    BY <1>1, <1>2, <2>1, <2>2, SMT
<1> QED
  BY <1>2, <1>3

\* Counted from a whole second on, they are those since then.
LEMMA SecsSince ==
  ASSUME NEW m \in Nat, NEW k \in Nat, SecondMs * k <= m
  PROVE  Secs(m - SecondMs * k) = Secs(m) - k /\ k <= Secs(m)
<1>1. SecondMs \in Nat /\ SecondMs > 0
  BY ClocksAssumption
<1>2. PICK q \in Nat : q = Secs(m) /\ SecondMs * q <= m /\ m < SecondMs * q + SecondMs
  BY SecsLemma
<1>3. k <= q
  BY <1>2, SecsReach
<1> DEFINE y == SecondMs * k
<1>4. y \in Nat /\ m - y \in Nat
  BY <1>1, SMT
<1>5. SecondMs * (q - k) = SecondMs * q - SecondMs * k
  BY <1>1, <1>2, SMT
<1>6. SecondMs * (q - k) <= m - y /\ m - y < SecondMs * (q - k) + SecondMs
  BY <1>1, <1>2, <1>4, <1>5, SMT
<1> HIDE DEF y
<1>7. Secs(m - y) = q - k
  BY <1>2, <1>4, <1>6, SecsAre
<1> QED
  BY <1>2, <1>3, <1>7 DEF y

\* A millisecond more is in the same second, or begins the next one.
LEMMA SecsNext ==
  ASSUME NEW m \in Nat
  PROVE  IF (m + 1) % SecondMs = 0 THEN Secs(m + 1) = Secs(m) + 1 ELSE Secs(m + 1) = Secs(m)
<1>1. SecondMs \in Nat /\ SecondMs > 0
  BY ClocksAssumption
<1>2. PICK q \in Nat : q = Secs(m) /\ SecondMs * q <= m /\ m < SecondMs * q + SecondMs
  BY SecsLemma
<1>3. PICK p \in Nat : p = m + 1
  BY SMT
<1>4. PICK n \in Nat : n = Secs(p) /\ SecondMs * n <= p /\ p % SecondMs = p - SecondMs * n
  BY SecsLemma
<1>5. PICK z \in Nat : z = SecondMs * q
  BY <1>1, <1>2, SMT
<1>6. SecondMs * (q + 1) = z + SecondMs
  BY <1>1, <1>2, <1>5, SMT
<1>7. ASSUME m + 1 = z + SecondMs PROVE Secs(p) = Secs(m) + 1 /\ p % SecondMs = 0
  <2>1. SecondMs * (q + 1) <= p /\ p < SecondMs * (q + 1) + SecondMs /\ q + 1 \in Int
    BY <1>1, <1>3, <1>6, <1>7, SMT
  <2>2. n = q + 1
    BY <1>3, <1>4, <2>1, SecsAre
  <2>3. p % SecondMs = 0
    BY <1>1, <1>3, <1>4, <1>6, <1>7, <2>2, SMT
  <2> QED
    BY <1>2, <1>4, <2>2, <2>3
<1>8. ASSUME m + 1 # z + SecondMs PROVE Secs(p) = Secs(m) /\ p % SecondMs # 0
  <2>1. SecondMs * q <= p /\ p < SecondMs * q + SecondMs /\ q \in Int
    BY <1>1, <1>2, <1>3, <1>5, <1>8, SMT
  <2>2. n = q
    BY <1>3, <1>4, <2>1, SecsAre
  <2>3. p % SecondMs # 0
    BY <1>1, <1>2, <1>3, <1>4, <1>5, <1>8, <2>2, SMT
  <2> QED
    BY <1>2, <1>4, <2>2, <2>3
<1>9. IF p % SecondMs = 0 THEN Secs(p) = Secs(m) + 1 ELSE Secs(p) = Secs(m)
  BY <1>7, <1>8
<1> QED
  BY <1>3, <1>9, SMT DEF Secs

\* A number below another one is the rest of itself.
LEMMA RestOfSmall ==
  ASSUME NEW n \in Nat, NEW x \in Nat, x < n PROVE x % n = x
<1> DEFINE q == x \div n  r == x % n
<1>1. q \in Int /\ r \in 0 .. n - 1 /\ x = n * q + r
  BY SMT
<1> HIDE DEF q, r
<1>2. ~(q >= 1)
  <2> SUFFICES ASSUME q >= 1 PROVE FALSE
    OBVIOUS
  <2>1. n * q >= n * 1 /\ n * 1 = n
    BY <1>1, SMT
  <2> QED
    BY <1>1, <2>1, SMT
<1>3. ~(q <= -1)
  <2> SUFFICES ASSUME q <= -1 PROVE FALSE
    OBVIOUS
  <2>1. n * q <= n * (-1) /\ n * (-1) = -n
    BY <1>1, SMT
  <2> QED
    BY <1>1, <2>1, SMT
<1>4. q = 0
  BY <1>1, <1>2, <1>3
<1>5. n * 0 = 0
  BY SMT
<1> QED
  BY <1>1, <1>4, <1>5 DEF r

\* A rest is below its divisor.
LEMMA RestIsBelow ==
  ASSUME NEW n \in Nat, n > 0, NEW x \in Int PROVE x % n \in 0 .. n - 1
BY SMT

\* The two parts of a time, each with its seconds.
LEMMA SecsSplit ==
  ASSUME NEW c \in Nat, NEW d \in Nat
  PROVE  /\ Secs(c) + Secs(d) <= Secs(c + d) /\ Secs(c + d) <= Secs(c) + Secs(d) + 1
         /\ (c + d) - (d % SecondMs) \in Nat /\ Secs((c + d) - (d % SecondMs)) = Secs(c) + Secs(d)
<1>1. PICK S \in Nat : S = SecondMs /\ S > 0
  BY ClocksAssumption
<1>2. PICK a \in Nat, b \in Nat, q \in Nat :
        /\ a = Secs(c) /\ b = Secs(d) /\ q = Secs(c + d)
        /\ S * a <= c /\ c < S * a + S /\ S * b <= d /\ d < S * b + S
        /\ S * q <= c + d /\ c + d < S * q + S /\ d % S = d - S * b
  <2>1. c + d \in Nat
    OBVIOUS
  <2> QED
    BY <1>1, <2>1, SecsLemma
<1>3. PICK x \in Nat, y \in Nat : x = S * a /\ y = S * b
  BY <1>1, SMT
<1>4. S * (a + b) = x + y
  BY <1>1, <1>2, <1>3, SMT
<1>5. a + b <= q
  <2>1. S * (a + b) <= c + d /\ c + d \in Nat /\ a + b \in Int
    BY <1>1, <1>2, <1>3, <1>4
  <2> QED
    BY <1>1, <1>2, <2>1, SecsReach
<1>6. ~(q >= a + b + 2)
  <2> SUFFICES ASSUME q >= a + b + 2 PROVE FALSE
    OBVIOUS
  <2>1. S * q >= S * (a + b + 2) /\ S * (a + b + 2) = S * (a + b) + S + S
    BY <1>1, SMT
  <2>2. S * q >= x + y + S + S
    BY <1>4, <2>1
  <2>3. PICK z \in Nat : z = S * q
    BY <1>1, SMT
  <2> QED
    BY <1>1, <1>2, <1>3, <2>2, <2>3
<1>7. (c + d) - (d % S) = c + y /\ c + y \in Nat
  BY <1>2, <1>3
<1>8. Secs(c + y) = a + b
  <2>1. S * (a + b) <= c + y /\ c + y < S * (a + b) + S /\ a + b \in Int
    BY <1>1, <1>2, <1>3, <1>4
  <2> QED
    BY <1>1, <1>7, <2>1, SecsAre
<1>9. Secs((c + d) - (d % SecondMs)) = a + b /\ (c + d) - (d % SecondMs) \in Nat
  BY <1>1, <1>7, <1>8
<1>10. a + b <= q /\ q <= a + b + 1
  BY <1>2, <1>5, <1>6
<1> QED
  BY <1>2, <1>9, <1>10

\* What a count is made of, whatever millis() was before.
LEMMA CountNumbers ==
  ASSUME NEW last \in Int, millis \in Int
  PROVE  /\ WholeSeconds(last) \in Int /\ PartOfSecond(last) \in Nat /\ PartOfSecond(last) < SecondMs
         /\ CountedTo(last) \in 0 .. LongWidth - 1
<1>1. SecondMs \in Nat /\ SecondMs > 0 /\ LongWidth \in Nat /\ LongWidth > 0 /\ HalfInt \in Nat /\ HalfInt > 0
  BY ClocksAssumption
<1>2. PICK e \in Nat : e = Elapsed(last)
  <2>1. millis - last \in Int
    OBVIOUS
  <2>2. (millis - last) % LongWidth \in 0 .. LongWidth - 1
    BY <1>1, <2>1, RestIsBelow
  <2> QED
    BY <1>1, <2>2 DEF Elapsed
<1>3. PICK s \in Nat : s = e \div SecondMs
  BY SecsLemma DEF Secs
<1>4. s % (2 * HalfInt) \in Int
  <2>1. 2 * HalfInt \in Nat /\ 2 * HalfInt > 0
    BY <1>1
  <2> QED
    BY <2>1, RestIsBelow
<1>5. AsInt(s) \in Int
  BY <1>1, <1>4 DEF AsInt
<1>6. e % SecondMs \in 0 .. SecondMs - 1
  BY <1>1, RestIsBelow
<1>7. (millis - (e % SecondMs)) % LongWidth \in 0 .. LongWidth - 1
  <2>1. millis - (e % SecondMs) \in Int
    BY <1>1, <1>6
  <2> QED
    BY <1>1, <2>1, RestIsBelow
<1> QED
  BY <1>1, <1>2, <1>3, <1>5, <1>6, <1>7 DEF WholeSeconds, PartOfSecond, CountedTo

\* Where millis() has not begun again, it is what has passed, if that fits into an int.
LEMMA CountIsTrue ==
  ASSUME millis \in Nat, millis < LongWidth, NEW last \in Nat, last <= millis
  PROVE  /\ Elapsed(last) = millis - last /\ PartOfSecond(last) = (millis - last) % SecondMs
         /\ PartOfSecond(last) <= millis - last /\ CountedTo(last) = millis - PartOfSecond(last)
         /\ CanCount(last, FALSE) => WholeSeconds(last) = Secs(millis - last)
<1>1. SecondMs \in Nat /\ SecondMs > 0 /\ LongWidth \in Nat /\ HalfInt \in Nat /\ HalfInt > 0
  BY ClocksAssumption
<1>2. PICK d \in Nat : d = millis - last /\ d < LongWidth /\ d <= millis
  BY <1>1
<1>3. Elapsed(last) = d
  BY <1>1, <1>2, RestOfSmall DEF Elapsed
<1>4. PICK s \in Nat : s = Secs(d) /\ SecondMs * s <= d /\ d % SecondMs = d - SecondMs * s
  BY <1>2, SecsLemma
<1>5. PICK z \in Nat : z = SecondMs * s
  BY <1>1, SMT
<1>6. d % SecondMs \in Nat /\ d % SecondMs <= d
  BY <1>2, <1>4, <1>5
<1>7. CountedTo(last) = millis - (d % SecondMs)
  <2>1. millis - (d % SecondMs) \in Nat /\ millis - (d % SecondMs) < LongWidth
    BY <1>1, <1>2, <1>6
  <2>2. (millis - (d % SecondMs)) % LongWidth = millis - (d % SecondMs)
    BY <1>1, <2>1, RestOfSmall
  <2> QED
    BY <1>3, <2>2 DEF CountedTo, PartOfSecond
<1>8. ASSUME s < HalfInt PROVE AsInt(s) = s
  <2>1. 2 * HalfInt \in Nat /\ s < 2 * HalfInt
    BY <1>1, <1>8
  <2>2. s % (2 * HalfInt) = s
    BY <2>1, RestOfSmall
  <2> QED
    BY <1>8, <2>2 DEF AsInt
<1> QED
  BY <1>2, <1>3, <1>4, <1>6, <1>7, <1>8 DEF PartOfSecond, WholeSeconds, CanCount, Secs

-----------------------------------------------------------------------------
\* The types, and while millis() has not begun again since the timer counted, it shows what has
\* passed since.
ClocksTyped ==
  /\ ClocksTypeOK
  /\ clock.wrapped => SecondMs <= now
  /\ ~clock.wrapped => clock.last <= millis /\ now - clock.counted = millis - clock.last
UptimeRecords ==
  [ device : Nat, connection : Nat, last : 0 .. LongWidth - 1, cause : Causes \cup {"unknown"},
    accept : BOOLEAN, strayed : BOOLEAN ]
ClockRecords ==
  [ platform : {"avr", "esp", "linux"}, ready : BOOLEAN, localtime : Int, last : 0 .. LongWidth - 1,
    asked : 0 .. MostTime, system : Int, counted : Nat, wrapped : BOOLEAN, trusted : BOOLEAN ]

\* The numbers of a state of the clocks.
LEMMA ClockNumbers ==
  ClocksTyped =>
    /\ SecondMs \in Nat /\ SecondMs > 0 /\ MostDelay \in Nat /\ MostTime \in Nat /\ LongWidth \in Nat
    /\ now \in Nat /\ now <= MostTime /\ MostTime < LongWidth /\ millis \in Nat /\ millis <= now
    /\ connectedAt \in Nat /\ connectedAt <= now /\ answer \in Int
    /\ firstLoss \in Causes \cup {"unknown", "none"}
    /\ uptime \in UptimeRecords /\ clock \in ClockRecords /\ clock.counted <= now
    /\ clock.last \in Nat /\ clock.counted \in Nat /\ clock.system \in Int /\ clock.localtime \in Int
    /\ uptime.last \in Nat /\ uptime.device \in Nat /\ uptime.connection \in Nat
<1> SUFFICES ASSUME ClocksTyped
             PROVE  /\ SecondMs \in Nat /\ SecondMs > 0 /\ MostDelay \in Nat /\ MostTime \in Nat /\ LongWidth \in Nat
                    /\ now \in Nat /\ now <= MostTime /\ MostTime < LongWidth /\ millis \in Nat /\ millis <= now
                    /\ connectedAt \in Nat /\ connectedAt <= now /\ answer \in Int
                    /\ firstLoss \in Causes \cup {"unknown", "none"}
                    /\ uptime \in UptimeRecords /\ clock \in ClockRecords /\ clock.counted <= now
                    /\ clock.last \in Nat /\ clock.counted \in Nat /\ clock.system \in Int /\ clock.localtime \in Int
                    /\ uptime.last \in Nat /\ uptime.device \in Nat /\ uptime.connection \in Nat
  OBVIOUS
<1>1. SecondMs \in Nat /\ SecondMs > 0 /\ MostDelay \in Nat /\ MostTime \in Nat /\ LongWidth \in Nat
      /\ MostTime < LongWidth
  BY ClocksAssumption
<1>2. ClocksTypeOK
  BY DEF ClocksTyped
<1>3. /\ now \in Nat /\ now <= MostTime /\ millis \in Nat /\ millis <= now
      /\ connectedAt \in Nat /\ connectedAt <= now /\ answer \in Int
      /\ firstLoss \in Causes \cup {"unknown", "none"}
  BY <1>1, <1>2 DEF ClocksTypeOK
<1>4. /\ uptime \in UptimeRecords /\ uptime.last \in Nat /\ uptime.device \in Nat /\ uptime.connection \in Nat
  BY <1>1, <1>2 DEF ClocksTypeOK, UptimeRecords
<1>5. /\ clock \in ClockRecords /\ clock.counted <= now /\ clock.last \in Nat /\ clock.counted \in Nat
      /\ clock.system \in Int /\ clock.localtime \in Int
  BY <1>1, <1>2, <1>3 DEF ClocksTypeOK, ClockRecords
<1> QED
  BY <1>1, <1>3, <1>4, <1>5

\* And they make such a state.
LEMMA ClocksFromNumbers ==
  ASSUME now \in Nat, now <= MostTime, millis \in Nat, millis <= now, connectedAt \in Nat, connectedAt <= now,
         answer \in Int, firstLoss \in Causes \cup {"unknown", "none"},
         uptime \in UptimeRecords, clock \in ClockRecords, clock.counted <= now,
         clock.wrapped => SecondMs <= now,
         ~clock.wrapped => clock.last <= millis /\ now - clock.counted = millis - clock.last
  PROVE  ClocksTyped
<1>1. MostTime \in Nat
  BY ClocksAssumption
<1>2. clock.counted \in 0 .. now
  BY DEF ClockRecords
<1>3. clock \in [ platform : {"avr", "esp", "linux"}, ready : BOOLEAN, localtime : Int,
                  last : 0 .. LongWidth - 1, asked : 0 .. MostTime, system : Int, counted : 0 .. now,
                  wrapped : BOOLEAN, trusted : BOOLEAN ]
  BY <1>2 DEF ClockRecords
<1> QED
  BY <1>1, <1>3 DEF ClocksTyped, ClocksTypeOK, UptimeRecords

\* After a step as well.
LEMMA ClocksFromNumbersNext ==
  ASSUME now' \in Nat, now' <= MostTime, millis' \in Nat, millis' <= now',
         connectedAt' \in Nat, connectedAt' <= now',
         answer' \in Int, firstLoss' \in Causes \cup {"unknown", "none"},
         uptime' \in UptimeRecords, clock' \in ClockRecords, clock'.counted <= now',
         clock'.wrapped => SecondMs <= now',
         ~clock'.wrapped => clock'.last <= millis' /\ now' - clock'.counted = millis' - clock'.last
  PROVE  ClocksTyped'
<1>1. MostTime \in Nat
  BY ClocksAssumption
<1>2. clock'.counted \in 0 .. now'
  BY DEF ClockRecords
<1>3. clock' \in [ platform : {"avr", "esp", "linux"}, ready : BOOLEAN, localtime : Int,
                   last : 0 .. LongWidth - 1, asked : 0 .. MostTime, system : Int, counted : 0 .. now',
                   wrapped : BOOLEAN, trusted : BOOLEAN ]
  BY <1>2 DEF ClockRecords
<1> QED
  BY <1>1, <1>3 DEF ClocksTyped, ClocksTypeOK, UptimeRecords

\* It holds at the start.
LEMMA ClocksTypedStart == ClocksInit => ClocksTyped
<1> SUFFICES ASSUME ClocksInit PROVE ClocksTyped
  OBVIOUS
<1>1. SecondMs \in Nat /\ SecondMs > 0 /\ MostTime \in Nat /\ LongWidth \in Nat /\ LongWidth > 0
  BY ClocksAssumption
<1>2. 0 \in 0 .. LongWidth - 1 /\ 0 \in 0 .. MostTime
  BY <1>1
<1>p. PICK p \in {"avr", "esp", "linux"} :
        clock = [ platform |-> p, ready |-> FALSE, localtime |-> 0, last |-> 0, asked |-> 0,
                  system |-> IF p = "linux" THEN Epoch ELSE 0,
                  counted |-> 0, wrapped |-> FALSE, trusted |-> FALSE ]
  BY DEF ClocksInit
<1>s. PICK sys \in Int : sys = IF p = "linux" THEN Epoch ELSE 0
  BY DEF Epoch
<1>3. clock = [ platform |-> p, ready |-> FALSE, localtime |-> 0, last |-> 0, asked |-> 0,
                  system |-> sys, counted |-> 0, wrapped |-> FALSE, trusted |-> FALSE ]
  BY <1>p, <1>s
<1>4. clock \in ClockRecords /\ clock.counted = 0 /\ clock.wrapped = FALSE /\ clock.last = 0
  BY <1>2, <1>3 DEF ClockRecords
<1>5. uptime \in UptimeRecords
  BY <1>2 DEF ClocksInit, UptimeRecords
<1> QED
  BY <1>1, <1>4, <1>5, ClocksFromNumbers DEF ClocksInit

\* A count of the timer.
LEMMA TimerTyped == ClocksTyped /\ ClockTimer => ClocksTyped'
<1> SUFFICES ASSUME ClocksTyped, ClockTimer PROVE ClocksTyped'
  OBVIOUS
<1>1. UNCHANGED <<now, millis, uptime, firstLoss, connectedAt, answer>>
  BY DEF ClockTimer
<1>0. /\ SecondMs \in Nat /\ SecondMs > 0 /\ LongWidth \in Nat /\ now \in Nat
      /\ millis \in Nat /\ millis <= now /\ millis < LongWidth /\ clock.last \in Nat
      /\ clock.counted \in Nat /\ clock.counted <= now
  BY ClockNumbers
<1>2. PICK n \in Int, part \in Nat, to \in 0 .. LongWidth - 1 :
        /\ n = WholeSeconds(clock.last) /\ part = PartOfSecond(clock.last) /\ to = CountedTo(clock.last)
        /\ part < SecondMs
  <2>1. clock.last \in Int /\ millis \in Int
    BY <1>0
  <2> QED
    BY <2>1, CountNumbers
<1>3. CASE ~(clock.ready /\ n > 0)
  <2>1. clock' = clock
    BY <1>2, <1>3 DEF ClockTimer
  <2> QED
    BY <1>1, <2>1 DEF ClocksTyped, ClocksTypeOK
<1>4. CASE clock.ready /\ n > 0
  <2>1. PICK there \in Int, sys \in Int, t \in BOOLEAN :
          clock' = [clock EXCEPT !.last = to, !.localtime = there, !.system = sys, !.counted = now - part,
                                 !.wrapped = clock.wrapped /\ millis < part, !.trusted = t]
    <3>1. clock.localtime + n \in Int
          /\ (IF clock.platform = "avr" THEN clock.system + n ELSE clock.system) \in Int
      BY <1>2, ClockNumbers
    <3>2. (clock.trusted /\ CanCount(clock.last, clock.wrapped)) \in BOOLEAN
      BY ClockNumbers DEF ClockRecords
    <3>3. clock' = [clock EXCEPT !.last = to, !.localtime = clock.localtime + n,
                                 !.system = IF clock.platform = "avr" THEN clock.system + n ELSE clock.system,
                                 !.counted = now - part, !.wrapped = clock.wrapped /\ millis < part,
                                 !.trusted = clock.trusted /\ CanCount(clock.last, clock.wrapped)]
      BY <1>2, <1>4 DEF ClockTimer
    <3> QED
      BY <3>1, <3>2, <3>3
  <2>2. part <= now /\ now - part \in Nat
    <3>1. CASE clock.wrapped
      BY <1>2, <3>1, ClockNumbers DEF ClocksTyped
    <3>2. CASE ~clock.wrapped
      <4>1. clock.last <= millis
        BY <3>2 DEF ClocksTyped
      <4>2. part <= millis - clock.last
        BY <1>0, <1>2, <4>1, CountIsTrue
      <4> QED
        BY <1>2, <4>2, ClockNumbers
    <3> QED
      BY <3>1, <3>2
  <2>3. /\ clock' \in ClockRecords /\ clock'.counted = now - part /\ clock'.last = to
        /\ clock'.wrapped = (clock.wrapped /\ millis < part)
    BY <1>2, <2>1, <2>2, ClockNumbers DEF ClockRecords
  <2>4. clock'.wrapped => SecondMs <= now
    BY <2>3 DEF ClocksTyped
  <2>5. ASSUME ~(clock.wrapped /\ millis < part) PROVE to = millis - part /\ part <= millis
    <3>1. CASE clock.wrapped
      <4>1. millis - part \in Nat /\ millis - part < LongWidth /\ part <= millis
        BY <1>2, <2>5, <3>1, ClockNumbers
      <4> QED
        BY <1>2, <4>1, ClockNumbers, RestOfSmall DEF CountedTo
    <3>2. CASE ~clock.wrapped
      <4>1. clock.last <= millis
        BY <3>2 DEF ClocksTyped
      <4>2. part <= millis - clock.last /\ to = millis - part
        BY <1>0, <1>2, <4>1, CountIsTrue
      <4> QED
        BY <1>2, <4>2, ClockNumbers
    <3> QED
      BY <3>1, <3>2
  <2>6. ~clock'.wrapped => clock'.last <= millis /\ now - clock'.counted = millis - clock'.last
    <3> SUFFICES ASSUME ~clock'.wrapped PROVE clock'.last <= millis /\ now - clock'.counted = millis - clock'.last
      OBVIOUS
    <3>1. ~(clock.wrapped /\ millis < part)
      BY <2>3
    <3>2. to = millis - part /\ part <= millis
      BY <2>5, <3>1
    <3>3. now - (now - part) = part /\ millis - (millis - part) = part /\ millis - part <= millis
      BY <1>0, <1>2
    <3> QED
      BY <2>3, <3>2, <3>3
  <2>7. clock'.counted <= now
    BY <1>2, <2>3, ClockNumbers
  <2> QED
    BY <1>1, <2>3, <2>4, <2>6, <2>7, ClockNumbers, ClocksFromNumbersNext
<1> QED
  BY <1>3, <1>4

\* And after every step of the clocks.
LEMMA ClocksStayTyped == ClocksTyped /\ [UptimeNext \/ ClockNext]_clockVars => ClocksTyped'
<1> SUFFICES ASSUME ClocksTyped, [UptimeNext \/ ClockNext]_clockVars PROVE ClocksTyped'
  OBVIOUS
<1>0. /\ now \in Nat /\ now <= MostTime /\ millis \in Nat /\ millis <= now /\ MostTime \in Nat
      /\ connectedAt \in Nat /\ connectedAt <= now /\ answer \in Int
      /\ firstLoss \in Causes \cup {"unknown", "none"}
      /\ uptime \in UptimeRecords /\ clock \in ClockRecords
      /\ clock.last \in Nat /\ clock.counted \in Nat /\ clock.counted <= now
      /\ SecondMs \in Nat /\ uptime.last \in Nat
  BY ClockNumbers
<1>i. /\ clock.wrapped => SecondMs <= now
      /\ ~clock.wrapped => clock.last <= millis /\ now - clock.counted = millis - clock.last
  BY DEF ClocksTyped
<1>1. CASE TimePasses
  <2>1. now' = now + 1 /\ now < MostTime /\ UNCHANGED <<uptime, firstLoss, connectedAt, answer>>
    BY <1>1 DEF TimePasses
  <2>2. PICK again \in BOOLEAN, sys \in Int :
          /\ again => millis + 1 = Width
          /\ millis' = IF again THEN 0 ELSE millis + 1
          /\ clock' = [clock EXCEPT !.wrapped = clock.wrapped \/ again, !.system = sys]
    <3>1. clock.system \in Int
      BY ClockNumbers
    <3>2. PICK sys \in Int :
            sys = IF clock.platform # "avr" /\ (now + 1) % SecondMs = 0 THEN clock.system + 1 ELSE clock.system
      BY <3>1
    <3>3. PICK again \in BOOLEAN : again = (clock.platform # "linux" /\ millis + 1 = Width)
      OBVIOUS
    <3> QED
      BY <1>1, <3>2, <3>3 DEF TimePasses
  <2>3. /\ clock' \in ClockRecords /\ clock'.wrapped = (clock.wrapped \/ again)
        /\ clock'.counted = clock.counted /\ clock'.last = clock.last
    BY <1>0, <2>2 DEF ClockRecords
  <2>4. SecondMs <= Width /\ Width \in Nat
    BY ClocksAssumption
  <2>5. clock'.wrapped => SecondMs <= now'
    BY <1>0, <1>i, <2>1, <2>2, <2>3, <2>4
  <2>6. ~clock'.wrapped => clock'.last <= millis' /\ now' - clock'.counted = millis' - clock'.last
    <3> SUFFICES ASSUME ~clock'.wrapped PROVE clock'.last <= millis' /\ now' - clock'.counted = millis' - clock'.last
      OBVIOUS
    <3>1. ~clock.wrapped /\ ~again
      BY <2>2, <2>3
    <3>2. clock.last <= millis /\ now - clock.counted = millis - clock.last /\ millis' = millis + 1
      BY <1>i, <2>2, <3>1
    <3> QED
      BY <1>0, <2>1, <2>3, <3>2
  <2>7. now' \in Nat /\ now' <= MostTime /\ millis' \in Nat /\ millis' <= now' /\ connectedAt <= now'
        /\ clock'.counted <= now'
    BY <1>0, <2>1, <2>2, <2>3
  <2> QED
    BY <1>0, <2>1, <2>3, <2>5, <2>6, <2>7, ClocksFromNumbersNext
<1>2. CASE UptimeIterates \/ ConnectionMade \/ \E cause \in Causes : ConnectionLost(cause)
  <2>1. UNCHANGED <<now, millis, clock, answer>>
    BY <1>2 DEF UptimeIterates, UptimeCounts, ConnectionMade, ConnectionLost
  <2>2. CASE UptimeIterates
    <3>1. uptime' \in UptimeRecords
      <4>1. PICK n \in Int, to \in 0 .. LongWidth - 1 :
              n = WholeSeconds(uptime.last) /\ to = CountedTo(uptime.last)
        <5>1. uptime.last \in Int /\ millis \in Int
          BY <1>0
        <5> QED
          BY <5>1, CountNumbers
      <4>2. CASE ~(n > 0)
        BY <1>0, <2>2, <4>1, <4>2 DEF UptimeIterates, UptimeCounts
      <4>3. CASE n > 0
        <5>1. PICK s \in BOOLEAN : s = (uptime.strayed \/ ~CanCount(uptime.last, now # millis))
          OBVIOUS
        <5>2. uptime' = [uptime EXCEPT !.last = to, !.device = uptime.device + n,
                                       !.connection = uptime.connection + n, !.strayed = s]
          BY <2>2, <4>1, <4>3, <5>1 DEF UptimeIterates, UptimeCounts
        <5>3. uptime.device + n \in Nat /\ uptime.connection + n \in Nat
          BY <4>1, <4>3, ClockNumbers
        <5> QED
          BY <1>0, <4>1, <5>2, <5>3 DEF UptimeRecords
      <4> QED
        BY <4>2, <4>3
    <3>2. UNCHANGED <<firstLoss, connectedAt>>
      BY <2>2 DEF UptimeIterates, UptimeCounts
    <3> QED
      BY <1>0, <1>i, <2>1, <3>1, <3>2, ClocksFromNumbersNext
  <2>3. CASE ConnectionMade
    <3>1. uptime' \in UptimeRecords /\ firstLoss' = "none" /\ connectedAt' = now
      BY <1>0, <2>3 DEF ConnectionMade, UptimeRecords
    <3> QED
      BY <1>0, <1>i, <2>1, <3>1, ClocksFromNumbersNext
  <2>4. ASSUME NEW cause \in Causes, ConnectionLost(cause) PROVE ClocksTyped'
    <3>1. uptime' \in UptimeRecords
      BY <1>0, <2>4 DEF ConnectionLost, UptimeRecords
    <3>2. firstLoss' \in Causes \cup {"unknown", "none"} /\ connectedAt' = connectedAt
      BY <1>0, <2>4 DEF ConnectionLost
    <3> QED
      BY <1>0, <1>i, <2>1, <3>1, <3>2, ClocksFromNumbersNext
  <2> QED
    BY <1>2, <2>2, <2>3, <2>4
<1>3. CASE ClockAsks \/ ServerAnswers
  <2>1. UNCHANGED <<now, millis, uptime, firstLoss, connectedAt>>
    BY <1>3 DEF ClockAsks, ServerAnswers
  <2>2. answer' \in Int
    <3>1. TrueTime \in Int
      BY <1>0, SecsLemma DEF TrueTime, Epoch, Secs
    <3> QED
      BY <1>0, <1>3, <3>1 DEF ClockAsks, ServerAnswers
  <2>3. /\ clock' \in ClockRecords /\ clock'.wrapped = clock.wrapped
        /\ clock'.counted = clock.counted /\ clock'.last = clock.last
    <3>1. CASE ClockAsks
      <4>1. millis \in 0 .. MostTime
        BY <1>0
      <4> QED
        BY <1>0, <3>1, <4>1 DEF ClockAsks, ClockRecords
    <3>2. CASE ServerAnswers
      <4>1. PICK t \in BOOLEAN : t = (now - clock.counted < 2 * SecondMs)
        <5>1. (now - clock.counted < 2 * SecondMs) = TRUE \/ (now - clock.counted < 2 * SecondMs) = FALSE
          BY SMT
        <5> QED
          BY <5>1
      <4>2. PICK sys \in Int : sys = IF clock.platform = "linux" THEN clock.system ELSE answer
        BY <1>0, ClockNumbers
      <4>3. clock' = [clock EXCEPT !.ready = TRUE, !.localtime = answer, !.system = sys, !.trusted = t]
        BY <3>2, <4>1, <4>2 DEF ServerAnswers
      <4> QED
        BY <1>0, <4>3 DEF ClockRecords
    <3> QED
      BY <1>3, <3>1, <3>2
  <2> QED
    BY <1>0, <1>i, <2>1, <2>2, <2>3, ClocksFromNumbersNext
<1>4. CASE UNCHANGED clockVars
  BY <1>4 DEF clockVars, ClocksTyped, ClocksTypeOK
<1> QED
  BY <1>1, <1>2, <1>3, <1>4, TimerTyped DEF UptimeNext, ClockNext

-----------------------------------------------------------------------------
\* The seconds of the device are those up to where the last pass counted, the connection's lack
\* those before it was made, and only the first cause after a connection is taken.
UptimeRight ==
  /\ uptime.last = SecondMs * uptime.device /\ uptime.last <= now
  /\ uptime.connection <= uptime.device
  /\ SecondMs * (uptime.device - uptime.connection) <= connectedAt
UptimeInv ==
  /\ ~uptime.strayed => UptimeRight
  /\ uptime.accept <=> firstLoss = "none"
  /\ firstLoss # "none" => uptime.cause = firstLoss

\* It holds at the start.
LEMMA UptimeStarts == ClocksInit => UptimeInv
<1>1. SecondMs \in Nat /\ SecondMs > 0
  BY ClocksAssumption
<1>2. SecondMs * 0 = 0 /\ SecondMs * (0 - 0) = 0
  BY <1>1, SMT
<1> QED
  BY <1>2 DEF ClocksInit, UptimeInv, UptimeRight

\* A pass counts the whole seconds since the last one that counted some.
LEMMA PassCounts == ClocksTyped /\ UptimeInv /\ UptimeIterates => UptimeInv'
<1> SUFFICES ASSUME ClocksTyped, UptimeInv, UptimeIterates PROVE UptimeInv'
  OBVIOUS
<1>1. PICK S \in Nat, d \in Nat, c \in Nat, at \in Nat :
        S = SecondMs /\ S > 0 /\ d = uptime.device /\ c = uptime.connection /\ at = connectedAt
  BY ClockNumbers
<1>2. UNCHANGED <<now, firstLoss, connectedAt>>
  BY DEF UptimeIterates, UptimeCounts
<1>3. CASE ~(WholeSeconds(uptime.last) > 0)
  <2>1. uptime' = uptime
    BY <1>3 DEF UptimeIterates, UptimeCounts
  <2> QED
    BY <1>2, <2>1 DEF UptimeInv, UptimeRight
<1>4. CASE WholeSeconds(uptime.last) > 0
  <2>1. uptime' = [uptime EXCEPT !.last = CountedTo(uptime.last), !.device = d + WholeSeconds(uptime.last),
                                 !.connection = c + WholeSeconds(uptime.last),
                                 !.strayed = uptime.strayed \/ ~CanCount(uptime.last, now # millis)]
    BY <1>1, <1>4 DEF UptimeIterates, UptimeCounts
  <2>2. /\ uptime'.last = CountedTo(uptime.last) /\ uptime'.device = d + WholeSeconds(uptime.last)
        /\ uptime'.connection = c + WholeSeconds(uptime.last)
        /\ uptime'.strayed = (uptime.strayed \/ ~CanCount(uptime.last, now # millis))
        /\ uptime'.accept = uptime.accept /\ uptime'.cause = uptime.cause
    BY <2>1, ClockNumbers DEF UptimeRecords
  <2>3. ASSUME ~uptime'.strayed PROVE UptimeRight'
    <3>1. ~uptime.strayed /\ CanCount(uptime.last, FALSE) /\ now = millis
      BY <2>2, <2>3 DEF CanCount
    <3>2. PICK m \in Nat, y \in Nat :
            /\ m = millis /\ m = now /\ y = S * d /\ y = uptime.last /\ y <= m /\ c <= d
            /\ S * (d - c) <= at /\ m < LongWidth
      <4>1. UptimeRight
        BY <3>1 DEF UptimeInv
      <4> QED
        BY <1>1, <3>1, <4>1, ClockNumbers DEF UptimeRight
    <3>3. PICK q \in Nat, z \in Nat : q = Secs(m) /\ z = S * q /\ z <= m
      BY <1>1, <3>2, SecsLemma, SMT
    <3>4. Secs(m - y) = q - d /\ d <= q
      BY <1>1, <3>2, <3>3, SecsSince
    <3>5. PartOfSecond(y) = m - z
      <4>1. m - y \in Nat
        BY <3>2
      <4>2. (m - y) % S = (m - y) - S * (q - d)
        BY <1>1, <3>4, <4>1, SecsLemma
      <4>3. S * (q - d) = z - y
        BY <1>1, <3>2, <3>3, SMT
      <4>4. (m - y) - (z - y) = m - z
        BY <3>2, <3>3
      <4> QED
        BY <1>1, <3>2, <4>2, <4>3, <4>4, CountIsTrue
    <3>6. CountedTo(y) = z /\ WholeSeconds(y) = q - d
      <4>1. CountedTo(y) = m - (m - z) /\ WholeSeconds(y) = Secs(m - y)
        BY <3>1, <3>2, <3>5, CountIsTrue
      <4> QED
        BY <3>2, <3>3, <3>4, <4>1
    <3>7. d + (q - d) = q /\ c + (q - d) <= q /\ q - (c + (q - d)) = d - c
      BY <1>1, <3>2, <3>3, <3>4
    <3> QED
      BY <1>1, <1>2, <2>2, <3>2, <3>3, <3>6, <3>7 DEF UptimeRight
  <2> QED
    BY <1>2, <2>2, <2>3 DEF UptimeInv
<1> QED
  BY <1>3, <1>4

\* And it holds after every step of the clocks.
LEMMA UptimeSteps == ClocksTyped /\ UptimeInv /\ (UptimeNext \/ ClockNext) => UptimeInv'
<1> SUFFICES ASSUME ClocksTyped, UptimeInv, UptimeNext \/ ClockNext PROVE UptimeInv'
  OBVIOUS
<1>0. /\ SecondMs \in Nat /\ SecondMs > 0 /\ "none" \notin Causes /\ uptime \in UptimeRecords /\ now \in Nat
  BY ClockNumbers, ClocksAssumption
<1>1. CASE TimePasses
  <2>1. now' = now + 1 /\ UNCHANGED <<uptime, firstLoss, connectedAt>>
    BY <1>1 DEF TimePasses
  <2>2. uptime.last <= now => uptime.last <= now'
    BY <1>0, <2>1, ClockNumbers
  <2> QED
    BY <2>1, <2>2 DEF UptimeInv, UptimeRight
<1>2. CASE UptimeIterates
  BY <1>2, PassCounts
<1>3. CASE ConnectionMade
  <2>1. PICK d \in Nat : d = uptime.device
    BY ClockNumbers
  <2>2. /\ uptime'.last = uptime.last /\ uptime'.device = d /\ uptime'.connection = 0
        /\ uptime'.accept = TRUE /\ uptime'.strayed = uptime.strayed
    BY <1>0, <1>3, <2>1 DEF ConnectionMade, UptimeRecords
  <2>3. now' = now /\ firstLoss' = "none" /\ connectedAt' = now
    BY <1>3 DEF ConnectionMade
  <2>4. 0 <= d /\ d - 0 = d
    OBVIOUS
  <2> QED
    BY <2>1, <2>2, <2>3, <2>4 DEF UptimeInv, UptimeRight
<1>4. ASSUME NEW cause \in Causes, ConnectionLost(cause) PROVE UptimeInv'
  <2>1. UNCHANGED <<now, connectedAt>>
    BY <1>4 DEF ConnectionLost
  <2>2. CASE firstLoss = "none"
    <3>1. uptime.accept
      BY <2>2 DEF UptimeInv
    <3>2. uptime' = [uptime EXCEPT !.cause = cause, !.accept = FALSE] /\ firstLoss' = cause
      BY <1>4, <2>2, <3>1 DEF ConnectionLost
    <3>3. /\ uptime'.last = uptime.last /\ uptime'.device = uptime.device
          /\ uptime'.connection = uptime.connection /\ uptime'.strayed = uptime.strayed
          /\ uptime'.accept = FALSE /\ uptime'.cause = cause
      BY <1>0, <3>2 DEF UptimeRecords
    <3>4. firstLoss' # "none" /\ uptime'.cause = firstLoss'
      BY <1>0, <1>4, <3>2, <3>3
    <3> QED
      BY <2>1, <3>3, <3>4 DEF UptimeInv, UptimeRight
  <2>3. CASE firstLoss # "none"
    <3>1. uptime' = uptime /\ firstLoss' = firstLoss
      BY <1>4, <2>3 DEF ConnectionLost, UptimeInv
    <3> QED
      BY <2>1, <3>1 DEF UptimeInv, UptimeRight
  <2> QED
    BY <2>2, <2>3
<1>5. ASSUME UNCHANGED <<now, uptime, firstLoss, connectedAt>> PROVE UptimeInv'
  BY <1>5 DEF UptimeInv, UptimeRight
<1> QED
  BY <1>1, <1>2, <1>3, <1>4, <1>5 DEF UptimeNext, ClockNext, ClockAsks, ServerAnswers, ClockTimer

\* What it says of the uptime.
LEMMA UptimeImplies == ClocksTyped /\ UptimeInv => UptimeTells
<1> SUFFICES ASSUME ClocksTyped, UptimeInv PROVE UptimeTells
  OBVIOUS
<1>1. PICK S \in Nat, d \in Nat, c \in Nat, at \in Nat :
        S = SecondMs /\ S > 0 /\ d = uptime.device /\ c = uptime.connection /\ at = connectedAt
        /\ now \in Nat
  BY ClockNumbers
<1>2. ASSUME ~uptime.strayed
      PROVE  /\ uptime.last = SecondMs * uptime.device
             /\ Between(uptime.device, 0, now \div SecondMs)
             /\ Between(uptime.connection, uptime.device - (connectedAt + SecondMs) \div SecondMs, uptime.device)
  <2>1. uptime.last = S * d /\ S * d <= now /\ c <= d /\ S * (d - c) <= at
    BY <1>1, <1>2 DEF UptimeInv, UptimeRight
  <2>2. d <= Secs(now) /\ Secs(now) \in Nat
    <3>1. SecondMs * d <= now /\ d \in Int
      BY <1>1, <2>1
    <3> QED
      BY <1>1, <3>1, SecsReach, SecsLemma
  <2>3. d - c <= Secs(at + SecondMs) /\ Secs(at + SecondMs) \in Nat
    <3>1. at + S \in Nat /\ d - c \in Int /\ S * (d - c) <= at + S
      BY <1>1, <2>1, SMT
    <3> QED
      BY <1>1, <3>1, SecsReach, SecsLemma
  <2>4. Between(d, 0, Secs(now))
    BY <1>1, <2>2 DEF Between
  <2>5. Between(c, d - Secs(at + SecondMs), d)
    BY <1>1, <2>1, <2>3 DEF Between
  <2> QED
    BY <1>1, <2>1, <2>4, <2>5 DEF Secs
<1>3. firstLoss # "none" => uptime.cause = firstLoss
  BY DEF UptimeInv
<1> QED
  BY <1>2, <1>3 DEF UptimeTells

-----------------------------------------------------------------------------
\* An answer under way is not too old; the system that counts by itself is as right as the last
\* answer, that of an AVR lacks what the timer has still to count.
AnswerRight ==
  answer # -1 => Between(answer, Epoch + Secs(now) - MostDelay - 1, Epoch + Secs(now))
SystemRight ==
  clock.platform # "avr" /\ (clock.ready \/ clock.platform = "linux") =>
    Between(clock.system, Epoch + Secs(now) - MostDelay - 1, Epoch + Secs(now))
AvrRight ==
  clock.platform = "avr" /\ clock.trusted =>
    Between(clock.system, Epoch + Secs(clock.counted) - MostDelay - 1, Epoch + Secs(clock.counted) + 2)
ClockInv == AnswerRight /\ SystemRight /\ AvrRight

\* The second of zero milliseconds is zero.
LEMMA SecsOfZero == Secs(0) = 0
<1>1. SecondMs \in Nat /\ SecondMs > 0
  BY ClocksAssumption
<1>2. SecondMs * 0 = 0
  BY <1>1, SMT
<1> QED
  BY <1>1, <1>2, SecsAre

\* It holds at the start.
LEMMA ClockStarts == ClocksInit => ClockInv
<1> SUFFICES ASSUME ClocksInit PROVE ClockInv
  OBVIOUS
<1>1. MostDelay \in Nat /\ Secs(0) = 0 /\ now = 0 /\ answer = -1
  BY ClocksAssumption, SecsOfZero DEF ClocksInit
<1>2. clock.ready = FALSE /\ clock.trusted = FALSE /\ (clock.platform = "linux" => clock.system = Epoch)
  BY DEF ClocksInit
<1>3. Between(Epoch, Epoch + 0 - MostDelay - 1, Epoch + 0)
  BY <1>1 DEF Between, Epoch
<1> QED
  BY <1>1, <1>2, <1>3 DEF ClockInv, AnswerRight, SystemRight, AvrRight

\* It holds when time passes.
LEMMA ClockTicks == ClocksTyped /\ ClockInv /\ TimePasses => ClockInv'
<1> SUFFICES ASSUME ClocksTyped, ClockInv, TimePasses PROVE ClockInv'
  OBVIOUS
<1>1. PICK m \in Nat, D \in Nat, sys \in Int, q \in Nat :
        m = now /\ D = MostDelay /\ sys = clock.system /\ q = Secs(m) /\ clock \in ClockRecords
        /\ answer \in Int
  BY ClockNumbers, SecsLemma
<1>2. PICK n \in Nat : n = Secs(m + 1) /\ (IF (m + 1) % SecondMs = 0 THEN n = q + 1 ELSE n = q)
  BY <1>1, SecsNext
<1>3. now' = m + 1 /\ answer' = answer /\ (answer # -1 => Epoch + q - answer <= D)
  <2>1. TrueTime = Epoch + q
    BY <1>1 DEF TrueTime, Secs
  <2>2. now' = now + 1 /\ answer' = answer /\ (answer = -1 \/ TrueTime - answer <= MostDelay)
    BY DEF TimePasses
  <2>3. answer # -1 => Epoch + q - answer <= D
    BY <1>1, <2>1, <2>2 DEF Epoch
  <2> QED
    BY <1>1, <2>2, <2>3
<1>4. /\ clock'.platform = clock.platform /\ clock'.ready = clock.ready
      /\ clock'.counted = clock.counted /\ clock'.trusted = clock.trusted
      /\ clock'.system = IF clock.platform # "avr" THEN sys + (n - q) ELSE sys
  <2>1. PICK w \in BOOLEAN, new \in Int :
          /\ clock' = [clock EXCEPT !.wrapped = w, !.system = new]
          /\ new = IF clock.platform # "avr" /\ (m + 1) % SecondMs = 0 THEN sys + 1 ELSE sys
    <3>1. PICK w \in BOOLEAN : w = (clock.wrapped \/ (clock.platform # "linux" /\ millis + 1 = Width))
      OBVIOUS
    <3>2. PICK new \in Int :
            new = IF clock.platform # "avr" /\ (m + 1) % SecondMs = 0 THEN sys + 1 ELSE sys
      OBVIOUS
    <3> QED
      BY <1>1, <3>1, <3>2 DEF TimePasses
  <2>2. new = IF clock.platform # "avr" THEN sys + (n - q) ELSE sys
    BY <1>2, <2>1
  <2> QED
    BY <1>1, <2>1, <2>2 DEF ClockRecords
<1>5. n = q \/ n = q + 1
  BY <1>2
<1>6. AnswerRight'
  <2> SUFFICES ASSUME answer # -1 PROVE Between(answer, Epoch + n - D - 1, Epoch + n)
    BY <1>1, <1>2, <1>3 DEF AnswerRight, Epoch, Between
  <2>1. Between(answer, Epoch + q - D - 1, Epoch + q)
    BY <1>1 DEF ClockInv, AnswerRight
  <2> QED
    BY <1>1, <1>3, <1>5, <2>1 DEF Between, Epoch
<1>7. SystemRight'
  <2> SUFFICES ASSUME clock.platform # "avr", clock.ready \/ clock.platform = "linux"
               PROVE  Between(sys + (n - q), Epoch + n - D - 1, Epoch + n)
    BY <1>1, <1>2, <1>3, <1>4 DEF SystemRight, Between, Epoch
  <2>1. Between(sys, Epoch + q - D - 1, Epoch + q)
    BY <1>1 DEF ClockInv, SystemRight
  <2> QED
    BY <1>1, <2>1 DEF Between, Epoch
<1>8. AvrRight'
  BY <1>1, <1>4 DEF ClockInv, AvrRight, Between, Epoch
<1> QED
  BY <1>6, <1>7, <1>8 DEF ClockInv

\* It holds when the clock asks for the time.
LEMMA ClockQuestion == ClocksTyped /\ ClockInv /\ ClockAsks => ClockInv'
<1> SUFFICES ASSUME ClocksTyped, ClockInv, ClockAsks PROVE ClockInv'
  OBVIOUS
<1>1. PICK D \in Nat, q \in Nat : D = MostDelay /\ q = Secs(now) /\ clock \in ClockRecords
  BY ClockNumbers, SecsLemma
<1>2. /\ now' = now /\ clock' = [clock EXCEPT !.asked = millis] /\ answer' \in {-1, answer, Epoch + q}
  BY <1>1 DEF ClockAsks, TrueTime, Secs
<1>3. /\ clock'.ready = clock.ready /\ clock'.counted = clock.counted
      /\ clock'.platform = clock.platform /\ clock'.trusted = clock.trusted
      /\ clock'.system = clock.system
  BY <1>1, <1>2 DEF ClockRecords
<1>4. AnswerRight'
  <2>1. Between(Epoch + q, Epoch + q - D - 1, Epoch + q)
    BY <1>1 DEF Between, Epoch
  <2>2. CASE answer' = Epoch + q
    BY <1>1, <1>2, <2>1, <2>2 DEF AnswerRight
  <2>3. CASE answer' = answer
    BY <1>1, <1>2, <2>3 DEF ClockInv, AnswerRight
  <2>4. CASE answer' = -1
    BY <2>4 DEF AnswerRight
  <2> QED
    BY <1>2, <2>2, <2>3, <2>4
<1> QED
  BY <1>2, <1>3, <1>4 DEF ClockInv, SystemRight, AvrRight

\* It holds when the server has answered.
LEMMA ClockAnswered == ClocksTyped /\ ClockInv /\ ServerAnswers => ClockInv'
<1> SUFFICES ASSUME ClocksTyped, ClockInv, ServerAnswers PROVE ClockInv'
  OBVIOUS
<1>1. PICK S \in Nat, D \in Nat, m \in Nat, q \in Nat, at \in Nat, k \in Nat :
        /\ S = SecondMs /\ S > 0 /\ D = MostDelay /\ m = now /\ q = Secs(m) /\ at = clock.counted
        /\ at <= m /\ k = Secs(at) /\ clock \in ClockRecords /\ answer \in Int
  BY ClockNumbers, SecsLemma
<1>2. answer # -1 /\ answer' = -1 /\ now' = now
  BY DEF ServerAnswers
<1>3. Between(answer, Epoch + q - D - 1, Epoch + q)
  BY <1>1, <1>2 DEF ClockInv, AnswerRight
<1>4. /\ clock'.platform = clock.platform /\ clock'.counted = at
      /\ clock'.trusted = (m - at < 2 * S)
      /\ clock'.system = IF clock.platform = "linux" THEN clock.system ELSE answer
  BY <1>1 DEF ServerAnswers, ClockRecords
<1>5. AnswerRight'
  BY <1>2 DEF AnswerRight
<1>6. SystemRight'
  BY <1>1, <1>2, <1>3, <1>4 DEF ClockInv, SystemRight
<1>7. AvrRight'
  <2> SUFFICES ASSUME m - at < 2 * S PROVE Between(answer, Epoch + k - D - 1, Epoch + k + 2)
    BY <1>1, <1>4 DEF AvrRight, Between, Epoch
  <2>1. S * k <= at /\ at < S * k + S /\ S * q <= m
    BY <1>1, SecsLemma
  <2>2. k <= q
    <3>1. S * k <= m
      <4>1. PICK x \in Nat : x = S * k
        BY <1>1, SMT
      <4> QED
        BY <1>1, <2>1, <4>1
    <3> QED
      BY <1>1, <3>1, SecsReach
  <2>3. ~(q >= k + 3)
    <3> SUFFICES ASSUME q >= k + 3 PROVE FALSE
      OBVIOUS
    <3>1. S * q >= S * (k + 3) /\ S * (k + 3) = S * k + S * 3 /\ S * 3 = S + S + S
      BY <1>1, SMT
    <3>2. PICK x \in Nat, y \in Nat : x = S * k /\ y = S * q
      BY <1>1, SMT
    <3> QED
      BY <1>1, <2>1, <3>1, <3>2
  <2> QED
    BY <1>1, <1>3, <2>2, <2>3 DEF Between, Epoch
<1> QED
  BY <1>5, <1>6, <1>7 DEF ClockInv

\* It holds when the timer has counted.
LEMMA ClockCounted == ClocksTyped /\ ClockInv /\ ClockTimer => ClockInv'
<1> SUFFICES ASSUME ClocksTyped, ClockInv, ClockTimer PROVE ClockInv'
  OBVIOUS
<1>1. UNCHANGED <<now, answer>>
  BY DEF ClockTimer
<1>2. CASE ~(clock.ready /\ WholeSeconds(clock.last) > 0)
  <2>1. clock' = clock
    BY <1>2 DEF ClockTimer
  <2> QED
    BY <1>1, <2>1 DEF ClockInv, AnswerRight, SystemRight, AvrRight
<1>3. CASE clock.ready /\ WholeSeconds(clock.last) > 0
  <2>1. clock \in ClockRecords
    BY ClockNumbers
  <2>2. /\ clock'.platform = clock.platform /\ clock'.ready = clock.ready
        /\ clock'.counted = now - PartOfSecond(clock.last)
        /\ clock'.trusted = (clock.trusted /\ CanCount(clock.last, clock.wrapped))
        /\ clock'.system = IF clock.platform = "avr" THEN clock.system + WholeSeconds(clock.last)
                                                     ELSE clock.system
    BY <1>3, <2>1 DEF ClockTimer, ClockRecords
  <2>3. AnswerRight' /\ SystemRight'
    BY <1>1, <2>2 DEF ClockInv, AnswerRight, SystemRight
  <2>4. AvrRight'
    <3> SUFFICES ASSUME clock.platform = "avr", clock.trusted, CanCount(clock.last, clock.wrapped)
                 PROVE  Between(clock.system + WholeSeconds(clock.last),
                                Epoch + Secs(clock'.counted) - MostDelay - 1,
                                Epoch + Secs(clock'.counted) + 2)
      BY <2>2 DEF AvrRight
    <3>1. ~clock.wrapped /\ CanCount(clock.last, FALSE)
      BY DEF CanCount
    <3>2. PICK D \in Nat, at \in Nat, d \in Nat, k \in Nat, n \in Nat, sys \in Int :
            /\ D = MostDelay /\ at = clock.counted /\ d = millis - clock.last /\ now = at + d
            /\ clock.last <= millis /\ k = Secs(at) /\ n = Secs(d) /\ sys = clock.system
      <4>1. clock.last <= millis /\ now - clock.counted = millis - clock.last
        BY <3>1 DEF ClocksTyped
      <4>2. PICK at \in Nat, d \in Nat : at = clock.counted /\ d = millis - clock.last /\ now = at + d
        BY <4>1, ClockNumbers
      <4> QED
        BY <4>1, <4>2, ClockNumbers, SecsLemma
    <3>3. WholeSeconds(clock.last) = n /\ PartOfSecond(clock.last) = d % SecondMs
      <4>1. millis \in Nat /\ millis < LongWidth /\ clock.last \in Nat
        BY ClockNumbers
      <4> QED
        BY <3>1, <3>2, <4>1, CountIsTrue
    <3>4. Secs(clock'.counted) = k + n
      <4>1. clock'.counted = (at + d) - (d % SecondMs)
        BY <2>2, <3>2, <3>3
      <4>2. Secs((at + d) - (d % SecondMs)) = Secs(at) + Secs(d)
        BY <3>2, SecsSplit
      <4> QED
        BY <3>2, <4>1, <4>2
    <3>5. Between(sys, Epoch + k - D - 1, Epoch + k + 2)
      BY <3>2 DEF ClockInv, AvrRight
    <3>6. Between(sys + n, Epoch + (k + n) - D - 1, Epoch + (k + n) + 2)
      BY <3>2, <3>5 DEF Between, Epoch
    <3> QED
      BY <3>2, <3>3, <3>4, <3>6
  <2> QED
    BY <2>3, <2>4 DEF ClockInv
<1> QED
  BY <1>2, <1>3

\* And it holds after every step of the clocks.
LEMMA ClockSteps == ClocksTyped /\ ClockInv /\ (UptimeNext \/ ClockNext) => ClockInv'
<1>1. ASSUME ClockInv, UNCHANGED <<now, clock, answer>> PROVE ClockInv'
  BY <1>1 DEF ClockInv, AnswerRight, SystemRight, AvrRight
<1> QED
  BY <1>1, ClockTicks, ClockQuestion, ClockAnswered, ClockCounted
  DEF UptimeNext, ClockNext, UptimeIterates, UptimeCounts, ConnectionMade, ConnectionLost

\* What it says of the time that is shown.
LEMMA ClockImplies == ClocksTyped /\ ClockInv => ClockTells
<1> SUFFICES ASSUME ClocksTyped, ClockInv PROVE ClockTells
  OBVIOUS
<1>1. PICK D \in Nat, at \in Nat, d \in Nat, q \in Nat, k \in Nat, n \in Nat, sys \in Int :
        /\ D = MostDelay /\ at = clock.counted /\ d = now - at /\ now = at + d
        /\ q = Secs(now) /\ k = Secs(at) /\ n = Secs(d) /\ sys = clock.system
        /\ TrueTime = Epoch + q
  <2>1. PICK at \in Nat, d \in Nat : at = clock.counted /\ d = now - at /\ now = at + d
    BY ClockNumbers
  <2>2. now \in Nat /\ MostDelay \in Nat /\ clock.system \in Int
    BY ClockNumbers
  <2>3. Secs(now) \in Nat /\ Secs(at) \in Nat /\ Secs(d) \in Nat
    BY <2>1, <2>2, SecsLemma
  <2>4. TrueTime = Epoch + Secs(now)
    BY DEF TrueTime, Secs
  <2> QED
    BY <2>1, <2>2, <2>3, <2>4
<1>2. k + n <= q /\ q <= k + n + 1
  <2>1. Secs(at) + Secs(d) <= Secs(at + d) /\ Secs(at + d) <= Secs(at) + Secs(d) + 1
    BY <1>1, SecsSplit
  <2> QED
    BY <1>1, <2>1
<1>n. (now - clock.counted) \div SecondMs = n
  BY <1>1 DEF Secs
<1>3. CASE clock.platform = "avr"
  <2> SUFFICES ASSUME clock.trusted 
               PROVE  Between(PartsShown, TrueTime - MostDelay - 2 - (now - clock.counted) \div SecondMs,
                              TrueTime + 2)
    BY <1>3 DEF ClockTells
  <2>1. Between(sys, Epoch + k - D - 1, Epoch + k + 2)
    BY <1>1, <1>3 DEF ClockInv, AvrRight
  <2>2. Between(sys, Epoch + q - D - 2 - n, Epoch + q + 2)
    BY <1>1, <1>2, <2>1 DEF Between, Epoch
  <2> QED
    BY <1>1, <1>n, <2>2 DEF PartsShown, Between, Epoch
<1>4. CASE clock.platform # "avr"
  <2> SUFFICES ASSUME clock.ready PROVE Between(PartsShown, TrueTime - MostDelay - 1, TrueTime)
    BY <1>4 DEF ClockTells
  <2> QED
    BY <1>1, <1>4 DEF ClockInv, SystemRight, PartsShown, Between, Epoch
<1> QED
  BY <1>3, <1>4

\* Whatever the times of the passes, of the connections and of the answers, the uptime is right
\* until millis() ends, and the time shown is right or will be with the next answer.
THEOREM ClocksAreRight ==
  ClocksInit /\ [][UptimeNext \/ ClockNext]_clockVars => [](ClocksTypeOK /\ ClocksTell)
<1> DEFINE CInv == ClocksTyped /\ UptimeInv /\ ClockInv
<1>1. ClocksInit => CInv
  BY ClocksTypedStart, UptimeStarts, ClockStarts
<1>2. CInv /\ [UptimeNext \/ ClockNext]_clockVars => CInv'
  <2>1. ASSUME CInv, UNCHANGED clockVars PROVE UptimeInv' /\ ClockInv'
    BY <2>1 DEF clockVars, UptimeInv, UptimeRight, ClockInv, AnswerRight, SystemRight, AvrRight
  <2> QED
    BY <2>1, ClocksStayTyped, UptimeSteps, ClockSteps
<1>3. CInv => ClocksTypeOK /\ ClocksTell
  BY UptimeImplies, ClockImplies DEF ClocksTell, ClocksTyped
<1> QED
  BY <1>1, <1>2, <1>3, PTL

-----------------------------------------------------------------------------
(***************************************************************************)
(* The log of the last states: a text is put into it or waits, and the     *)
(* file has it in any case; the buffer ends in a 0.                        *)
(***************************************************************************)
LogInv ==
  /\ logBuffer = [i \in 1 .. LogSize |-> logBuffer[i]] /\ logBuffer[LogSize] = "nul"
  /\ logged \in Seq(Range(Texts)) /\ logFile \in Seq(Range(Texts))
  /\ waiting \in Range(Texts) \cup {<< >>}
  /\ Len(logged) + (IF waiting = << >> THEN 0 ELSE 1) <= Len(logFile)
  /\ Len(logFile) <= MostLogs /\ index \in 0 .. LogSize /\ orders \in 0 .. MostOrders

\* The numbers of the log.
LEMMA LogNumbers == LogSize \in Nat /\ LogSize > 4 /\ MostLogs \in Nat /\ MostOrders \in Nat
BY IndicatorsAssumption

\* A function over the first numbers has that length.
LEMMA LengthLemma ==
  ASSUME NEW n \in Nat, NEW f, f = [i \in 1 .. n |-> f[i]]
  PROVE  Len(f) = n
<1> DEFINE S == {f[i] : i \in 1 .. n}
<1>1. f \in [1 .. n -> S]
  OBVIOUS
<1>2. f \in Seq(S)
  BY <1>1, SeqDef
<1>3. Len(f) \in Nat /\ 1 .. Len(f) = 1 .. n
  BY <1>1, <1>2, LenProperties
<1> QED
  BY <1>3

\* A text is one of those that are logged, or does not fit; the buffer has its end.
LEMMA LoggedLemma ==
  ASSUME LogInv, NEW text \in Range(Texts), Logged(text)
  PROVE  /\ logged' \in Seq(Range(Texts)) /\ Len(logged') <= Len(logged) + 1
         /\ logBuffer' = [i \in 1 .. LogSize |-> logBuffer'[i]] /\ logBuffer'[LogSize] = "nul"
<1>0. logged \in Seq(Range(Texts)) /\ Len(logged) \in Nat
  BY LenProperties DEF LogInv
<1>1. CASE Fits(text)
  <2>1. logged' = <<text>> \o logged /\ logBuffer' = WithText(logBuffer, text)
    BY <1>1 DEF Logged
  <2>2. <<text>> \in Seq(Range(Texts)) /\ Len(<<text>>) = 1
    OBVIOUS
  <2>3. logged' \in Seq(Range(Texts)) /\ Len(logged') = 1 + Len(logged)
    BY <1>0, <2>1, <2>2, ConcatProperties
  <2> DEFINE moved == SubSeq(text \o <<"nul">> \o logBuffer, 1, LogSize)
             cell(i) == IF i = LogSize THEN "nul" ELSE IF i > LogSize - 4 THEN "." ELSE moved[i]
  <2>4. logBuffer' = [i \in 1 .. LogSize |-> cell(i)]
    BY <2>1 DEF WithText
  <2>5. cell(LogSize) = "nul" /\ LogSize \in 1 .. LogSize
    BY LogNumbers
  <2> HIDE DEF cell
  <2>6. /\ logBuffer' = [i \in 1 .. LogSize |-> logBuffer'[i]] /\ logBuffer'[LogSize] = "nul"
    BY <2>4, <2>5
  <2> QED
    BY <1>0, <2>3, <2>6
<1>2. CASE ~Fits(text)
  <2>1. logged' = logged /\ logBuffer' = logBuffer
    BY <1>2 DEF Logged
  <2>2. logBuffer = [i \in 1 .. LogSize |-> logBuffer[i]] /\ logBuffer[LogSize] = "nul"
    BY DEF LogInv
  <2> QED
    BY <1>0, <2>1, <2>2
<1> QED
  BY <1>1, <1>2

\* The end of a text is one of the cells.
LEMMA EndLemma ==
  ASSUME LogInv, HasText(index)
  PROVE  EndOfText(index) + 1 \in 0 .. LogSize
<1> DEFINE S == {j \in index .. LogSize - 1 : logBuffer[j + 1] = "nul"}
<1>1. index \in Nat /\ index < LogSize
  BY LogNumbers DEF LogInv, HasText
<1>2. LogSize - 1 \in index .. LogSize - 1 /\ logBuffer[(LogSize - 1) + 1] = "nul"
  BY <1>1, LogNumbers DEF LogInv
<1>3. LogSize - 1 \in S
  BY <1>2
<1>4. S \subseteq Nat /\ S # {}
  BY <1>1, <1>3
<1>5. \E n \in S : \A k \in S : n <= k
  BY <1>4, LeastLemma
<1>6. EndOfText(index) = Min(S)
  BY DEF EndOfText
<1> HIDE DEF S
<1>7. Min(S) \in S
  BY <1>5 DEF Min
<1>8. EndOfText(index) \in index .. LogSize - 1
  BY <1>6, <1>7 DEF S
<1> QED
  BY <1>1, <1>8, LogNumbers

\* The log starts empty.
LEMMA LogStarts == IndicatorsInit => LogInv
<1> SUFFICES ASSUME IndicatorsInit PROVE LogInv
  OBVIOUS
<1>1. /\ waiting = << >> /\ logged = << >> /\ logFile = << >> /\ logBuffer = EmptyLog /\ index = 0 /\ orders = 0
  BY DEF IndicatorsInit
<1>2. << >> \in Seq(Range(Texts)) /\ Len(<< >>) = 0
  BY EmptySeq
<1>3. LogSize \in 1 .. LogSize
  BY LogNumbers
<1>4. logBuffer = [i \in 1 .. LogSize |-> logBuffer[i]] /\ logBuffer[LogSize] = "nul"
  BY <1>1, <1>3 DEF EmptyLog
<1> QED
  BY <1>1, <1>2, <1>4, LogNumbers DEF LogInv

\* Each step keeps to it.
LEMMA LogSteps == LogInv /\ [IndicatorsNext]_indicatorVars => LogInv'
<1> SUFFICES ASSUME LogInv, [IndicatorsNext]_indicatorVars PROVE LogInv'
  OBVIOUS
<1>0. /\ Len(logged) \in Nat /\ Len(logFile) \in Nat
      /\ logged \in Seq(Range(Texts)) /\ logFile \in Seq(Range(Texts))
      /\ Len(logged) <= Len(logFile) /\ (waiting # << >> => Len(logged) + 1 <= Len(logFile))
  BY LenProperties DEF LogInv
<1>1. CASE StatusChanges
  <2>1. PICK new \in DOMAIN Texts : AddToFile(Texts[new]) /\ LogsOrWaits(Texts[new])
    BY <1>1 DEF StatusChanges
  <2>2. waiting = << >> /\ Len(logFile) < MostLogs /\ UNCHANGED <<index, orders>>
    BY <1>1 DEF StatusChanges
  <2> DEFINE text == Texts[new]
  <2>3. text \in Range(Texts)
    BY DEF Range
  <2>4. text # << >>
    BY <2>3, IndicatorsAssumption
  <2> HIDE DEF text
  <2>5. AddToFile(text) /\ LogsOrWaits(text)
    BY <2>1 DEF text
  <2>6. logFile' \in Seq(Range(Texts)) /\ Len(logFile') = Len(logFile) + 1
    BY <1>0, <2>3, <2>5, AppendProperties DEF AddToFile
  <2>7. Len(logFile') <= MostLogs
    BY <1>0, <2>2, <2>6, LogNumbers
  <2>8. CASE logHeld /\ Fits(text)
    <3>1. waiting' = text /\ UNCHANGED <<logged, logBuffer>>
      BY <2>5, <2>8 DEF LogsOrWaits
    <3>2. Len(logged') + 1 <= Len(logFile')
      BY <1>0, <2>6, <3>1
    <3> QED
      BY <2>2, <2>3, <2>4, <2>6, <2>7, <3>1, <3>2 DEF LogInv
  <2>9. CASE ~(logHeld /\ Fits(text))
    <3>1. Logged(text) /\ waiting' = << >>
      BY <2>5, <2>9 DEF LogsOrWaits
    <3>2. /\ logged' \in Seq(Range(Texts)) /\ Len(logged') <= Len(logged) + 1
          /\ logBuffer' = [i \in 1 .. LogSize |-> logBuffer'[i]] /\ logBuffer'[LogSize] = "nul"
      BY <2>3, <3>1, LoggedLemma
    <3>3. Len(logged') \in Nat
      BY <3>2, LenProperties
    <3>4. Len(logged') + 0 <= Len(logFile')
      BY <1>0, <2>6, <3>2, <3>3
    <3> QED
      BY <2>2, <2>6, <2>7, <3>1, <3>2, <3>4 DEF LogInv
  <2> QED
    BY <2>8, <2>9
<1>2. CASE LogContinues
  <2>1. waiting # << >> /\ Logged(waiting) /\ waiting' = << >> /\ UNCHANGED <<logFile, index, orders>>
    BY <1>2 DEF LogContinues, ledVars
  <2>2. waiting \in Range(Texts)
    BY <2>1 DEF LogInv
  <2>3. /\ logged' \in Seq(Range(Texts)) /\ Len(logged') <= Len(logged) + 1
        /\ logBuffer' = [i \in 1 .. LogSize |-> logBuffer'[i]] /\ logBuffer'[LogSize] = "nul"
    BY <2>1, <2>2, LoggedLemma
  <2>4. Len(logged') \in Nat
    BY <2>3, LenProperties
  <2>5. Len(logged') + 0 <= Len(logFile')
    BY <1>0, <2>1, <2>3, <2>4
  <2> QED
    BY <2>1, <2>3, <2>5 DEF LogInv
<1>3. CASE PageStarts
  <2>1. index' = 0 /\ UNCHANGED <<waiting, logged, logFile, logBuffer, orders>>
    BY <1>3 DEF PageStarts, statusVars, ledVars
  <2>2. index' \in 0 .. LogSize
    BY <2>1, LogNumbers
  <2> QED
    BY <2>1, <2>2 DEF LogInv
<1>4. CASE PageTakesText
  <2>1. UNCHANGED <<waiting, logged, logFile, logBuffer, orders>>
    BY <1>4 DEF PageTakesText, statusVars, ledVars
  <2>2. index' \in 0 .. LogSize
    <3>1. CASE HasText(index)
      BY <1>4, <3>1, EndLemma DEF PageTakesText
    <3>2. CASE ~HasText(index)
      BY <1>4, <3>2 DEF PageTakesText, LogInv
    <3> QED
      BY <3>1, <3>2
  <2> QED
    BY <2>1, <2>2 DEF LogInv
<1>5. CASE LedIterates \/ LedTimer \/ UNCHANGED indicatorVars
  <2>1. UNCHANGED <<waiting, logged, logFile, logBuffer, index, orders>>
    BY <1>5 DEF LedIterates, LedTimer, indicatorVars, statusVars, logVars, ledVars
  <2> QED
    BY <2>1 DEF LogInv
<1>6. CASE LedOrdered
  <2>1. orders < MostOrders /\ orders' = orders + 1 /\ UNCHANGED <<waiting, logged, logFile, logBuffer, index>>
    BY <1>6 DEF LedOrdered, statusVars, logVars
  <2>2. orders' \in 0 .. MostOrders
    BY <2>1, LogNumbers DEF LogInv
  <2> QED
    BY <2>1, <2>2 DEF LogInv
<1> QED
  BY <1>1, <1>2, <1>3, <1>4, <1>5, <1>6 DEF IndicatorsNext

\* With what is known of the LED, the types of the indicators follow.
LEMMA LogImplies == LedInv /\ LogInv => IndicatorsTypeOK
<1> SUFFICES ASSUME LedInv, LogInv PROVE IndicatorsTypeOK
  OBVIOUS
<1>1. Len(logBuffer) = LogSize
  BY LengthLemma, LogNumbers DEF LogInv
<1>2. Len(logged) <= MostLogs
  <2>1. Len(logged) \in Nat /\ Len(logFile) \in Nat
    BY LenProperties DEF LogInv
  <2>2. Len(logged) <= Len(logFile) /\ Len(logFile) <= MostLogs
    BY <2>1 DEF LogInv
  <2> QED
    BY <2>1, <2>2, LogNumbers
<1>3. led.state \in {"on", "off", "not"}
  BY LedFields DEF LedInv
<1> QED
  BY <1>1, <1>2, <1>3 DEF LedInv, LogInv, IndicatorsTypeOK

-----------------------------------------------------------------------------
(***************************************************************************)
(* The start of a Linux device keeps its types.                            *)
(***************************************************************************)
\* A status is one that a Linux device has.
LEMMA StatusLemma ==
  \A old, new \in {"UNKNOWN", "INITIALIZED", "CONFIG_MODE", "INVALID_AUTHKEY", "SOFTWARE_RESET"} :
    NextStatus(old, new) \in {"UNKNOWN", "INITIALIZED", "CONFIG_MODE", "INVALID_AUTHKEY", "SOFTWARE_RESET"}
BY DEF NextStatus

\* So does each of its steps.
LEMMA DaemonTypes ==
  ASSUME DaemonTypeOK, [DaemonNext]_daemonVars PROVE DaemonTypeOK'
<1> USE DEF DaemonTypeOK
<1>0. /\ StatusBefore(yaml) \in {"UNKNOWN", "CONFIG_MODE"} /\ LoadedMode(yaml) \in {"normal", "config"}
      /\ MostIdentitiesMade \in Nat
  BY LinuxDaemonAssumption DEF StatusBefore, LoadedMode
<1>1. ASSUME NEW before \in {"UNKNOWN", "INITIALIZED", "CONFIG_MODE", "INVALID_AUTHKEY", "SOFTWARE_RESET"}, Completed(before)
      PROVE  /\ currentStatus' \in {"UNKNOWN", "INITIALIZED", "CONFIG_MODE", "INVALID_AUTHKEY", "SOFTWARE_RESET"}
             /\ process' \in {"off", "saving", "running"}
  <2>1. process' \in {"off", "running"}
    BY <1>1 DEF Completed, Finished
  <2> QED
    BY <1>1, <2>1, StatusLemma DEF Completed
<1>2. CASE Starts
  <2>1. yaml' = yaml /\ writable' = writable /\ deviceMode' = LoadedMode(yaml)
    BY <1>2 DEF Starts
  <2>2. CASE Generates(StatusBefore(yaml))
    <3>1. identities' \in 0 .. MostIdentitiesMade
      BY <1>0, <2>2 DEF Generates
    <3>2. /\ currentStatus' \in {"UNKNOWN", "INITIALIZED", "CONFIG_MODE", "INVALID_AUTHKEY", "SOFTWARE_RESET"}
          /\ process' \in {"saving", "off"}
      BY <1>0, <2>2, StatusLemma DEF Generates
    <3> QED
      BY <1>0, <2>1, <3>1, <3>2
  <2>3. CASE Completed(StatusBefore(yaml)) /\ UNCHANGED identities
    BY <1>0, <1>1, <2>1, <2>3
  <2> QED
    BY <1>2, <2>2, <2>3 DEF Starts
<1>3. CASE Exits
  BY <1>3 DEF Exits
<1>4. CASE Saves
  <2>1. UNCHANGED <<yaml, writable, deviceMode, identities>>
    BY <1>4 DEF Saves
  <2>2. CASE Saved
    BY <1>1, <2>1, <2>2 DEF Saved
  <2>3. CASE SaveFails
    BY <2>1, <2>3, StatusLemma DEF SaveFails
  <2> QED
    BY <1>4, <2>2, <2>3 DEF Saves
<1>5. CASE Killed
  BY <1>5 DEF Killed
<1>6. CASE EntersConfigMode
  BY <1>6, StatusLemma DEF EntersConfigMode
<1>7. CASE SoftRestarts
  BY <1>7, StatusLemma DEF SoftRestarts
<1>8. CASE Registers
  BY <1>8 DEF Registers
<1>9. CASE FolderChanges \/ (\E y \in YamlFiles : Edited(y)) \/ UNCHANGED daemonVars
  BY <1>9 DEF FolderChanges, Edited, daemonVars
<1> QED
  BY <1>2, <1>3, <1>4, <1>5, <1>6, <1>7, <1>8, <1>9 DEF DaemonNext

-----------------------------------------------------------------------------
(***************************************************************************)
(* The parts of a device together (MCServices): each of them moves as it   *)
(* does alone.                                                             *)
(***************************************************************************)

\* A device starts with each part in a first state of its own.
LEMMA ServicesStart ==
  ServicesInit =>
    /\ Init /\ LinkInit /\ WebInit /\ StorageInit /\ OtaInit /\ WifiInit /\ DriverInit
    /\ IndicatorsInit /\ ClocksInit /\ CallsInit /\ ValuesInit /\ DaemonInit /\ moving \in Services
BY DEF ServicesInit

\* A step of the device is a step of each part, or leaves it as it is.
LEMMA ServicesMove ==
  [ServicesNext]_servicesVars =>
    /\ [Next]_vars /\ [LinkNext]_linkVars /\ [WebNext]_webVars /\ [StorageNext]_storageVars
    /\ [OtaNext]_otaVars /\ [WifiNext]_wifiVars /\ [DriverNext]_driverVars
    /\ [IndicatorsNext]_indicatorVars /\ [UptimeNext \/ ClockNext]_clockVars
    /\ [CallsNext]_callVars /\ [ValuesNext]_valueVars /\ [DaemonNext]_daemonVars
    /\ UNCHANGED moving
<1>1. ASSUME UNCHANGED servicesVars
      PROVE  UNCHANGED << vars, linkVars, webVars, storageVars, otaVars, wifiVars, driverVars,
                          indicatorVars, clockVars, callVars, valueVars, daemonVars, moving >>
  BY <1>1 DEF servicesVars
<1>2. ASSUME ServicesNext
      PROVE  /\ Next \/ UNCHANGED vars
             /\ LinkNext \/ UNCHANGED linkVars
             /\ WebNext \/ UNCHANGED webVars
             /\ StorageNext \/ UNCHANGED storageVars
             /\ OtaNext \/ UNCHANGED otaVars
             /\ WifiNext \/ UNCHANGED wifiVars
             /\ DriverNext \/ UNCHANGED driverVars
             /\ IndicatorsNext \/ UNCHANGED indicatorVars
             /\ UptimeNext \/ ClockNext \/ UNCHANGED clockVars
             /\ CallsNext \/ UNCHANGED callVars
             /\ ValuesNext \/ UNCHANGED valueVars
             /\ DaemonNext \/ UNCHANGED daemonVars
             /\ UNCHANGED moving
  BY <1>2 DEF ServicesNext, Rests
<1> QED
  BY <1>1, <1>2

\* Whatever is saved, posted or reset and whenever the power fails, the settings of a device are
\* ones that it was told, and the identity of a Linux device that a server knows stays.
THEOREM SettingsOutlive == ServicesSpec => []SettingsAreKept
<1>1. ServicesInit => WebInv /\ DaemonInit
  BY ServicesStart, WebInitLemma
<1>2. WebInv /\ [ServicesNext]_servicesVars => WebInv' /\ [DaemonNext]_daemonVars
  BY ServicesMove, WebNextKeeps
<1>3. DaemonInit /\ [][DaemonNext]_daemonVars => []IdentityIsKept
  BY LinuxIdentityIsKept
<1>4. WebInv /\ IdentityIsKept => SettingsAreKept
  BY WebImplies DEF SettingsAreKept
<1> QED
  BY <1>1, <1>2, <1>3, <1>4, PTL DEF ServicesSpec

\* Whatever the order of the passes, the timer and the orders of the application, and however
\* late the server answers, what the LED and the clocks of a device show is right.
THEOREM WhatDeviceTells == ServicesSpec => []DeviceTells
<1>1. ServicesInit => IndicatorsInit /\ ClocksInit
  BY ServicesStart
<1>2. [ServicesNext]_servicesVars => [IndicatorsNext]_indicatorVars /\ [UptimeNext \/ ClockNext]_clockVars
  BY ServicesMove
<1>3. IndicatorsInit /\ [][IndicatorsNext]_indicatorVars => []LedTells
  BY LedShowsStatus
<1>4. ClocksInit /\ [][UptimeNext \/ ClockNext]_clockVars => []ClocksTell
  BY ClocksAreRight, PTL
<1>5. LedTells /\ ClocksTell => DeviceTells
  BY DEF DeviceTells
<1> QED
  BY <1>1, <1>2, <1>3, <1>4, <1>5, PTL DEF ServicesSpec

\* What the services of a device are known to keep: the types, with what each of them needs.
ServicesInv ==
  /\ IInv /\ LinkInv /\ WebInv /\ StorageInv /\ OtaTypeOK /\ WifiInv /\ CountedInv
  /\ LedInv /\ LogInv /\ ClocksTyped /\ CallsTypeOK /\ ValuesTypeOK /\ DaemonTypeOK
  /\ moving \in Services

\* The calls start so, and keep it.
LEMMA CallsTypes ==
  /\ CallsInit => CallsTypeOK
  /\ CallsTypeOK /\ [CallsNext]_callVars => CallsTypeOK'
<1>1. CallsInit => CallsTypeOK
  BY DEF CallsInit, CallsTypeOK, Nothing
<1>s. ASSUME NEW call, NEW n \in Nat, NEW size, NEW captions, Send(call, n, size, captions)
      PROVE  message'.count \in Nat /\ outcome' \in {"sent", "refused"}
  BY <1>s DEF Send
<1>r. ASSUME NEW call, NEW n \in Nat, Refuse(call, n)
      PROVE  message'.count \in Nat /\ outcome' \in {"sent", "refused"}
  BY <1>r DEF Refuse, Nothing
<1>2. ASSUME CallsTypeOK, NEW call, NEW n \in Nat, SendCall(call, n) PROVE CallsTypeOK'
  <2>1. /\ UNCHANGED <<ends, version>>
        /\ \/ Send(call, n, SentSize(ends[1], Sent[ends[1]][call], n), << >>)
           \/ Refuse(call, n)
    BY <1>2 DEF SendCall
  <2> QED
    BY <1>2, <1>s, <1>r, <2>1 DEF CallsTypeOK
<1>3. ASSUME CallsTypeOK, NEW call, NEW captions \in Captions, SendPack(call, captions)
      PROVE  CallsTypeOK'
  <2>1. Len(captions) \in Nat
    <3>0. PICK n \in PackCounts :
            captions \in {[i \in 1 .. n |-> IF i = k THEN odd ELSE usual] :
                           odd \in CaptionSizes, usual \in CaptionSizes, k \in {1, n}}
      BY DEF Captions
    <3>1. PICK odd \in CaptionSizes, usual \in CaptionSizes, k \in {1, n} :
            captions = [i \in 1 .. n |-> IF i = k THEN odd ELSE usual]
      BY <3>0
    <3>2. n \in Nat /\ captions = [i \in 1 .. n |-> captions[i]]
      BY <3>1, CallsAssumption
    <3> QED
      BY <3>2, LengthLemma
  <2>2. /\ UNCHANGED <<ends, version>>
        /\ \/ Send(call, Len(captions), SetPack(ends[1], PackSent[call], captions).size,
                   SetPack(ends[1], PackSent[call], captions).captions)
           \/ Refuse(call, Len(captions))
    BY <1>3 DEF SendPack
  <2> QED
    BY <1>3, <1>s, <1>r, <2>1, <2>2 DEF CallsTypeOK
<1>4. ASSUME CallsTypeOK, Receive PROVE CallsTypeOK'
  BY <1>4 DEF CallsTypeOK, Receive
<1>5. ASSUME CallsTypeOK, UNCHANGED callVars PROVE CallsTypeOK'
  BY <1>5 DEF CallsTypeOK, callVars
<1>6. ASSUME NEW e PROVE Boundaries(e) \subseteq Nat
  BY DEF Boundaries
<1> QED
  BY <1>1, <1>2, <1>3, <1>4, <1>5, <1>6 DEF CallsNext

\* And so do the extended values.
LEMMA ValuesTypes ==
  /\ ValuesInit => ValuesTypeOK
  /\ ValuesTypeOK /\ [ValuesNext]_valueVars => ValuesTypeOK'
<1>1. ValuesInit => ValuesTypeOK
  BY ExtendedValueAssumption DEF ValuesInit, ValuesTypeOK
<1>2. ASSUME ValuesTypeOK, AddValue PROVE ValuesTypeOK'
  <2>1. adds' = adds + 1 /\ adds < MostValues
    BY <1>2 DEF AddValue
  <2>2. taken' = taken \/ \E details \in Given : taken' = Append(taken, details)
    BY <1>2 DEF AddValue
  <2>3. taken' \in Seq(Given) /\ Len(taken') <= Len(taken) + 1 /\ Len(taken) \in Nat
    BY <1>2, <2>2 DEF ValuesTypeOK
  <2> QED
    BY <1>2, <2>1, <2>3, ExtendedValueAssumption DEF ValuesTypeOK
<1>3. ASSUME ValuesTypeOK, UNCHANGED valueVars PROVE ValuesTypeOK'
  BY <1>3 DEF ValuesTypeOK, valueVars
<1> QED
  BY <1>1, <1>2, <1>3 DEF ValuesNext

\* They start so.
LEMMA ServicesInvStarts == ServicesInit => ServicesInv
<1> SUFFICES ASSUME ServicesInit PROVE ServicesInv
  OBVIOUS
<1>1. /\ Init /\ LinkInit /\ WebInit /\ StorageInit /\ OtaInit /\ WifiInit /\ DriverInit
      /\ IndicatorsInit /\ ClocksInit /\ CallsInit /\ ValuesInit /\ DaemonInit /\ moving \in Services
  BY ServicesStart
<1>2. OtaTypeOK
  <2>1. runs \in Partitions /\ boots = runs /\ updateMode = FALSE /\ updating = FALSE
    BY <1>1 DEF OtaInit
  <2>2. ota = "none" /\ updates = 0 /\ MostUpdates \in Nat
    BY <1>1, OtaAssumption DEF OtaInit
  <2>3. updates \in 0 .. MostUpdates
    BY <2>2
  <2> QED
    BY <2>1, <2>2, <2>3 DEF OtaTypeOK
<1>3. DaemonTypeOK
  BY <1>1, LinuxDaemonAssumption DEF DaemonInit, DaemonTypeOK
<1>4. StorageInv
  BY <1>1, StorageInitLemma DEF StorageInv
<1>5. IInv /\ LinkInv /\ WebInv
  BY <1>1, InitIInv, LinkStarts, WebInitLemma
<1>6. WifiInv /\ CountedInv /\ LedInv /\ LogInv
  BY <1>1, WifiStarts, CountedStarts, LedStarts, LogStarts
<1>7. ClocksTyped /\ CallsTypeOK /\ ValuesTypeOK
  BY <1>1, ClocksTypedStart, CallsTypes, ValuesTypes
<1> QED
  BY <1>1, <1>2, <1>3, <1>4, <1>5, <1>6, <1>7 DEF ServicesInv

\* Each step of one of them keeps it.
LEMMA ServicesInvKept == ServicesInv /\ [ServicesNext]_servicesVars => ServicesInv'
<1> SUFFICES ASSUME ServicesInv, [ServicesNext]_servicesVars PROVE ServicesInv'
  OBVIOUS
<1>1. /\ [Next]_vars /\ [LinkNext]_linkVars /\ [WebNext]_webVars /\ [StorageNext]_storageVars
      /\ [OtaNext]_otaVars /\ [WifiNext]_wifiVars /\ [DriverNext]_driverVars
      /\ [IndicatorsNext]_indicatorVars /\ [UptimeNext \/ ClockNext]_clockVars
      /\ [CallsNext]_callVars /\ [ValuesNext]_valueVars /\ [DaemonNext]_daemonVars /\ UNCHANGED moving
  BY ServicesMove
<1>2. IInv' /\ LinkInv' /\ WebInv'
  BY <1>1, NextIInv, LinkSteps, WebNextKeeps DEF ServicesInv
<1>3. StorageInv' /\ OtaTypeOK' /\ DaemonTypeOK'
  BY <1>1, StorageStep, OtaTypes, DaemonTypes DEF ServicesInv
<1>4. WifiInv' /\ CountedInv' /\ LedInv' /\ LogInv'
  BY <1>1, WifiKept, CountedSteps, LedSteps, LogSteps DEF ServicesInv
<1>5. ClocksTyped' /\ CallsTypeOK' /\ ValuesTypeOK' /\ moving' \in Services
  BY <1>1, ClocksStayTyped, CallsTypes, ValuesTypes DEF ServicesInv
<1> QED
  BY <1>2, <1>3, <1>4, <1>5 DEF ServicesInv

\* Whatever the services of a device do, the state of each of them keeps its types, the moving
\* one's and the others': no buffer, queue, log or count goes beyond its limit, for any limits.
THEOREM ServicesAreTyped == ServicesSpec => []ServicesTypeOK
<1>1. ServicesInv => ServicesTypeOK
  <2> SUFFICES ASSUME ServicesInv PROVE ServicesTypeOK
    OBVIOUS
  <2>1. TypeOK /\ LinkTypeOK /\ WebTypeOK /\ StorageTypeOK
    BY WebImplies DEF ServicesInv, IInv, LinkInv, LinkTypeInv, StorageInv
  <2>2. WifiTypeOK
    BY DEF ServicesInv, WifiInv, WifiTypeInv, MutexInv, WifiTypeOK, Event
  <2>3. DriverTypeOK /\ IndicatorsTypeOK
    BY CountedImplies, LogImplies DEF ServicesInv
  <2>4. ClocksTypeOK
    BY DEF ServicesInv, ClocksTyped
  <2> QED
    BY <2>1, <2>2, <2>3, <2>4 DEF ServicesInv, ServicesTypeOK
<1> QED
  BY <1>1, ServicesInvStarts, ServicesInvKept, PTL DEF ServicesSpec
=============================================================================
