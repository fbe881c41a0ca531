----------------------------- MODULE StateStore -----------------------------
(***************************************************************************)
(* What the state storage promises the elements of a device: after a       *)
(* restart they come back as they were, all of them, when the state was    *)
(* last saved, provided the firmware that saved it had the same elements.  *)
(* Storage implements it on media that take a commit() as a whole.         *)
(***************************************************************************)
CONSTANTS
  Layouts,         \* firmwares: the parts of the states of their elements, <<element, part>>
  Values,          \* states of an element
  Default          \* state of an element that loaded nothing

VARIABLES
  layout,          \* configuration of the running firmware, NoLayout while it starts
  live,            \* state of its elements
  disk             \* what was saved last, NoSnapshot if nothing

vars == <<layout, live, disk>>

NoLayout == << >>
NoSnapshot == [layout |-> NoLayout, state |-> << >>]
Elements(l) == {l[i][1] : i \in DOMAIN l}
States(l) == [Elements(l) -> Values]
Fresh(l) == [e \in Elements(l) |-> Default]

Init == layout = NoLayout /\ live = << >> /\ disk = NoSnapshot

Start(l) ==
  /\ layout = NoLayout
  /\ layout' = l
  /\ live' = IF disk.layout = l THEN disk.state ELSE Fresh(l)
  /\ UNCHANGED disk

Change ==
  /\ layout # NoLayout
  /\ live' \in States(layout)
  /\ UNCHANGED <<layout, disk>>

Save ==
  /\ layout # NoLayout
  /\ disk' = [layout |-> layout, state |-> live]
  /\ UNCHANGED <<layout, live>>

Crash ==
  /\ layout' = NoLayout /\ live' = << >>
  /\ UNCHANGED disk

Next == (\E l \in Layouts : Start(l)) \/ Change \/ Save \/ Crash

Spec == Init /\ [][Next]_vars
=============================================================================
