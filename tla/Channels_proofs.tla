-------------------------- MODULE Channels_proofs ---------------------------
(***************************************************************************)
(* Proofs about Button, ActionTrigger, ChannelSync and TriggerChannel, for *)
(* any times of a button, any number of channels and values and any order  *)
(* of sending: what a press becomes, here and at the server, and what the  *)
(* server knows of the values.                                             *)
(***************************************************************************)
EXTENDS ActionTrigger, ChannelSync, TriggerChannel, FiniteSetTheorems,
  WellFoundedInduction, TLAPS

-----------------------------------------------------------------------------
(***************************************************************************)
(* Button and ActionTrigger.                                               *)
(***************************************************************************)

\* The longest time between two calls is one of them; an age counts up to OldAge.
LEMMA TimesLemma ==
  /\ Largest(Elapsed) \in Nat /\ \A dt \in Elapsed : dt \in Nat /\ dt <= Largest(Elapsed)
  /\ OldAge \in Nat
<1>1. /\ Largest(Elapsed) \in Elapsed /\ \A dt \in Elapsed : dt <= Largest(Elapsed)
  BY ButtonAssumption DEF Largest
<1>2. Largest(Elapsed) \in Nat /\ \A dt \in Elapsed : dt \in Nat
  BY <1>1, ButtonAssumption
<1> DEFINE holdEnd == HoldTime + MostHolds * RepeatOnHold
           waits == {DebounceDelay, NoiseFilterDelay, MulticlickTime, holdEnd}
<1>3. holdEnd \in Nat
  BY ButtonAssumption
<1> HIDE DEF holdEnd
<1>4. \E w \in waits : \A v \in waits : v <= w
  BY <1>3, ButtonAssumption
<1>5. Largest(waits) \in waits
  BY <1>4 DEF Largest
<1>6. Largest(waits) \in Nat
  BY <1>3, <1>5, ButtonAssumption
<1>7. OldAge \in Nat
  BY <1>6 DEF OldAge, holdEnd
<1> QED
  BY <1>1, <1>2, <1>7

\* A later age is one, grows with the age, and is not more than the time adds.
LEMMA LaterLemma ==
  ASSUME NEW a \in Ages, NEW b \in Ages, NEW dt \in Elapsed
  PROVE  /\ Later(a, dt) \in Ages /\ Later(a, dt) >= a /\ Later(a, dt) <= a + dt
         /\ a >= b => Later(a, dt) >= Later(b, dt)
BY TimesLemma DEF Later, Ages

\* A candidate is the level that the pin had in every call since it was proposed.
ProposedInv ==
  /\ pressed \in BOOLEAN /\ candidate \in BOOLEAN /\ sample \in BOOLEAN
  /\ debounceAge \in Ages /\ filterAge \in Ages /\ steady \in Ages
  /\ candidate # pressed =>
       /\ sample = candidate /\ steady >= filterAge
       /\ DebounceDelay = 0 \/ debounceAge > DebounceDelay

\* Reading goes on until a change is accepted.
LEMMA ReadsLemma ==
  ASSUME ProposedInv, NEW dt \in Elapsed, DebounceDelay = 0 \/ debounceAge > DebounceDelay
  PROVE  Reads(dt)
BY LaterLemma, TimesLemma, ButtonAssumption DEF ProposedInv, Reads, Ages

\* What one call does to the candidate, and what an accepted change needs.
LEMMA ButtonStep1 ==
  ASSUME NoiseFilterDelay # 0, ProposedInv, NEW level \in BOOLEAN, NEW dt \in Elapsed,
         Update(level, dt), sample' = level,
         steady' = IF level = sample THEN Later(steady, dt) ELSE 0
  PROVE  /\ ProposedInv'
         /\ pressed' # pressed =>
              /\ sample' = pressed' /\ steady' > NoiseFilterDelay
              /\ DebounceDelay > 0 => debounceAge + Largest(Elapsed) > DebounceDelay
<1>1. /\ pressed \in BOOLEAN /\ candidate \in BOOLEAN /\ sample \in BOOLEAN
      /\ debounceAge \in Ages /\ filterAge \in Ages /\ steady \in Ages /\ 0 \in Ages
  BY TimesLemma DEF ProposedInv, Ages
<1>2. /\ Later(debounceAge, dt) \in Ages /\ Later(debounceAge, dt) >= debounceAge
      /\ Later(debounceAge, dt) <= debounceAge + dt
      /\ Later(filterAge, dt) \in Ages /\ Later(steady, dt) \in Ages
      /\ steady >= filterAge => Later(steady, dt) >= Later(filterAge, dt)
      /\ steady' \in Ages
  BY <1>1, LaterLemma
<1>3. Ages \subseteq Nat /\ dt \in Nat /\ dt <= Largest(Elapsed) /\ Largest(Elapsed) \in Nat
      /\ DebounceDelay \in Nat /\ NoiseFilterDelay \in Nat
  BY TimesLemma, ButtonAssumption DEF Ages
<1>4. CASE Withdraw(level, dt)
  BY <1>1, <1>2, <1>4 DEF Withdraw, ProposedInv
<1>5. CASE Propose(level, dt)
  <2>1. /\ pressed' = pressed /\ candidate' = level /\ filterAge' = 0
        /\ debounceAge' = Later(debounceAge, dt)
        /\ DebounceDelay = 0 \/ debounceAge' > DebounceDelay
    BY <1>5 DEF Propose, Reads
  <2>2. steady' >= filterAge'
    BY <1>2, <1>3, <2>1
  <2> QED
    BY <1>1, <1>2, <2>1, <2>2 DEF ProposedInv
<1>6. CASE WaitForFilter(level, dt)
  <2>1. /\ pressed' = pressed /\ candidate' = candidate /\ filterAge' = Later(filterAge, dt)
        /\ debounceAge' = Later(debounceAge, dt)
    BY <1>6 DEF WaitForFilter
  <2>2. ASSUME candidate # pressed
        PROVE  /\ sample' = candidate /\ steady' >= filterAge'
               /\ DebounceDelay = 0 \/ debounceAge' > DebounceDelay
    <3>1. /\ sample = candidate /\ steady >= filterAge
          /\ DebounceDelay = 0 \/ debounceAge > DebounceDelay
      BY <2>2 DEF ProposedInv
    <3>2. level # pressed
      BY <1>6, <3>1, ReadsLemma DEF WaitForFilter
    <3>3. level = candidate
      BY <1>1, <2>2, <3>2
    <3>4. debounceAge > DebounceDelay => debounceAge' > DebounceDelay
      BY <1>1, <1>2, <1>3, <2>1
    <3> QED
      BY <1>2, <2>1, <3>1, <3>3, <3>4
  <2> QED
    BY <1>1, <1>2, <2>1, <2>2 DEF ProposedInv
<1>7. CASE Accept(level, dt)
  <2>1. /\ pressed' = level /\ candidate' = candidate /\ filterAge' = Later(filterAge, dt)
        /\ debounceAge' = 0 /\ level # pressed /\ level = candidate
        /\ Later(filterAge, dt) > NoiseFilterDelay /\ Reads(dt)
    BY <1>7 DEF Accept, BecomesCandidate
  <2>2. sample = candidate /\ steady >= filterAge
    BY <2>1 DEF ProposedInv
  <2>3. steady' = Later(steady, dt)
    BY <2>1, <2>2
  <2>4. steady' > NoiseFilterDelay
    BY <1>2, <1>3, <2>1, <2>2, <2>3
  <2>5. DebounceDelay > 0 => debounceAge + Largest(Elapsed) > DebounceDelay
    <3>1. debounceAge \in Nat /\ Later(debounceAge, dt) \in Nat
      BY <1>1, <1>2, <1>3
    <3>2. DebounceDelay > 0 => Later(debounceAge, dt) > DebounceDelay
      BY <1>3, <2>1 DEF Reads
    <3> QED
      BY <1>2, <1>3, <3>1, <3>2
  <2> QED
    BY <1>1, <1>2, <2>1, <2>4, <2>5 DEF ProposedInv
<1> QED
  BY <1>4, <1>5, <1>6, <1>7 DEF Update

\* Where the noise filter is on (NoiseFilterDelay above 0; with 0 the first level that is read
\* counts), no press or release is told for a pin that bounced: the level was the same in every
\* call for longer than the filter, and the one before is longer ago than the debounce time
\* (ButtonState::update).
THEOREM NoiseIsFiltered ==
  ASSUME NoiseFilterDelay # 0
  PROVE  ButtonSpec => NoiseFiltered
<1> DEFINE Undisturbed ==
      pressed' # pressed =>
       /\ sample' = pressed' /\ steady' > NoiseFilterDelay
       /\ DebounceDelay > 0 => debounceAge + Largest(Elapsed) > DebounceDelay
<1>1. ButtonInit => ProposedInv
  BY TimesLemma DEF ButtonInit, ProposedInv, Ages
<1>2. ProposedInv /\ [ButtonNext]_buttonVars => ProposedInv' /\ Undisturbed
  <2>1. ProposedInv /\ UNCHANGED buttonVars => ProposedInv' /\ Undisturbed
    BY DEF ProposedInv, buttonVars
  <2>2. ProposedInv /\ ButtonNext => ProposedInv' /\ Undisturbed
    BY ButtonStep1 DEF ButtonNext, ButtonOnTimer
  <2> QED
    BY <2>1, <2>2
<1>3. NoiseFiltered <=> [][Undisturbed]_buttonVars
  BY DEF NoiseFiltered
<1> HIDE DEF Undisturbed
<1> QED
  BY <1>1, <1>2, <1>3, PTL DEF ButtonSpec

\* Which handlers are enabled follows from what the server has taken.
DirectIsEnabled ==
  IF localEvent \in DisablesLocalOperation THEN localEvent \notin active
  ELSE IF Flips THEN active = {} ELSE TRUE
EnabledInv == enabled = [direct |-> DirectIsEnabled, click |-> ClickEnabled(active)]

\* Within a gesture the local action runsNow at each localEvent, or not at all.
CountInv ==
  /\ clickCounter \in Nat /\ holdSend \in Nat /\ runs \in Nat /\ seen \in Nat
  /\ localEvent \in LocalEvents
  /\ ~Resting /\ untouched => runs = IF enabled["direct"] THEN seen ELSE 0

ActionInv == EnabledInv /\ CountInv

\* An event that the local action was added to, and that flips it, is none of the server's.
LEMMA FlipsLemma ==
  /\ Flips => localEvent \notin Advertised
  /\ localEvent \in DisablesLocalOperation <=> localEvent \in Advertised
<1>1. Flips => localEvent \notin Advertised
  BY DEF Flips, Advertised, OnChange, OnPress, OnRelease, OnHold, Click
<1>2. localEvent \in DisablesLocalOperation <=> localEvent \in Advertised
  BY DEF DisablesLocalOperation
<1> QED
  BY <1>1, <1>2

\* The set of those that satisfy something, counted for one.
LEMMA OneOrNone ==
  ASSUME NEW e, NEW S
  PROVE  Cardinality({e} \cap S) = IF e \in S THEN 1 ELSE 0
<1>1. CASE e \in S
  <2>1. {e} \cap S = {e}
    BY <1>1
  <2> QED
    BY <1>1, <2>1, FS_Singleton
<1>2. CASE e \notin S
  <2>1. {e} \cap S = {}
    BY <1>2
  <2> QED
    BY <1>2, <2>1, FS_EmptySet
<1> QED
  BY <1>1, <1>2

\* Never are both handlers enabled, so at most one runs.
LEMMA HandlersLemma ==
  ASSUME EnabledInv, NEW S
  PROVE  Cardinality(HandlersOf(S)) =
           IF enabled["direct"] THEN IF localEvent \in S THEN 1 ELSE 0
           ELSE IF enabled["click"] /\ Click(1) \in S THEN 1 ELSE 0
<1>1. /\ enabled["direct"] <=> DirectIsEnabled
      /\ enabled["click"] <=> ClickEnabled(active)
  BY DEF EnabledInv
<1>2. enabled["direct"] => ~enabled["click"]
  BY <1>1, FlipsLemma DEF DirectIsEnabled, ClickEnabled
<1>3. CASE enabled["direct"] /\ localEvent \in S
  <2>1. HandlersOf(S) = {"direct"}
    BY <1>2, <1>3 DEF HandlersOf
  <2> QED
    BY <1>3, <2>1, FS_Singleton
<1>4. CASE enabled["direct"] /\ localEvent \notin S
  <2>1. HandlersOf(S) = {}
    BY <1>2, <1>4 DEF HandlersOf
  <2> QED
    BY <1>4, <2>1, FS_EmptySet
<1>5. CASE ~enabled["direct"] /\ enabled["click"] /\ Click(1) \in S
  <2>1. HandlersOf(S) = {"click"}
    BY <1>5 DEF HandlersOf
  <2> QED
    BY <1>5, <2>1, FS_Singleton
<1>6. CASE ~enabled["direct"] /\ ~(enabled["click"] /\ Click(1) \in S)
  <2>1. HandlersOf(S) = {}
    BY <1>6 DEF HandlersOf
  <2> QED
    BY <1>6, <2>1, FS_EmptySet
<1> QED
  BY <1>3, <1>4, <1>5, <1>6

\* A click is only reported when the gesture ends.
LEMMA GestureLemma ==
  ASSUME clickCounter \in Nat, holdSend \in Nat, NEW level \in BOOLEAN, NEW dt \in Elapsed,
         ButtonOnTimer(level, dt)
  PROVE  /\ clickCounter' \in Nat /\ holdSend' \in Nat
         /\ ~Resting' => Click(1) \notin events'
         /\ Resting /\ Resting' => Click(1) \notin events'
<1>1. Changed \/ Held(dt) \/ Quiet(dt)
  BY DEF ButtonOnTimer
<1>2. CASE Changed
  BY <1>2 DEF Changed, Resting, OnPress, OnRelease, OnChange, Click
<1>3. CASE Held(dt)
  BY <1>3 DEF Held, Resting, OnHold, Click
<1>4. CASE Quiet(dt)
  <2>1. /\ clickCounter' \in Nat /\ holdSend' \in Nat
    BY <1>4 DEF Quiet
  <2>2. ~Resting' => events' = {}
    BY <1>4 DEF Quiet, Resting
  <2>3. Resting => events' = {} \/ events' = Reported
    BY <1>4 DEF Quiet
  <2>4. Resting => Click(1) \notin Reported
    <3>1. MostClicks \in Nat \ {0}
      BY ButtonAssumption
    <3> QED
      BY <3>1 DEF Resting, Reported, Click, OnCrazyClicker
  <2> QED
    BY <2>1, <2>2, <2>3, <2>4
<1> QED
  BY <1>1, <1>2, <1>3, <1>4

\* A step of the button with its action, for a rest or a gesture before it.
LEMMA CountsLemma ==
  ASSUME ActionInv, NEW level \in BOOLEAN, NEW dt \in Elapsed, TriggerOnTimer(level, dt)
  PROVE  /\ ActionInv'
         /\ ~Resting /\ untouched' =>
              /\ seen' = seen + (IF localEvent \in events' THEN 1 ELSE 0)
              /\ runs' = (IF enabled["direct"] THEN seen ELSE 0) +
                   IF enabled["direct"] THEN IF localEvent \in events' THEN 1 ELSE 0
                   ELSE IF enabled["click"] /\ Click(1) \in events' THEN 1 ELSE 0
<1> DEFINE once == IF localEvent \in events' THEN 1 ELSE 0
           runsNow == IF enabled["direct"] THEN once
                  ELSE IF enabled["click"] /\ Click(1) \in events' THEN 1 ELSE 0
<1>1. /\ ButtonOnTimer(level, dt) /\ RunActions
      /\ localEvent' = localEvent /\ enabled' = enabled /\ active' = active
  BY DEF TriggerOnTimer
<1>2. /\ bistable' = bistable
  BY <1>1 DEF ButtonOnTimer
<1>3. EnabledInv'
  BY <1>1, <1>2
     DEF ActionInv, EnabledInv, DirectIsEnabled, ClickEnabled, Flips, DisablesLocalOperation,
         Advertised
<1>4. Cardinality(HandlersOf(events')) = runsNow /\ Cardinality({localEvent} \cap events') = once
  BY HandlersLemma, OneOrNone DEF ActionInv
<1>5. runsNow \in Nat /\ once \in Nat
  OBVIOUS
<1>6. /\ clickCounter' \in Nat /\ holdSend' \in Nat
      /\ ~Resting' => Click(1) \notin events'
  BY <1>1, GestureLemma DEF ActionInv, CountInv
<1>7. ~Resting' => runsNow = IF enabled["direct"] THEN once ELSE 0
  BY <1>6
<1>8. runs \in Nat /\ seen \in Nat
  BY DEF ActionInv, CountInv
<1> HIDE DEF runsNow, once
<1>9. /\ runs' = (IF Resting THEN 0 ELSE runs) + runsNow
      /\ seen' = (IF Resting THEN 0 ELSE seen) + once
      /\ untouched' = (Resting \/ untouched)
  <2>1. runs' = (IF Resting THEN 0 ELSE runs) + Cardinality(HandlersOf(events'))
    BY <1>1 DEF RunActions
  <2>2. seen' = (IF Resting THEN 0 ELSE seen) + Cardinality({localEvent} \cap events')
    BY <1>1 DEF RunActions
  <2>3. untouched' = (Resting \/ untouched)
    BY <1>1 DEF RunActions
  <2> QED
    BY <1>4, <2>1, <2>2, <2>3
<1>10. runs' \in Nat /\ seen' \in Nat
  BY <1>5, <1>8, <1>9
<1>11. untouched' => Resting \/ untouched
  BY <1>9
<1>12. ~Resting /\ untouched => runs = IF enabled["direct"] THEN seen ELSE 0
  BY DEF ActionInv, CountInv
<1>13. ~Resting' /\ untouched' => runs' = IF enabled["direct"] THEN seen' ELSE 0
  BY <1>5, <1>7, <1>8, <1>9, <1>11, <1>12
<1>14. CountInv'
  BY <1>1, <1>6, <1>10, <1>13 DEF ActionInv, CountInv
<1>15. ~Resting /\ untouched' =>
         seen' = seen + once /\ runs' = (IF enabled["direct"] THEN seen ELSE 0) + runsNow
  BY <1>9, <1>11, <1>12
<1> QED
  BY <1>3, <1>14, <1>15 DEF ActionInv, runsNow, once

\* The server's configuration: the handlers follow it, and this gesture does not count.
LEMMA ConfigLemma ==
  ASSUME ActionInv, NEW config, HandleChannelConfig(config)
  PROVE  ActionInv'
<1>1. /\ localEvent' = localEvent /\ bistable' = bistable /\ runs' = runs /\ seen' = seen
      /\ clickCounter' = clickCounter /\ holdSend' = holdSend
      /\ active' = config /\ untouched' = FALSE
      /\ enabled' = [direct |-> DirectEnabled(config), click |-> ClickEnabled(config)]
  BY DEF HandleChannelConfig, buttonVars
<1>2. (localEvent \in DisablesLocalOperation <=> localEvent \in DisablesLocalOperation')
      /\ (Flips' <=> Flips) /\ (ClickEnabled(config) <=> ClickEnabled(active)')
  BY <1>1 DEF Flips, ClickEnabled, DisablesLocalOperation, Advertised
<1>3. localEvent \notin DisablesLocalOperation /\ ~Flips => enabled["direct"] = TRUE
  BY DEF ActionInv, EnabledInv, DirectIsEnabled
<1>4. DirectEnabled(config) = DirectIsEnabled'
  <2>1. CASE localEvent \in DisablesLocalOperation
    BY <1>1, <1>2, <2>1 DEF DirectEnabled, DirectIsEnabled
  <2>2. CASE localEvent \notin DisablesLocalOperation /\ Flips
    BY <1>1, <1>2, <2>2 DEF DirectEnabled, DirectIsEnabled
  <2>3. CASE localEvent \notin DisablesLocalOperation /\ ~Flips
    BY <1>1, <1>2, <1>3, <2>3 DEF DirectEnabled, DirectIsEnabled
  <2> QED
    BY <2>1, <2>2, <2>3
<1>5. ClickEnabled(config) = ClickEnabled(active)'
  BY <1>1, <1>2 DEF ClickEnabled, Flips
<1>6. EnabledInv'
  BY <1>1, <1>4, <1>5 DEF EnabledInv
<1> QED
  BY <1>1, <1>6 DEF ActionInv, CountInv

\* The end of a gesture during which no configuration came.
LEMMA GestureEndsLemma ==
  ASSUME ActionInv, NEW level \in BOOLEAN, NEW dt \in Elapsed, TriggerOnTimer(level, dt),
         GestureEnds, untouched'
  PROVE  runs' = IF Flips /\ active # {}
                   THEN IF Click(1) \in events' /\ Click(1) \notin active THEN 1 ELSE 0
                   ELSE IF localEvent \in active \cap Advertised THEN 0 ELSE seen'
<1>1. /\ ~Resting
      /\ seen' = seen + (IF localEvent \in events' THEN 1 ELSE 0)
      /\ runs' = (IF enabled["direct"] THEN seen ELSE 0) +
           IF enabled["direct"] THEN IF localEvent \in events' THEN 1 ELSE 0
           ELSE IF enabled["click"] /\ Click(1) \in events' THEN 1 ELSE 0
  BY CountsLemma DEF GestureEnds
<1>2. seen \in Nat
  BY DEF ActionInv, CountInv
<1>3. /\ enabled["direct"] <=> DirectIsEnabled
      /\ enabled["click"] <=> ClickEnabled(active)
  BY DEF ActionInv, EnabledInv
<1>4. CASE Flips /\ active # {}
  <2>1. ~enabled["direct"] /\ (enabled["click"] <=> Click(1) \notin active)
    BY <1>3, <1>4, FlipsLemma DEF DirectIsEnabled, ClickEnabled
  <2> QED
    BY <1>1, <1>4, <2>1
<1>5. CASE ~(Flips /\ active # {})
  <2>1. ~enabled["click"] /\ (enabled["direct"] <=> localEvent \notin active \cap Advertised)
    BY <1>3, <1>5, FlipsLemma DEF DirectIsEnabled, ClickEnabled
  <2> QED
    BY <1>1, <1>2, <1>5, <2>1
<1> QED
  BY <1>4, <1>5

\* The local action.
THEOREM ActionRunsOnce == TriggerSpec => LocalActionOnce
<1> DEFINE Once ==
      GestureEnds /\ untouched' =>
       runs' = IF Flips /\ active # {}
                 THEN IF Click(1) \in events' /\ Click(1) \notin active THEN 1 ELSE 0
                 ELSE IF localEvent \in active \cap Advertised THEN 0 ELSE seen'
<1>1. TriggerInit => ActionInv
  <2> SUFFICES ASSUME TriggerInit PROVE ActionInv
    OBVIOUS
  <2>1. /\ active = {} /\ enabled = [direct |-> TRUE, click |-> FALSE] /\ localEvent \in LocalEvents
        /\ clickCounter = 0 /\ holdSend = 0 /\ runs = 0 /\ seen = 0
    BY DEF TriggerInit, ButtonInit
  <2>2. DirectIsEnabled = TRUE
    BY <2>1 DEF DirectIsEnabled
  <2>3. ClickEnabled(active) = FALSE
    BY <2>1 DEF ClickEnabled
  <2> QED
    BY <2>1, <2>2, <2>3 DEF ActionInv, EnabledInv, CountInv, Resting
<1>2. ActionInv /\ [TriggerNext]_triggerAndButtonVars => ActionInv' /\ Once
  <2> SUFFICES ASSUME ActionInv, [TriggerNext]_triggerAndButtonVars PROVE ActionInv' /\ Once
    OBVIOUS
  <2>1. ASSUME NEW level \in BOOLEAN, NEW dt \in Elapsed, TriggerOnTimer(level, dt)
        PROVE  ActionInv' /\ Once
    BY <2>1, CountsLemma, GestureEndsLemma
  <2>2. ASSUME NEW config \in Configurations, HandleChannelConfig(config)
        PROVE  ActionInv' /\ Once
    <3>1. ~GestureEnds
      BY <2>2 DEF HandleChannelConfig, buttonVars, GestureEnds, Resting
    <3> QED
      BY <2>2, <3>1, ConfigLemma
  <2>3. CASE UNCHANGED triggerAndButtonVars
    <3>1. ~GestureEnds
      BY <2>3 DEF triggerAndButtonVars, buttonVars, GestureEnds, Resting
    <3>2. ActionInv'
      BY <2>3 DEF triggerAndButtonVars, triggerVars, buttonVars, ActionInv, EnabledInv, CountInv,
        DirectIsEnabled, ClickEnabled, Flips, DisablesLocalOperation, Advertised, Resting
    <3> QED
      BY <3>1, <3>2
  <2> QED
    BY <2>1, <2>2, <2>3 DEF TriggerNext
<1>3. LocalActionOnce <=> [][Once]_triggerAndButtonVars
  BY DEF LocalActionOnce
<1> HIDE DEF Once
<1> QED
  BY <1>1, <1>2, <1>3, PTL DEF TriggerSpec

-----------------------------------------------------------------------------
(***************************************************************************)
(* Values.                                                                 *)
(***************************************************************************)

\* A value the server does not have is known to be so, by the flag or by the timer that is
\* about to set it.
Marked(c) == valueChanged[c] \/ Unflagged(c)

\* What the loop has copied so far is what the channel has, or the channel is marked.
CopyInv ==
  /\ sending.step = "copy2" =>
       Marked(sending.channel) \/ sending.copy[1] = value[sending.channel][1]
  /\ sending.step = "send" =>
       Marked(sending.channel) \/ sending.copy = value[sending.channel]
  /\ sending.step = "register" =>
       \A c \in Channels : Marked(c) \/ sending.copy[c] = value[c]

\* The copies of the values are pairs of halves.
LEMMA CopiesLemma ==
  /\ ChannelValues \subseteq Copies
  /\ \A v \in ChannelValues : v[1] \in Halves /\ v[2] \in Halves
<1>1. ASSUME NEW v \in ChannelValues PROVE v[1] \in Halves /\ v[2] \in Halves
  BY DEF Halves
<1>2. ASSUME NEW v \in ChannelValues PROVE v \in Copies
  <2>1. v = <<v[1], v[2]>>
    BY ChannelsAssumption
  <2> DEFINE a == v[1]  b == v[2]
  <2>2. a \in Halves /\ b \in Halves /\ v = <<a, b>>
    BY <1>1, <2>1
  <2> HIDE DEF a, b
  <2> QED
    BY <2>2 DEF Copies
<1> QED
  BY <1>1, <1>2

\* There is a first channel, and a next one unless it is the last.
LEMMA OrderLemma ==
  /\ Len(SendOrder) \in Nat /\ DOMAIN SendOrder = 1 .. Len(SendOrder) /\ 1 \in DOMAIN SendOrder
  /\ \A i \in DOMAIN SendOrder : SendOrder[i] \in Channels
<1>1. SendOrder \in Seq(Channels) /\ SendOrder # << >>
  BY ChannelsAssumption
<1> QED
  BY <1>1

\* The states of the two threads.
Setters == [step : {"write1", "write2", "flag"}, channel : Channels, new : ChannelValues]
Senders ==
  [step : {"scan"}, at : DOMAIN SendOrder]
    \cup [step : {"clear", "copy1", "copy2", "send"}, channel : Channels, copy : Copies]
    \cup [step : {"register"}, copy : [Channels -> Copies]]

\* A copy of half a value is one of a half.
LEMMA CopyTypes ==
  ASSUME ChannelTypeOK, NEW half \in {1, 2}, NEW this \in {"copy1", "copy2"},
         NEW next \in {"copy2", "send"}, CopyHalf(half, this, next)
  PROVE  /\ sending' \in [step : {"copy2", "send"}, channel : Channels, copy : Copies]
         /\ sending' = [step |-> next, channel |-> sending.channel,
                        copy |-> [sending.copy EXCEPT ![half] = value[sending.channel][half]]]
<1>1. sending \in [step : {"copy1", "copy2"}, channel : Channels, copy : Copies]
  BY DEF ChannelTypeOK, CopyHalf, Nothing
<1>2. value[sending.channel] \in Copies /\ value[sending.channel][half] \in Halves
  BY <1>1 DEF ChannelTypeOK, Copies
<1>3. [sending.copy EXCEPT ![half] = value[sending.channel][half]] \in Copies
  BY <1>1, <1>2 DEF Copies
<1>4. sending' = [step |-> next, channel |-> sending.channel,
                  copy |-> [sending.copy EXCEPT ![half] = value[sending.channel][half]]]
  BY <1>1 DEF CopyHalf
<1> QED
  BY <1>1, <1>3, <1>4

\* Every step keeps the types.
LEMMA ChannelTypeStep == ASSUME ChannelTypeOK, [ChannelNext]_channelVars PROVE ChannelTypeOK'
<1> USE DEF ChannelTypeOK
<1>1. ASSUME NEW c \in Channels, NEW v \in ChannelValues, SetInLoop(c, v) PROVE ChannelTypeOK'
  BY <1>1, CopiesLemma DEF SetInLoop
<1>2. ASSUME NEW c \in TimerChannels, NEW v \in ChannelValues, SetInTimer(c, v)
      PROVE  ChannelTypeOK'
  BY <1>2, ChannelsAssumption DEF SetInTimer
<1>3. CASE Setting
  <2>1. PICK h \in {1, 2}, next \in {"write2", "flag"} :
          \/ setting.step \in {"write1", "write2"} /\ WriteHalf(h, setting.step, next)
          \/ SetUpdateReady
    BY <1>3 DEF Setting, WriteHalf
  <2>2. setting \in Setters
    BY <2>1 DEF WriteHalf, SetUpdateReady, Setters, Nothing
  <2>3. CASE SetUpdateReady
    BY <2>2, <2>3 DEF SetUpdateReady, Setters
  <2>4. CASE setting.step \in {"write1", "write2"} /\ WriteHalf(h, setting.step, next)
    <3>1. setting' \in Setters
      BY <2>2, <2>4 DEF WriteHalf, Setters
    <3>2. value' \in [Channels -> Copies]
      BY <2>2, <2>4, CopiesLemma DEF WriteHalf, Setters, Copies
    <3> QED
      BY <2>4, <3>1, <3>2 DEF WriteHalf, Setters
  <2> QED
    BY <2>1, <2>3, <2>4
<1>4. CASE Register
  BY <1>4 DEF Register
<1>5. CASE SendRegistration
  BY <1>5 DEF SendRegistration, Nothing
<1>6. CASE IterateElements
  BY <1>6, OrderLemma DEF IterateElements
<1>7. CASE IterateConnected
  <2> DEFINE c == SendOrder[sending.at]
  <2>1. sending \in [step : {"scan"}, at : DOMAIN SendOrder] /\ c \in Channels
    BY <1>7, OrderLemma DEF IterateConnected, Nothing
  <2>2. value[c] \in Copies
    BY <2>1
  <2>3. \/ sending' = [step |-> "clear", channel |-> c, copy |-> value[c]]
        \/ sending.at < Len(SendOrder) /\ sending' = [sending EXCEPT !.at = @ + 1]
        \/ sending' = Nothing
    BY <1>7 DEF IterateConnected
  <2>4. throttled' \in BOOLEAN
    BY <1>7 DEF IterateConnected
  <2> HIDE DEF c
  <2>5. sending.at < Len(SendOrder) => sending.at + 1 \in DOMAIN SendOrder
    BY <2>1, OrderLemma
  <2>6. \/ sending' \in [step : {"clear"}, channel : Channels, copy : Copies]
        \/ sending' \in [step : {"scan"}, at : DOMAIN SendOrder]
        \/ sending' = Nothing
    BY <2>1, <2>2, <2>3, <2>5
  <2> QED
    BY <1>7, <2>4, <2>6 DEF IterateConnected
<1>8. CASE ClearUpdateReady
  BY <1>8 DEF ClearUpdateReady, Nothing
<1>9. CASE CopyHalf(1, "copy1", "copy2")
  BY <1>9, CopyTypes DEF CopyHalf
<1>10. CASE CopyHalf(2, "copy2", "send")
  BY <1>10, CopyTypes DEF CopyHalf
<1>11. CASE SendValue
  BY <1>11 DEF SendValue, Nothing
<1>12. CASE Connects \/ LinkBreaks \/ LinkIsLeft \/ ThrottleEnds
  BY <1>12 DEF Connects, LinkBreaks, LinkIsLeft, ThrottleEnds
<1>13. CASE UNCHANGED channelVars
  BY <1>13 DEF channelVars
<1> QED
  BY <1>1, <1>2, <1>3, <1>4, <1>5, <1>6, <1>7, <1>8, <1>9, <1>10, <1>11, <1>12, <1>13
  DEF ChannelNext, Sending

\* The timer's writes mark their channel before they spoil a copy.
LEMMA WriteKeeps ==
  ASSUME ChannelTypeOK, CopyInv, ServerIsCurrent,
         NEW half \in {1, 2}, NEW this, NEW next,
         <<this, next>> \in {<<"write1", "write2">>, <<"write2", "flag">>},
         WriteHalf(half, this, next)
  PROVE  CopyInv' /\ ServerIsCurrent'
<1>1. setting \in Setters /\ setting.step = this
  BY DEF ChannelTypeOK, WriteHalf, Setters, Nothing
<1> DEFINE c == setting.channel
<1>2. c \in Channels /\ setting'.step = next /\ setting'.channel = c
  BY <1>1 DEF WriteHalf, Setters
<1>3. /\ \A d \in Channels \ {c} : value'[d] = value[d]
      /\ UNCHANGED <<valueChanged, sending, wire, session, serverValue>>
  BY <1>2 DEF WriteHalf, ChannelTypeOK
<1>4. \A d \in Channels : (Marked(d) => Marked(d)')
  BY <1>1, <1>2, <1>3 DEF Marked, Unflagged
<1>5. \A d \in Channels : (d = c => Marked(d)')
  BY <1>2 DEF Marked, Unflagged
<1>6. sending.step \in {"copy2", "send"} => sending.channel \in Channels
  BY DEF ChannelTypeOK, Nothing
<1> HIDE DEF c
<1>7. CopyInv'
  <2>1. ASSUME NEW d \in Channels, Marked(d) \/ d = c PROVE Marked(d)'
    BY <1>4, <1>5, <2>1
  <2> QED
    BY <1>3, <1>6, <2>1 DEF CopyInv, Marked, Unflagged
<1>8. ServerIsCurrent'
  <2>1. ASSUME NEW d \in Channels, Marked(d) \/ d = c PROVE Marked(d)'
    BY <1>4, <1>5, <2>1
  <2> QED
    BY <1>3, <2>1 DEF ServerIsCurrent, Marked, Unflagged, BeingSent
<1> QED
  BY <1>7, <1>8

\* Every step keeps the copies and the server right.
LEMMA CurrentStep ==
  ASSUME ChannelTypeOK, CopyInv, ServerIsCurrent, [ChannelNext]_channelVars
  PROVE  CopyInv' /\ ServerIsCurrent'
<1> USE DEF ChannelTypeOK, CopyInv, ServerIsCurrent, Marked, BeingSent
<1>1. ASSUME NEW c \in Channels, NEW v \in ChannelValues, SetInLoop(c, v)
      PROVE  CopyInv' /\ ServerIsCurrent'
  BY <1>1 DEF SetInLoop, Unflagged, Nothing
<1>2. ASSUME NEW c \in TimerChannels, NEW v \in ChannelValues, SetInTimer(c, v)
      PROVE  CopyInv' /\ ServerIsCurrent'
  BY <1>2 DEF SetInTimer, Unflagged, Nothing
<1>3. CASE WriteHalf(1, "write1", "write2") \/ WriteHalf(2, "write2", "flag")
  BY <1>3, WriteKeeps
<1>4. CASE SetUpdateReady
  BY <1>4 DEF SetUpdateReady, Unflagged, Nothing
<1>5. CASE Register
  BY <1>5 DEF Register, Unflagged
<1>6. CASE SendRegistration
  BY <1>6 DEF SendRegistration, Unflagged, Nothing
<1>7. CASE IterateElements
  BY <1>7 DEF IterateElements, Unflagged, Nothing
<1>15. CASE LinkBreaks
  BY <1>15 DEF LinkBreaks, Unflagged
<1>16. CASE LinkIsLeft
  BY <1>16 DEF LinkIsLeft, Unflagged
<1>17. CASE ThrottleEnds
  BY <1>17 DEF ThrottleEnds, Unflagged
<1>8. CASE IterateConnected
  BY <1>8 DEF IterateConnected, Unflagged, Nothing
<1>9. CASE ClearUpdateReady
  BY <1>9 DEF ClearUpdateReady, Unflagged, Nothing
<1>10. CASE CopyHalf(1, "copy1", "copy2")
  BY <1>10, CopyTypes DEF CopyHalf, Unflagged, Copies
<1>11. CASE CopyHalf(2, "copy2", "send")
  BY <1>11, CopyTypes DEF CopyHalf, Unflagged, Copies
<1>12. CASE SendValue
  BY <1>12 DEF SendValue, Unflagged, Nothing
<1>13. CASE Connects
  BY <1>13 DEF Connects, Unflagged
<1>14. CASE UNCHANGED channelVars
  BY <1>14 DEF channelVars, Unflagged
<1> QED
  BY <1>1, <1>2, <1>3, <1>4, <1>5, <1>6, <1>7, <1>8, <1>9, <1>10, <1>11, <1>12, <1>13, <1>14,
     <1>15, <1>16, <1>17
  DEF ChannelNext, Sending, Setting
-----------------------------------------------------------------------------
(***************************************************************************)
(* Gestures.                                                               *)
(***************************************************************************)

\* What the timer and the loop hold in their hands.
HandsInv ==
  /\ actionToSend \subseteq Capabilities /\ collided \subseteq Capabilities
  /\ actionReady \in BOOLEAN /\ (registering => ~online) /\ (Popping => online \/ registering)
  /\ Popping /\ Pushing => pushing.cap \in collided /\ popping.cap \in collided \cup {NoAction}

\* But for what collided, popAction() has read what is queued, has taken its action out of it, and
\* lowers the flag when nothing is left.  As long as nothing collided it was called for something.
PopInv ==
  \/ popping = NotPopping
  \/ /\ popping \in [step : {"read"}, bits : SUBSET Capabilities, cap : Capabilities \cup {NoAction}]
     /\ popping.cap = NoAction => popping.bits = {}
     /\ popping.cap # NoAction => popping.cap \in popping.bits
     /\ \A c \in Capabilities \ collided : c \in popping.bits <=> c \in actionToSend
     /\ collided = {} /\ actionReady => actionToSend # {}
  \/ /\ popping \in [step : {"tested"}, cap : Capabilities \cup {NoAction}, clears : BOOLEAN]
     /\ popping.clears \/ popping.cap = NoAction => actionToSend \subseteq collided
     /\ popping.cap \notin actionToSend \ collided
     /\ collided = {} /\ actionReady => popping.clears \/ actionToSend # {}

\* And pushAction() has read what is queued beside its own action, and has added this.
PushInv ==
  \/ pushing = NotPushing
  \/ /\ pushing \in [step : {"read"}, bits : SUBSET Capabilities, cap : Capabilities]
     /\ \A c \in Capabilities \ (collided \cup {pushing.cap}) :
          c \in pushing.bits <=> c \in actionToSend
  \/ /\ pushing \in [step : {"written"}, cap : Capabilities]
     /\ pushing.cap \in actionToSend \cup collided

\* As long as nothing collided the flag is up only for what is queued, or will be, or was.
FlagInv == actionReady /\ collided = {} => actionToSend # {} \/ Popping \/ Pushing

TriggerInv == HandsInv /\ PopInv /\ PushInv /\ FlagInv /\ ActionsAreTold

\* The bits are numbered, and none of them is the one that stands for no action.
LEMMA BitsLemma ==
  /\ DOMAIN BitOrder = 1 .. Len(BitOrder) /\ Len(BitOrder) \in Nat
  /\ NoAction \notin Capabilities
<1> DEFINE Names == {"TURN_ON", "TURN_OFF", "TOGGLE", "HOLD", "SHORT_PRESS"}
           Bits == Names \X Nat
<1>1. ASSUME NEW name \in Names PROVE Numbered(name) \in Seq(Bits)
  BY TriggerChannelAssumption DEF Numbered
<1>2. << <<"TURN_ON", 0>>, <<"TURN_OFF", 0>> >> \in Seq(Bits) /\ << <<"HOLD", 0>> >> \in Seq(Bits)
  OBVIOUS
<1>3. BitOrder \in Seq(Bits)
  BY <1>1, <1>2 DEF BitOrder
<1>4. DOMAIN BitOrder = 1 .. Len(BitOrder) /\ Len(BitOrder) \in Nat
  BY <1>3
<1>5. \A i \in DOMAIN BitOrder : BitOrder[i] \in Bits
  BY <1>3, <1>4
<1>6. NoAction \notin Bits
  BY DEF NoAction
<1> QED
  BY <1>4, <1>5, <1>6 DEF Capabilities

\* The lowest bit of a set that is not empty is one of it.
LEMMA LowestBitLemma ==
  ASSUME NEW caps, caps \subseteq Capabilities, caps # {}
  PROVE  LowestBit(caps) \in caps
<1> DEFINE Indices == {i \in DOMAIN BitOrder : BitOrder[i] \in caps}
<1>1. Indices \subseteq Nat /\ Indices # {}
  BY BitsLemma DEF Capabilities
<1>2. PICK least \in Indices : \A i \in Indices : least <= i
  <2> DEFINE Less == OpToRel(<, Nat)
  <2>1. IsWellFoundedOn(Less, Nat)
    BY NatLessThanWellFounded
  <2> HIDE DEF Less
  <2>2. \E x \in Indices : \A y \in Indices : ~ (<<y, x>> \in Less)
    <3> HIDE DEF Indices
    <3> QED
      BY <1>1, <2>1, WFMin, Zenon
  <2>3. \A x, y \in Nat : <<y, x>> \in Less <=> y < x
    BY DEF Less, OpToRel
  <2>4. PICK x \in Indices : \A y \in Indices : ~ (<<y, x>> \in Less)
    BY <2>2
  <2>5. \A y \in Indices : x <= y
    <3>1. ASSUME NEW y \in Indices PROVE x <= y
      <4>1. x \in Nat /\ y \in Nat /\ ~ (<<y, x>> \in Less)
        BY <1>1, <2>4, <3>1
      <4> HIDE DEF Indices
      <4>2. ~ (y < x)
        BY <2>3, <4>1, Zenon
      <4> QED
        BY <4>1, <4>2
    <3> QED
      BY <3>1
  <2> QED
    BY <2>5
<1>3. least \in DOMAIN BitOrder /\ BitOrder[least] \in caps
  BY <1>2
<1>4. \A j \in 1 .. least - 1 : BitOrder[j] \notin caps
  <2>1. ASSUME NEW j \in 1 .. least - 1, BitOrder[j] \in caps PROVE FALSE
    <3>1. j \in DOMAIN BitOrder
      BY <1>3, <2>1, BitsLemma
    <3> QED
      BY <1>1, <1>2, <2>1, <3>1
  <2> QED
    BY <2>1
<1> QED
  BY <1>3, <1>4 DEF LowestBit

\* Every step keeps the actions queued, flagged and owed together: pushAction(),
LEMMA PushSteps ==
  ASSUME TriggerInv,
         (\E event \in {EventOf(c) : c \in Capabilities} : GestureReads(event))
           \/ GestureWrites \/ GestureFlags
  PROVE  TriggerInv'
<1> USE DEF TriggerInv, HandsInv, FlagInv, ActionsAreTold, OnItsWay, Popping, Pushing
<1>1. ASSUME NEW event, GestureReads(event) PROVE TriggerInv'
  <2>1. PICK cap \in CapsOf(event) \cap activeActions :
          /\ pushing' = [step |-> "read", bits |-> actionToSend, cap |-> cap]
          /\ owed' = IF online THEN owed \cup {cap} ELSE owed
          /\ collided' = IF Popping THEN collided \cup ({cap, popping.cap} \ {NoAction})
                                    ELSE collided \ {cap}
    BY <1>1 DEF GestureReads
  <2>2. cap \in Capabilities /\ cap # NoAction
    BY BitsLemma DEF CapsOf, Attached
  <2>3. ~Pushing /\ UNCHANGED <<actionToSend, actionReady, popping, registering, online>>
    BY <1>1 DEF GestureReads
  <2>4. Popping => popping.cap \in Capabilities \cup {NoAction}
    BY DEF PopInv
  <2>5. /\ pushing' # NotPushing /\ pushing'.cap = cap /\ pushing'.bits = actionToSend
        /\ pushing' \in [step : {"read"}, bits : SUBSET Capabilities, cap : Capabilities]
    BY <2>1, <2>2 DEF NotPushing
  <2>6. collided' \subseteq Capabilities /\ (Popping => collided \cup {cap} \subseteq collided')
    BY <2>1, <2>2, <2>4
  <2>7. collided \subseteq collided' \cup {cap}
    BY <2>1
  <2>8. HandsInv'
    BY <2>1, <2>3, <2>4, <2>5, <2>6
  <2>9. PopInv'
    BY <2>3, <2>6 DEF PopInv
  <2>10. PushInv'
    BY <2>3, <2>5 DEF PushInv
  <2>11. FlagInv'
    BY <2>5
  <2>12. ASSUME online, NEW c \in Capabilities \ collided' PROVE c \in owed' <=> OnItsWay(c)'
    <3>1. CASE c = cap
      BY <2>1, <2>5, <2>12, <3>1
    <3>2. CASE c # cap
      <4>1. c \in Capabilities \ collided /\ (c \in owed' <=> c \in owed)
        BY <2>1, <2>7, <2>12, <3>2
      <4>2. OnItsWay(c)' <=> OnItsWay(c)
        BY <2>3, <2>5, <3>2
      <4> QED
        BY <2>12, <4>1, <4>2
    <3> QED
      BY <3>1, <3>2
  <2>13. \A c \in actionToSend' \ collided' : actionReady' \/ (Pushing' /\ c = pushing'.cap)
    BY <2>3, <2>5, <2>7
  <2>14. ActionsAreTold'
    BY <2>3, <2>5, <2>12, <2>13
  <2> QED
    BY <2>8, <2>9, <2>10, <2>11, <2>14
<1>2. CASE GestureWrites
  <2>1. /\ pushing \in [step : {"read"}, bits : SUBSET Capabilities, cap : Capabilities]
        /\ \A c \in Capabilities \ (collided \cup {pushing.cap}) :
             c \in pushing.bits <=> c \in actionToSend
    BY <1>2 DEF GestureWrites, PushInv, NotPushing
  <2>2. /\ actionToSend' = pushing.bits \cup {pushing.cap}
        /\ pushing' = [step |-> "written", cap |-> pushing.cap]
        /\ UNCHANGED <<actionReady, popping, registering, online, owed, collided>>
    BY <1>2 DEF GestureWrites
  <2>3. /\ pushing' # NotPushing /\ pushing'.cap = pushing.cap /\ pushing # NotPushing
        /\ pushing' \in [step : {"written"}, cap : Capabilities]
    BY <2>1, <2>2 DEF NotPushing
  <2>4. HandsInv' /\ PushInv' /\ FlagInv'
    BY <2>1, <2>2, <2>3 DEF PushInv
  <2>5. \A c \in Capabilities \ collided :
          c # pushing.cap => (c \in actionToSend' <=> c \in actionToSend)
    BY <2>1, <2>2
  <2>6. PopInv'
    <3>1. CASE popping = NotPopping
      BY <2>2, <3>1 DEF PopInv
    <3>2. CASE popping # NotPopping
      <4>1. pushing.cap \in collided
        BY <2>3, <3>2
      <4>2. \A c \in Capabilities \ collided : c \in actionToSend' <=> c \in actionToSend
        BY <2>5, <4>1
      <4>3. actionToSend' \subseteq Capabilities /\ collided # {}
        BY <2>1, <2>2, <4>1
      <4> QED
        BY <2>2, <3>2, <4>2, <4>3 DEF PopInv
    <3> QED
      BY <3>1, <3>2
  <2>7. ActionsAreTold'
    <3>1. ASSUME online, NEW c \in Capabilities \ collided PROVE c \in owed <=> OnItsWay(c)'
      BY <2>2, <2>3, <2>5, <3>1
    <3>2. \A c \in actionToSend' \ collided : actionReady \/ c = pushing.cap
      BY <2>1, <2>2, <2>3, <2>5
    <3> QED
      BY <2>2, <2>3, <3>1, <3>2
  <2> QED
    BY <2>4, <2>6, <2>7
<1>3. CASE GestureFlags
  <2>1. /\ pushing \in [step : {"written"}, cap : Capabilities]
        /\ pushing.cap \in actionToSend \cup collided /\ pushing # NotPushing
    BY <1>3 DEF GestureFlags, PushInv, NotPushing
  <2>2. /\ actionReady' = TRUE /\ pushing' = NotPushing
        /\ UNCHANGED <<actionToSend, popping, registering, online, owed, collided>>
    BY <1>3 DEF GestureFlags
  <2>3. HandsInv' /\ PushInv' /\ FlagInv'
    BY <2>1, <2>2 DEF PushInv
  <2>4. PopInv'
    BY <2>1, <2>2 DEF PopInv
  <2>5. ActionsAreTold'
    BY <2>1, <2>2
  <2> QED
    BY <2>3, <2>4, <2>5
<1> QED
  BY <1>1, <1>2, <1>3

\* popAction(),
LEMMA PopSteps ==
  ASSUME TriggerInv, PopReads \/ PopWrites \/ TellAction \/ ForgetAction
  PROVE  TriggerInv'
<1> USE DEF TriggerInv, HandsInv, FlagInv, ActionsAreTold, OnItsWay, Popping, Pushing
<1>0. Pushing => pushing.cap \in Capabilities /\ pushing.cap # NoAction
  BY BitsLemma DEF PushInv
<1>1. CASE PopReads
  <2> DEFINE cap == IF actionToSend = {} THEN NoAction ELSE LowestBit(actionToSend)
  <2>1. /\ popping' = [step |-> "read", bits |-> actionToSend, cap |-> cap]
        /\ collided' = IF Pushing THEN collided \cup ({cap, pushing.cap} \ {NoAction}) ELSE collided
        /\ ~Popping /\ UNCHANGED <<actionToSend, actionReady, pushing, registering, online, owed>>
        /\ online \/ registering
    BY <1>1 DEF PopReads
  <2>2. /\ cap = NoAction => actionToSend = {}
        /\ cap # NoAction => cap \in actionToSend
    BY LowestBitLemma, BitsLemma
  <2> HIDE DEF cap
  <2>3. /\ popping' # NotPopping /\ popping'.cap = cap /\ popping'.bits = actionToSend
        /\ popping' \in [step : {"read"}, bits : SUBSET Capabilities, cap : Capabilities \cup {NoAction}]
    BY <2>1, <2>2 DEF NotPopping
  <2>4. /\ collided \subseteq collided' /\ collided' \subseteq Capabilities
        /\ Pushing => pushing.cap \in collided' /\ cap \in collided' \cup {NoAction}
    BY <1>0, <2>1, <2>2
  <2>5. HandsInv' /\ FlagInv'
    BY <2>1, <2>3, <2>4
  <2>6. collided' = {} /\ actionReady => actionToSend # {}
    BY <2>1, <2>4
  <2>7. PopInv'
    BY <2>1, <2>2, <2>3, <2>6 DEF PopInv
  <2>8. PushInv'
    BY <2>1, <2>4 DEF PushInv
  <2>9. ActionsAreTold'
    BY <2>1, <2>2, <2>3, <2>4, BitsLemma
  <2> QED
    BY <2>5, <2>7, <2>8, <2>9
<1>2. CASE PopWrites
  <2> DEFINE left == popping.bits \ {popping.cap}
  <2>1. /\ popping \in [step : {"read"}, bits : SUBSET Capabilities, cap : Capabilities \cup {NoAction}]
        /\ popping.cap = NoAction => popping.bits = {}
        /\ popping.cap # NoAction => popping.cap \in popping.bits
        /\ \A c \in Capabilities \ collided : c \in popping.bits <=> c \in actionToSend
        /\ collided = {} /\ actionReady => actionToSend # {}
        /\ popping # NotPopping
    BY <1>2 DEF PopWrites, PopInv, NotPopping
  <2>2. /\ actionToSend' = IF popping.cap = NoAction THEN actionToSend ELSE left
        /\ popping' = [step |-> "tested", cap |-> popping.cap,
                       clears |-> popping.cap # NoAction /\ NoneLeft(left)]
        /\ UNCHANGED <<actionReady, pushing, registering, online, owed, collided>>
    BY <1>2 DEF PopWrites
  <2>3. (popping.cap # NoAction /\ NoneLeft(left)) \in BOOLEAN
    BY Zenon DEF NoneLeft
  <2>4. /\ popping'.cap = popping.cap /\ popping' # NotPopping
        /\ popping'.clears = (popping.cap # NoAction /\ left = {})
        /\ popping' \in [step : {"tested"}, cap : Capabilities \cup {NoAction}, clears : BOOLEAN]
    BY <2>1, <2>2, <2>3 DEF NotPopping, NoneLeft
  <2>5. \A c \in Capabilities \ collided :
          c # popping.cap => (c \in actionToSend' <=> c \in actionToSend)
    BY <2>1, <2>2, BitsLemma
  <2>6. actionToSend' \subseteq Capabilities /\ popping.cap \notin actionToSend'
    BY <2>1, <2>2, BitsLemma
  <2>7. HandsInv' /\ FlagInv'
    <3>1. actionToSend' \subseteq Capabilities /\ popping' # NotPopping /\ popping # NotPopping
          /\ popping'.cap = popping.cap
      BY <2>1, <2>4, <2>6
    <3>2. UNCHANGED <<actionReady, pushing, registering, online, collided>>
      BY <2>2
    <3> QED
      BY <3>1, <3>2
  <2>8. PopInv'
    <3>1. popping'.clears \/ popping'.cap = NoAction => actionToSend' \subseteq collided
      BY <2>1, <2>2, <2>4, <2>6
    <3>2. collided = {} /\ actionReady => popping'.clears \/ actionToSend' # {}
      BY <2>1, <2>2, <2>4
    <3> QED
      BY <2>2, <2>4, <2>6, <3>1, <3>2 DEF PopInv
  <2>9. PushInv'
    <3>1. Pushing => popping.cap \in collided \cup {NoAction} /\ pushing.cap \in collided
      BY <2>1
    <3>2. \A c \in Capabilities \ collided : Pushing => (c \in actionToSend' <=> c \in actionToSend)
      BY <2>5, <3>1, BitsLemma
    <3> QED
      BY <2>2, <3>1, <3>2 DEF PushInv
  <2>10. ActionsAreTold'
    <3>1. ASSUME NEW c \in Capabilities \ collided PROVE OnItsWay(c)' <=> OnItsWay(c)
      BY <2>1, <2>2, <2>4, <2>5
    <3>2. \A c \in actionToSend' \ collided : c \in actionToSend
      BY <2>5, <2>6
    <3> QED
      BY <2>2, <2>4, <3>1, <3>2
  <2> QED
    BY <2>7, <2>8, <2>9, <2>10
<1>3. CASE TellAction \/ ForgetAction
  <2>1. /\ popping \in [step : {"tested"}, cap : Capabilities \cup {NoAction}, clears : BOOLEAN]
        /\ popping.clears \/ popping.cap = NoAction => actionToSend \subseteq collided
        /\ popping.cap \notin actionToSend \ collided
        /\ collided = {} /\ actionReady => popping.clears \/ actionToSend # {}
        /\ popping # NotPopping
    BY <1>3 DEF TellAction, ForgetAction, PopReturns, PopInv, NotPopping
  <2>2. /\ actionReady' = (actionReady /\ ~popping.clears) /\ popping' = NotPopping
        /\ UNCHANGED <<actionToSend, pushing, collided>>
    BY <1>3 DEF TellAction, ForgetAction, PopReturns
  <2>3. \/ ~registering /\ UNCHANGED <<registering, online>> /\ owed' = owed \ {popping.cap}
        \/ registering /\ UNCHANGED <<registering, online, owed>>
        \/ popping.cap = NoAction /\ registering' = FALSE /\ online' = TRUE /\ owed' = {}
    BY <1>3 DEF TellAction, ForgetAction
  <2>4. actionReady' \in BOOLEAN /\ (actionReady' => actionReady /\ ~popping.clears)
        /\ (actionReady /\ ~popping.clears => actionReady')
    BY <2>1, <2>2, Zenon
  <2>5. HandsInv' /\ FlagInv'
    BY <2>1, <2>2, <2>3, <2>4
  <2>6. PopInv' /\ PushInv'
    BY <2>2 DEF PopInv, PushInv
  <2>7. Pushing => pushing.cap \in collided /\ popping.cap \in collided \cup {NoAction}
    BY <2>1
  <2>8. ASSUME online', NEW c \in Capabilities \ collided PROVE c \in owed' <=> OnItsWay(c)'
    <3>1. CASE ~registering /\ UNCHANGED online /\ owed' = owed \ {popping.cap}
      <4>1. c \in owed <=> OnItsWay(c)
        BY <2>8, <3>1
      <4>2. CASE c = popping.cap
        BY <2>1, <2>2, <2>7, <2>8, <3>1, <4>2
      <4>3. CASE c # popping.cap
        BY <2>2, <3>1, <4>1, <4>3
      <4> QED
        BY <4>2, <4>3
    <3>2. CASE popping.cap = NoAction /\ owed' = {}
      BY <2>1, <2>2, <2>7, <2>8, <3>2
    <3> QED
      BY <2>3, <2>8, <3>1, <3>2
  <2>9. \A c \in actionToSend \ collided : actionReady' \/ (Pushing /\ c = pushing.cap)
    BY <2>1, <2>4
  <2>10. ActionsAreTold'
    BY <2>2, <2>5, <2>8, <2>9
  <2> QED
    BY <2>5, <2>6, <2>10
<1> QED
  BY <1>1, <1>2, <1>3

\* and what else there is.
LEMMA TriggerStep ==
  ASSUME TriggerInv, [TriggerChannelNext]_triggerChannelVars
  PROVE  TriggerInv'
<1> USE DEF TriggerInv, HandsInv, PopInv, PushInv, FlagInv, ActionsAreTold, OnItsWay, Popping, Pushing
<1>1. CASE RequestConfig
  BY <1>1 DEF RequestConfig
<1>2. ASSUME NEW actions \in ActiveActions, ActionsConfigured(actions) PROVE TriggerInv'
  BY <1>2 DEF ActionsConfigured
<1>3. CASE TriggerRegistered
  BY <1>3 DEF TriggerRegistered
<1>4. CASE TriggerDisconnected
  BY <1>4 DEF TriggerDisconnected
<1>5. CASE SinceCommunication
  BY <1>5 DEF SinceCommunication
<1>6. CASE UNCHANGED triggerChannelVars
  BY <1>6 DEF triggerChannelVars
<1> QED
  BY <1>1, <1>2, <1>3, <1>4, <1>5, <1>6, PushSteps, PopSteps, Zenon DEF TriggerChannelNext

\* A device starts with channels that the server knows as they are.
LEMMA ChannelTypesStart == ChannelInit => ChannelTypeOK
<1> SUFFICES ASSUME ChannelInit PROVE ChannelTypeOK
  OBVIOUS
<1>1. PICK v \in ChannelValues :
        value = [c \in Channels |-> v] /\ serverValue = [c \in Channels |-> v]
  BY DEF ChannelInit
<1>2. value \in [Channels -> Copies] /\ serverValue \in [Channels -> Copies]
  BY <1>1, CopiesLemma
<1>3. valueChanged \in [Channels -> BOOLEAN]
  BY Zenon DEF ChannelInit
<1>4. throttled \in BOOLEAN /\ session \in BOOLEAN
  BY Zenon DEF ChannelInit
<1> QED
  BY <1>2, <1>3, <1>4 DEF ChannelInit, ChannelTypeOK

-----------------------------------------------------------------------------
(***************************************************************************)
(* The theorems.                                                           *)
(***************************************************************************)

\* Whatever the timers write while the loop sends, and whichever connections break, a value that
\* the server does not have is flagged or on its way.
THEOREM ValuesReachTheServer == ChannelSpec => []ServerIsCurrent
<1> DEFINE Inv == ChannelTypeOK /\ CopyInv /\ ServerIsCurrent
<1>1. ChannelInit => Inv
  <2>1. ChannelInit => CopyInv /\ ServerIsCurrent
    BY DEF ChannelInit, CopyInv, ServerIsCurrent, Nothing
  <2> QED
    BY <2>1, ChannelTypesStart
<1>2. Inv /\ [ChannelNext]_channelVars => Inv'
  BY ChannelTypeStep, CurrentStep
<1> QED
  BY <1>1, <1>2, PTL DEF ChannelSpec

\* However the timer and the loop come in each other's way, every gesture that the server wanted
\* is told once or queued with its flag, but for those pushed or popped while the other was at
\* work, and nothing else is told.
THEOREM GesturesReachTheServer == TriggerChannelSpec => []ActionsAreTold
<1>1. TriggerChannelInit => TriggerInv
  BY DEF TriggerChannelInit, TriggerInv, HandsInv, PopInv, PushInv, FlagInv, ActionsAreTold,
         OnItsWay, Popping, Pushing
<1>2. TriggerInv /\ [TriggerChannelNext]_triggerChannelVars => TriggerInv'
  BY TriggerStep
<1>3. TriggerInv => ActionsAreTold
  BY DEF TriggerInv
<1> QED
  BY <1>1, <1>2, <1>3, PTL DEF TriggerChannelSpec

-----------------------------------------------------------------------------
(***************************************************************************)
(* The types of the two.                                                   *)
(***************************************************************************)

\* A call of the button's timer keeps its types, for the counter of clicks up to its limit.
LEMMA ButtonTypes ==
  ASSUME ButtonTypeOK, NEW level \in BOOLEAN, NEW dt \in Elapsed, ButtonOnTimer(level, dt)
  PROVE  ButtonTypeOK'
<1>1. /\ bistable \in BOOLEAN /\ pressed \in BOOLEAN /\ candidate \in BOOLEAN /\ sample \in BOOLEAN
      /\ debounceAge \in Ages /\ filterAge \in Ages /\ changeAge \in Ages /\ steady \in Ages
      /\ clickCounter \in 0 .. MostClicks + 2 /\ holdSend \in 0 .. MostHolds
      /\ MostClicks \in Nat /\ MostHolds \in Nat /\ 0 \in Ages
  BY TimesLemma, ButtonAssumption DEF ButtonTypeOK, Ages
<1>2. \A age \in Ages : Later(age, dt) \in Ages
  BY LaterLemma
<1>3. /\ pressed' \in BOOLEAN /\ candidate' \in BOOLEAN
      /\ debounceAge' \in Ages /\ filterAge' \in Ages
  BY <1>1, <1>2 DEF ButtonOnTimer, Update, Withdraw, Propose, WaitForFilter, Accept
<1>4. /\ sample' \in BOOLEAN /\ steady' \in Ages /\ bistable' \in BOOLEAN
  BY <1>1, <1>2 DEF ButtonOnTimer
<1>5. /\ changeAge' \in Ages /\ clickCounter' \in 0 .. MostClicks + 2
      /\ holdSend' \in 0 .. MostHolds /\ events' \subseteq ButtonEvents
  <2>1. CASE Changed
    <3>1. \/ clickCounter' = clickCounter
          \/ clickCounter <= MostClicks + 1 /\ clickCounter' = clickCounter + 1
      <4> DEFINE counts == (pressed' \/ bistable) /\ clickCounter <= MostClicks + 1
      <4>1. clickCounter' = IF counts THEN clickCounter + 1 ELSE clickCounter
        BY <2>1, Zenon DEF Changed
      <4>2. counts => clickCounter <= MostClicks + 1
        OBVIOUS
      <4> HIDE DEF counts
      <4> QED
        BY <4>1, <4>2
    <3>2. events' \subseteq ButtonEvents
      BY <2>1 DEF Changed, ButtonEvents
    <3> QED
      BY <1>1, <2>1, <3>1, <3>2 DEF Changed
  <2>2. CASE Held(dt)
    <3>1. \/ holdSend' = holdSend
          \/ holdSend < MostHolds /\ holdSend' = holdSend + 1
      <4> DEFINE more == Holds(dt) /\ holdSend < MostHolds
      <4>1. (more /\ holdSend' = holdSend + 1) \/ holdSend' = holdSend
        BY <2>2, Zenon DEF Held
      <4> QED
        BY <4>1, Zenon
    <3>2. events' \subseteq ButtonEvents
      BY <2>2 DEF Held, ButtonEvents
    <3> QED
      BY <1>1, <1>2, <2>2, <3>1, <3>2 DEF Held
  <2>3. CASE Quiet(dt)
    <3>1. Reported \subseteq ButtonEvents
      <4>1. \A n \in 1 .. MostClicks + 1 : n - 1 \in 0 .. MostClicks
        BY <1>1
      <4> QED
        BY <4>1 DEF Reported, ButtonEvents
    <3>2. events' = {} \/ events' = Reported
      BY <2>3 DEF Quiet
    <3>3. (clickCounter' = clickCounter /\ holdSend' = holdSend) \/ (clickCounter' = 0 /\ holdSend' = 0)
      BY <2>3 DEF Quiet
    <3> QED
      BY <1>1, <1>2, <2>3, <3>1, <3>2, <3>3 DEF Quiet
  <2> QED
    BY <2>1, <2>2, <2>3 DEF ButtonOnTimer
<1> QED
  BY <1>3, <1>4, <1>5 DEF ButtonTypeOK

\* Within a gesture the local action has not run more often than its event has happened; the
\* click that ends a gesture is the one run more.
RunsInv == ~Resting => runs <= seen
TriggerTypes == TriggerTypeOK /\ ActionInv /\ RunsInv

\* A button and its action trigger start typed.
LEMMA TriggerTypesStart == TriggerInit => TriggerTypes
<1> SUFFICES ASSUME TriggerInit PROVE TriggerTypes
  OBVIOUS
<1>1. /\ active = {} /\ enabled = [direct |-> TRUE, click |-> FALSE] /\ localEvent \in LocalEvents
      /\ clickCounter = 0 /\ holdSend = 0 /\ runs = 0 /\ seen = 0 /\ untouched = TRUE
  BY DEF TriggerInit, ButtonInit
<1>2. ButtonTypeOK
  BY TimesLemma, ButtonAssumption DEF TriggerInit, ButtonInit, ButtonTypeOK, Ages
<1>3. DirectIsEnabled = TRUE /\ ClickEnabled(active) = FALSE
  BY <1>1 DEF DirectIsEnabled, ClickEnabled
<1>4. ActionInv /\ RunsInv
  BY <1>1, <1>3 DEF ActionInv, EnabledInv, CountInv, Resting, RunsInv
<1>5. ASSUME NEW direct \in BOOLEAN, NEW click \in BOOLEAN
      PROVE  [direct |-> direct, click |-> click] \in [{"direct", "click"} -> BOOLEAN]
  OBVIOUS
<1>6. enabled \in [{"direct", "click"} -> BOOLEAN]
  BY <1>1, <1>5, Zenon
<1>7. runs \in Nat /\ seen \in Nat /\ runs <= seen + 1
  BY <1>1
<1> QED
  BY <1>1, <1>2, <1>4, <1>6, <1>7 DEF TriggerTypes, TriggerTypeOK

\* And no call of the timer and no configuration from the server disturbs that.
LEMMA TriggerTypesStep ==
  ASSUME TriggerTypes, [TriggerNext]_triggerAndButtonVars
  PROVE  TriggerTypes'
<1>1. ASSUME NEW level \in BOOLEAN, NEW dt \in Elapsed, TriggerOnTimer(level, dt)
      PROVE  TriggerTypes'
  <2>1. /\ ButtonOnTimer(level, dt) /\ RunActions
        /\ UNCHANGED <<localEvent, enabled, active>>
    BY <1>1 DEF TriggerOnTimer
  <2>2. ButtonTypeOK' /\ ActionInv'
    BY <1>1, <2>1, ButtonTypes, CountsLemma DEF TriggerTypes, TriggerTypeOK
  <2>8. runs' = (IF Resting THEN 0 ELSE runs) + Cardinality(HandlersOf(events'))
    BY <2>1, Zenon DEF RunActions
  <2>9. seen' = (IF Resting THEN 0 ELSE seen) + Cardinality({localEvent} \cap events')
    BY <2>1, Zenon DEF RunActions
  <2>10. untouched' \in BOOLEAN
    BY <2>1, Zenon DEF RunActions
  <2> DEFINE before == IF Resting THEN 0 ELSE runs
             already == IF Resting THEN 0 ELSE seen
             ran == Cardinality(HandlersOf(events'))
             once == Cardinality({localEvent} \cap events')
  <2>3. /\ runs' = before + ran /\ seen' = already + once /\ untouched' \in BOOLEAN
    BY <2>8, <2>9, <2>10
  <2>4. once \in Nat /\ ran \in Nat /\ ran <= once + 1
        /\ (Click(1) \notin events' => ran <= once)
    <3>1. once = IF localEvent \in events' THEN 1 ELSE 0
      BY OneOrNone
    <3>2. ran = IF enabled["direct"] THEN IF localEvent \in events' THEN 1 ELSE 0
                ELSE IF enabled["click"] /\ Click(1) \in events' THEN 1 ELSE 0
      BY HandlersLemma DEF TriggerTypes, ActionInv
    <3> HIDE DEF once, ran
    <3> QED
      BY <3>1, <3>2
  <2>5. before \in Nat /\ already \in Nat /\ before <= already
    BY DEF TriggerTypes, RunsInv, TriggerTypeOK
  <2>6. ~Resting' => Click(1) \notin events'
    BY <2>1, GestureLemma DEF TriggerTypes, ActionInv, CountInv
  <2> HIDE DEF before, already, ran, once
  <2>7. runs' \in Nat /\ seen' \in Nat /\ runs' <= seen' + 1 /\ (~Resting' => runs' <= seen')
    BY <2>3, <2>4, <2>5, <2>6
  <2> QED
    BY <2>1, <2>2, <2>3, <2>7 DEF TriggerTypes, TriggerTypeOK, RunsInv
<1>2. ASSUME NEW config \in Configurations, HandleChannelConfig(config) PROVE TriggerTypes'
  <2>1. /\ UNCHANGED <<localEvent, runs, seen, buttonVars>> /\ untouched' = FALSE
        /\ active' = config
        /\ enabled' = [direct |-> DirectEnabled(config), click |-> ClickEnabled(config)]
    BY <1>2 DEF HandleChannelConfig
  <2>2. ActionInv'
    BY <1>2, ConfigLemma DEF TriggerTypes
  <2>3. ButtonTypeOK' /\ RunsInv'
    BY <2>1 DEF TriggerTypes, TriggerTypeOK, ButtonTypeOK, buttonVars, RunsInv, Resting
  <2>4. DirectEnabled(config) \in BOOLEAN /\ ClickEnabled(config) \in BOOLEAN
    <3>1. enabled["direct"] \in BOOLEAN
      BY DEF TriggerTypes, TriggerTypeOK
    <3> QED
      BY <3>1, Zenon DEF DirectEnabled, ClickEnabled
  <2>5. enabled' \in [{"direct", "click"} -> BOOLEAN]
    BY <2>1, <2>4
  <2> QED
    BY <2>1, <2>2, <2>3, <2>5 DEF TriggerTypes, TriggerTypeOK
<1>3. CASE UNCHANGED triggerAndButtonVars
  BY <1>3 DEF triggerAndButtonVars, triggerVars, buttonVars, TriggerTypes, TriggerTypeOK,
    ButtonTypeOK, ActionInv, EnabledInv, CountInv, RunsInv, DirectIsEnabled, ClickEnabled, Flips,
    DisablesLocalOperation, Advertised, Resting
<1> QED
  BY <1>1, <1>2, <1>3 DEF TriggerNext

\* What popAction() and pushAction() have read are bits, and what they take or add is one.
HandsType ==
  /\ \/ popping = NotPopping
     \/ popping \in [step : {"read"}, bits : SUBSET Capabilities, cap : Capabilities \cup {NoAction}]
     \/ popping \in [step : {"tested"}, cap : Capabilities \cup {NoAction}, clears : BOOLEAN]
  /\ \/ pushing = NotPushing
     \/ pushing \in [step : {"read"}, bits : SUBSET Capabilities, cap : Capabilities]
     \/ pushing \in [step : {"written"}, cap : Capabilities]
TriggerChannelTypes == TriggerChannelTypeOK /\ HandsType

\* The queue of gestures starts empty.
LEMMA TriggerChannelTypesStart == TriggerChannelInit => TriggerChannelTypes
BY DEF TriggerChannelInit, TriggerChannelTypes, TriggerChannelTypeOK, HandsType

\* Whoever comes in between, a step keeps the types.
LEMMA TriggerChannelTypesStep ==
  ASSUME TriggerChannelTypes, [TriggerChannelNext]_triggerChannelVars
  PROVE  TriggerChannelTypes'
<1> USE DEF TriggerChannelTypes, TriggerChannelTypeOK, HandsType
<1>1. ASSUME NEW event, GestureReads(event) PROVE TriggerChannelTypes'
  <2>1. PICK cap \in CapsOf(event) \cap activeActions :
          /\ pushing' = [step |-> "read", bits |-> actionToSend, cap |-> cap]
          /\ owed' = IF online THEN owed \cup {cap} ELSE owed
          /\ collided' = IF Popping THEN collided \cup ({cap, popping.cap} \ {NoAction})
                                    ELSE collided \ {cap}
    BY <1>1 DEF GestureReads
  <2>2. cap \in Capabilities
    BY DEF CapsOf, Attached
  <2>3. UNCHANGED <<attachedTo, actionToSend, actionReady, configAsked, activeActions, popping,
                    recently, registering, online, toldAction>>
    BY <1>1 DEF GestureReads
  <2>4. Popping => popping.cap \in Capabilities \cup {NoAction}
    BY DEF Popping
  <2>5. collided' \subseteq Capabilities /\ owed' \subseteq Capabilities
    BY <2>1, <2>2, <2>4
  <2> QED
    BY <2>1, <2>2, <2>3, <2>5
<1>2. CASE GestureWrites
  <2>1. pushing \in [step : {"read"}, bits : SUBSET Capabilities, cap : Capabilities]
    BY <1>2 DEF GestureWrites, NotPushing
  <2> QED
    BY <1>2, <2>1 DEF GestureWrites
<1>3. CASE GestureFlags
  BY <1>3 DEF GestureFlags
<1>4. CASE PopReads
  <2> DEFINE cap == IF actionToSend = {} THEN NoAction ELSE LowestBit(actionToSend)
  <2>1. /\ UNCHANGED <<attachedTo, actionToSend, actionReady, configAsked, activeActions, pushing,
                       registering, online, owed, toldAction>>
        /\ recently' \in {TRUE, recently}
        /\ popping' = [step |-> "read", bits |-> actionToSend, cap |-> cap]
        /\ collided' = IF Pushing THEN collided \cup ({cap, pushing.cap} \ {NoAction}) ELSE collided
    BY <1>4 DEF PopReads
  <2>2. cap \in Capabilities \cup {NoAction}
    BY LowestBitLemma
  <2> HIDE DEF cap
  <2>3. Pushing => pushing.cap \in Capabilities
    BY DEF Pushing
  <2>4. collided' \subseteq Capabilities
    BY <2>1, <2>2, <2>3
  <2>5. recently' \in BOOLEAN
    BY <2>1
  <2> QED
    BY <2>1, <2>2, <2>4, <2>5
<1>5. CASE PopWrites
  <2> DEFINE left == popping.bits \ {popping.cap}
  <2>1. /\ popping \in [step : {"read"}, bits : SUBSET Capabilities, cap : Capabilities \cup {NoAction}]
        /\ actionToSend' = IF popping.cap = NoAction THEN actionToSend ELSE left
        /\ popping' = [step |-> "tested", cap |-> popping.cap,
                       clears |-> popping.cap # NoAction /\ NoneLeft(left)]
        /\ UNCHANGED <<attachedTo, actionReady, configAsked, activeActions, pushing, recently,
                       registering, online, owed, toldAction, collided>>
    BY <1>5 DEF PopWrites, NotPopping
  <2>2. (popping.cap # NoAction /\ NoneLeft(left)) \in BOOLEAN
    BY Zenon DEF NoneLeft
  <2>3. left \subseteq Capabilities
    BY <2>1
  <2> HIDE DEF left
  <2> QED
    BY <2>1, <2>2, <2>3
<1>6. CASE TellAction \/ ForgetAction
  <2>1. /\ popping \in [step : {"tested"}, cap : Capabilities \cup {NoAction}, clears : BOOLEAN]
        /\ actionReady' = (actionReady /\ ~popping.clears) /\ popping' = NotPopping
        /\ UNCHANGED <<attachedTo, actionToSend, activeActions, pushing, recently, collided>>
    BY <1>6 DEF TellAction, ForgetAction, PopReturns, NotPopping
  <2>2. actionReady' \in BOOLEAN
    BY <2>1, Zenon
  <2>3. toldAction' \in {toldAction, popping.cap} /\ owed' \subseteq owed
    BY <1>6 DEF TellAction, ForgetAction
  <2>4. {registering', online', configAsked'} \subseteq BOOLEAN
    BY <1>6 DEF TellAction, ForgetAction
  <2> QED
    BY <2>1, <2>2, <2>3, <2>4
<1>7. CASE RequestConfig
  BY <1>7 DEF RequestConfig
<1>8. ASSUME NEW actions \in ActiveActions, ActionsConfigured(actions) PROVE TriggerChannelTypes'
  BY <1>8 DEF ActionsConfigured
<1>9. CASE TriggerRegistered
  BY <1>9 DEF TriggerRegistered
<1>10. CASE TriggerDisconnected
  BY <1>10 DEF TriggerDisconnected
<1>11. CASE SinceCommunication
  BY <1>11 DEF SinceCommunication
<1>12. CASE UNCHANGED triggerChannelVars
  BY <1>12 DEF triggerChannelVars
<1> QED
  BY <1>1, <1>2, <1>3, <1>4, <1>5, <1>6, <1>7, <1>8, <1>9, <1>10, <1>11, <1>12
  DEF TriggerChannelNext
=============================================================================
