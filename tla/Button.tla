-------------------------------- MODULE Button --------------------------------
(***************************************************************************)
(* ButtonState, SimpleButton and Button: from the level of a pin to the    *)
(* events of a gesture.  Time is counted in calls of the timer; an age is  *)
(* the time since a stamp, and counts no further than OldAge.              *)
(***************************************************************************)
EXTENDS Integers, FiniteSets

CONSTANTS
  DebounceDelay, NoiseFilterDelay,    \* debounceDelayMs, swNoiseFilterDelayMs
  HoldTime, RepeatOnHold, MulticlickTime,
  MostClicks,     \* 10: the largest n of ON_CLICK_n and ON_LONG_CLICK_n
  MostHolds,      \* bound of holdSend
  Elapsed         \* time between two calls of the timer

ASSUME ButtonAssumption ==
  /\ {DebounceDelay, NoiseFilterDelay, HoldTime, RepeatOnHold, MulticlickTime} \subseteq Nat
  /\ MostClicks \in Nat \ {0} /\ MostHolds \in Nat \ {0}
  /\ Elapsed \subseteq Nat \ {0} /\ \E longest \in Elapsed : \A dt \in Elapsed : dt <= longest

VARIABLES
  bistable,
  pressed,        \* prevState = valueOnPress()
  candidate,      \* newStatusCandidate = valueOnPress()
  debounceAge, filterAge, changeAge,  \* since debounceTimeMs, filterTimeMs, lastStateChangeMs
  clickCounter, holdSend,
  events,         \* what the last call of the timer reported
  sample, steady  \* the level the pin had in the last call, and for how long in a row

buttonVars == <<bistable, pressed, candidate, debounceAge, filterAge, changeAge,
                clickCounter, holdSend, events, sample, steady>>

Largest(S) == CHOOSE x \in S : \A y \in S : y <= x
OldAge == 1 + Largest({DebounceDelay, NoiseFilterDelay, MulticlickTime,
                       HoldTime + MostHolds * RepeatOnHold})
Later(age, dt) == IF age + dt < OldAge THEN age + dt ELSE OldAge
Ages == 0 .. OldAge

\* An event is a name with the number of clicks, 0 where there is none.
OnPress == <<"ON_PRESS", 0>>
OnRelease == <<"ON_RELEASE", 0>>
OnChange == <<"ON_CHANGE", 0>>
OnHold == <<"ON_HOLD", 0>>
OnCrazyClicker == <<"ON_CRAZY_CLICKER", 0>>
Click(n) == <<"ON_CLICK", n>>
LongClick(n) == <<"ON_LONG_CLICK", n>>
ButtonEvents == {OnPress, OnRelease, OnChange, OnHold, OnCrazyClicker}
  \cup {Click(n) : n \in 1 .. MostClicks} \cup {LongClick(n) : n \in 0 .. MostClicks}

ButtonTypeOK ==
  /\ {bistable, pressed, candidate, sample} \subseteq BOOLEAN
  /\ {debounceAge, filterAge, changeAge, steady} \subseteq Ages
  /\ clickCounter \in 0 .. MostClicks + 2 /\ holdSend \in 0 .. MostHolds
  /\ events \subseteq ButtonEvents

\* ButtonState::init reads the pin; the stamps are 0, so the ages are the time since the start.
ButtonInit ==
  /\ bistable \in BOOLEAN
  /\ pressed \in BOOLEAN /\ candidate = pressed /\ sample = pressed
  /\ \E uptime \in {0, OldAge} :
       debounceAge = uptime /\ filterAge = uptime /\ changeAge = uptime
  /\ steady = 0
  /\ clickCounter = 0 /\ holdSend = 0 /\ events = {}

-----------------------------------------------------------------------------
(***************************************************************************)
(* ButtonState::update with the pin at level, dt after the call before.    *)
(***************************************************************************)
Reads(dt) == DebounceDelay = 0 \/ Later(debounceAge, dt) > DebounceDelay
BecomesCandidate(level) == NoiseFilterDelay # 0 /\ level # candidate

\* mutant: a candidate is never withdrawn
KeepCandidate(level, dt) ==
  /\ Reads(dt) /\ level = pressed
  /\ debounceAge' = Later(debounceAge, dt) /\ filterAge' = Later(filterAge, dt)
  /\ UNCHANGED <<pressed, candidate>>

Withdraw(level, dt) ==
  /\ Reads(dt) /\ level = pressed
  /\ candidate' = pressed
  /\ debounceAge' = Later(debounceAge, dt) /\ filterAge' = Later(filterAge, dt)
  /\ UNCHANGED pressed

Propose(level, dt) ==
  /\ Reads(dt) /\ level # pressed /\ BecomesCandidate(level)
  /\ candidate' = level /\ filterAge' = 0
  /\ debounceAge' = Later(debounceAge, dt)
  /\ UNCHANGED pressed

WaitForFilter(level, dt) ==
  /\ Reads(dt) => /\ level # pressed /\ ~BecomesCandidate(level)
                  /\ Later(filterAge, dt) <= NoiseFilterDelay
  /\ debounceAge' = Later(debounceAge, dt) /\ filterAge' = Later(filterAge, dt)
  /\ UNCHANGED <<pressed, candidate>>

Accept(level, dt) ==
  /\ Reads(dt) /\ level # pressed /\ ~BecomesCandidate(level)
  /\ Later(filterAge, dt) > NoiseFilterDelay
  /\ pressed' = level /\ debounceAge' = 0
  /\ filterAge' = Later(filterAge, dt)
  /\ UNCHANGED candidate

Update(level, dt) ==
  \/ Withdraw(level, dt) \/ Propose(level, dt) \/ WaitForFilter(level, dt)
  \/ Accept(level, dt)

-----------------------------------------------------------------------------
(***************************************************************************)
(* Button::onTimer after the update.  timeDelta was taken before it.       *)
(***************************************************************************)
Changed ==
  /\ pressed' # pressed
  /\ events' = {IF pressed' THEN OnPress ELSE OnRelease, OnChange}
  /\ changeAge' = 0
  /\ clickCounter' = IF (pressed' \/ bistable) /\ clickCounter <= MostClicks + 1
                       THEN clickCounter + 1 ELSE clickCounter
  /\ UNCHANGED holdSend

\* if (clickCounter <= 1 && ...) of a monostable button that is held
Holds(dt) ==
  /\ clickCounter <= 1 /\ HoldTime > 0
  /\ Later(changeAge, dt) > HoldTime + holdSend * RepeatOnHold
  /\ RepeatOnHold = 0 => holdSend = 0

Held(dt) ==
  /\ pressed' = pressed /\ ~bistable /\ pressed
  /\ IF Holds(dt) /\ holdSend < MostHolds
       THEN events' = {OnHold} /\ holdSend' = holdSend + 1
       ELSE events' = {} /\ UNCHANGED holdSend
  /\ changeAge' = Later(changeAge, dt)
  /\ UNCHANGED clickCounter

Reported ==
  IF holdSend = 0
    THEN {Click(n) : n \in {clickCounter} \cap 1 .. MostClicks}
           \cup (IF clickCounter >= MostClicks THEN {OnCrazyClicker} ELSE {})
    ELSE {LongClick(n - 1) : n \in {clickCounter} \cap 1 .. MostClicks + 1}

Quiet(dt) ==
  /\ pressed' = pressed /\ (bistable \/ ~pressed)
  /\ changeAge' = Later(changeAge, dt)
  /\ IF MulticlickTime = 0 \/ Later(changeAge, dt) > MulticlickTime
       THEN /\ events' = IF MulticlickTime = 0 THEN {} ELSE Reported
            /\ clickCounter' = 0 /\ holdSend' = 0
       ELSE events' = {} /\ UNCHANGED <<clickCounter, holdSend>>

ButtonOnTimer(level, dt) ==
  /\ Update(level, dt)
  /\ Changed \/ Held(dt) \/ Quiet(dt)
  /\ sample' = level
  /\ steady' = IF level = sample THEN Later(steady, dt) ELSE 0
  /\ UNCHANGED bistable

ButtonNext == \E level \in BOOLEAN, dt \in Elapsed : ButtonOnTimer(level, dt)
ButtonSpec == ButtonInit /\ [][ButtonNext]_buttonVars
-----------------------------------------------------------------------------
\* A press or a release is only reported when the pin had the new level in every call of the
\* timer for longer than the noise filter, and not within the debounce time of the one before:
\* candidates of earlier glitches do not add up.
NoiseFiltered ==
  [][pressed' # pressed =>
       /\ sample' = pressed' /\ steady' > NoiseFilterDelay
       /\ DebounceDelay > 0 => debounceAge + Largest(Elapsed) > DebounceDelay]_buttonVars

=============================================================================
