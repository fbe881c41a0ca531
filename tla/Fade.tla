--------------------------------- MODULE Fade ---------------------------------
(***************************************************************************)
(* RGBWBase::onTimer: what the lamps show goes after what was commanded,   *)
(* in steps of the time since the last call, and is written to the pins of *)
(* RGBWLeds, RGBLeds or DimmerLeds.  The timer comes between any two       *)
(* assignments of a command; the three colours act alike and are one, red. *)
(***************************************************************************)
EXTENDS Integers

CONSTANTS
  FadeKinds,      \* of "rgbw", "rgb", "dimmer"
  FadeTimes,      \* fadeEffect
  Delays,         \* between two calls of the timer, as it sees them
  Top,            \* 1023
  MostRed,        \* 255
  Reds,           \* values of a colour
  MostLevel,      \* 100 percent
  FadeLevels,     \* values of a brightness
  Limits          \* [color, white: <<min, max>>], setBrightnessLimits() and ...Color...

ASSUME FadeAssumption ==
  /\ FadeKinds \subseteq {"rgbw", "rgb", "dimmer"} /\ FadeTimes \subseteq Nat
  /\ {Top, MostRed, MostLevel} \subseteq Nat \ {0} /\ Delays \subseteq Nat \ {0}
  /\ Reds \subseteq 0 .. MostRed /\ FadeLevels \subseteq 0 .. MostLevel
  /\ \A l \in Limits : \A f \in {"color", "white"} :
       l[f] \in (0 .. Top) \X (0 .. Top) /\ l[f][1] <= l[f][2]
  /\ \E longest \in Delays : \A delay \in Delays : delay <= longest

VARIABLES
  lampKind, fadeEffect, limits,
  wanted,       \* curRed ..., curColorBrightness, curBrightness
  hw,           \* hwRed ..., hwColorBrightness, hwBrightness
  pins,         \* what was written, NotWritten before
  calm          \* time the timer has seen since the last command

fadeVars == <<lampKind, fadeEffect, limits, wanted, hw, pins, calm>>

LampFields == {"red", "color", "white"}
LampFieldsOf(kind) ==
  CASE kind = "rgbw" -> LampFields [] kind = "rgb" -> {"red", "color"} [] kind = "dimmer" -> {"white"}
MostOf(field) == IF field = "red" THEN MostRed ELSE MostLevel
NotWritten == -1

LongestOfAll(times) == CHOOSE t \in times : \A u \in times : u <= t
\* A step may lose the half of it by rounding, the last one takes a whole delay, and red has
\* one to go more than the range, at the start.
SettleTime == 2 * (fadeEffect + LongestOfAll(Delays))
Settled == calm >= SettleTime

FadeTypeOK ==
  /\ lampKind \in FadeKinds /\ fadeEffect \in FadeTimes /\ limits \in Limits
  /\ wanted \in [LampFields -> 0 .. LongestOfAll({MostRed, MostLevel})]
  /\ hw \in [LampFields -> -1 .. Top] /\ pins \in [{"red", "white"} -> -1 .. Top]
  /\ calm \in 0 .. SettleTime

-----------------------------------------------------------------------------
\* adjustRange() from 0 .. most; nothing here is negative.
Adjusted(value, most, range) == range[1] + (value * (range[2] - range[1])) \div most

Target(field) == Adjusted(wanted[field], MostOf(field), <<0, Top>>)

\* The step is a fraction, at least 1; without a fade effect it is the whole range.
StepOf(delay) ==
  IF fadeEffect = 0 THEN [over |-> Top, under |-> 1]
  ELSE IF Top * delay < fadeEffect THEN [over |-> 1, under |-> 1]
  ELSE [over |-> Top * delay, under |-> fadeEffect]

\* The sum is cut to a whole number, so that it falls faster than it rises.
Moved(from, to, step) ==
  LET up == (from * step.under + step.over) \div step.under
      down == (from * step.under - step.over) \div step.under
  IN CASE from < to -> (IF up > to THEN to ELSE up)
       [] from > to -> (IF down < to THEN to ELSE down)
       [] OTHER -> from

\* setRGBWValueOnDevice() of the three classes; the brightness is brought into its limits before.
ColorPin(now) == (now.red * Adjusted(now.color, Top, limits.color)) \div Top
WhitePin(now) == Adjusted(now.white, Top, limits.white)
RgbwLeds(now) == [red |-> ColorPin(now), white |-> WhitePin(now)]
RgbLeds(now) == [red |-> ColorPin(now), white |-> NotWritten]
DimmerLeds(now) == [red |-> NotWritten, white |-> WhitePin(now)]
Output(now) ==
  CASE lampKind = "rgbw" -> RgbwLeds(now) [] lampKind = "rgb" -> RgbLeds(now)
    [] lampKind = "dimmer" -> DimmerLeds(now)

ValueChanged(before, after) == before # after

LampOnTimer(delay) ==
  /\ hw' = [f \in LampFields |-> Moved(hw[f], Target(f), StepOf(delay))]
  /\ pins' = IF ValueChanged(hw, hw') THEN Output(hw') ELSE pins
  /\ calm' = IF calm + delay > SettleTime THEN SettleTime ELSE calm + delay
  /\ UNCHANGED <<lampKind, fadeEffect, limits, wanted>>

\* One assignment of setRGBW(), of iterateDimmerRGBW() or of onInit().
Assign(field, value) ==
  /\ field \in LampFieldsOf(lampKind) /\ value # wanted[field]
  /\ wanted' = [wanted EXCEPT ![field] = value] /\ calm' = 0
  /\ UNCHANGED <<lampKind, fadeEffect, limits, hw, pins>>

FadeInit ==
  /\ lampKind \in FadeKinds /\ fadeEffect \in FadeTimes /\ limits \in Limits
  /\ wanted = [f \in LampFields |-> 0]
  /\ hw = [f \in LampFields |-> IF f = "red" THEN -1 ELSE 0]
  /\ pins = [p \in {"red", "white"} |-> NotWritten] /\ calm = 0

FadeNext ==
  \/ \E delay \in Delays : LampOnTimer(delay)
  \/ \E field \in LampFields : \E value \in IF field = "red" THEN Reds ELSE FadeLevels :
       Assign(field, value)

-----------------------------------------------------------------------------
\* The lamp comes to what was commanded last in about the time of the fade effect, whatever was
\* commanded on the way and however irregular the timer was; and what stands at its pins is
\* always what the fade is at.
LampsFollow ==
  /\ Settled => \A f \in LampFields : hw[f] = Target(f)
  /\ Settled => pins = Output(hw)
  /\ hw.red >= 0 => pins = Output(hw)
=============================================================================
