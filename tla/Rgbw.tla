--------------------------------- MODULE Rgbw ---------------------------------
(***************************************************************************)
(* RGBWBase, RGBBase and DimmerBase: brightness of colour and white under  *)
(* commands of the server and of buttons, the report to the server that is *)
(* put off while commands still come, and the state that survives a        *)
(* restart.  The three colours act alike and are one, hue.                 *)
(***************************************************************************)
EXTENDS Integers

CONSTANTS
  RgbwKinds,          \* of "rgbw", "rgb", "dimmer"
  Brightest,          \* 100 percent
  ButtonStep, MinIteration, Dimmed,   \* buttonStep, minIterationBrightness, defaultDimmed...
  IterationDelay,     \* 5 calls at either end before the direction turns
  ServerLevels,       \* brightness in messages of the server
  Hues,               \* 0 .. 255
  ReportDelay         \* 400 ms, in steps of time

ASSUME RgbwAssumption ==
  /\ RgbwKinds \subseteq {"rgbw", "rgb", "dimmer"}
  /\ Brightest \in Nat /\ Brightest > 0 /\ {ButtonStep, MinIteration, Dimmed} \subseteq 1 .. Brightest
  /\ ServerLevels \subseteq 0 .. Brightest
  /\ Hues \subseteq Nat /\ 0 \in Hues /\ \A hue \in Hues : 0 .. hue \subseteq Hues
  /\ \E most \in Hues : \A hue \in Hues : hue <= most
  /\ IterationDelay \in Nat \ {0} /\ ReportDelay \in Nat

VARIABLES
  rgbwKind,
  cur,          \* curRed ..., curColorBrightness, curBrightness
  last,         \* lastColorBrightness, lastBrightness
  dimming, delayCounter,    \* dimIterationDirection, iterationDelayCounter
  msgAge,       \* since lastMsgReceivedMs, NoMsg when it is 0
  reported,     \* value of the channel
  copied        \* curBrightness is what iterateDimmerRGBW() set before it returned

rgbwVars == <<rgbwKind, cur, last, dimming, delayCounter, msgAge, reported, copied>>

Levels == 0 .. Brightest
NoMsg == -1
Values == [hue : Hues, color : Levels, white : Levels]
Lasts == [color : 1 .. Brightest, white : 1 .. Brightest]
MostHue == CHOOSE h \in Hues : \A g \in Hues : g <= h

RgbwTypeOK ==
  /\ rgbwKind \in RgbwKinds /\ cur \in Values /\ last \in Lasts
  /\ dimming \in BOOLEAN /\ delayCounter \in 0 .. IterationDelay - 1
  /\ msgAge \in {NoMsg} \cup 0 .. ReportDelay + 1
  /\ reported \in Values /\ copied \in BOOLEAN

-----------------------------------------------------------------------------
(***************************************************************************)
(* setRGBW: Keep is the argument -1.  With toggle the report is due at     *)
(* once, and full brightness means the last one.                           *)
(***************************************************************************)
Keep == -1
NewValue(old, arg) == IF arg = Keep THEN old ELSE arg

\* The subclasses replace the arguments of what they have not.
Arguments(h, c, w) ==
  CASE rgbwKind = "rgbw" -> <<h, c, w>>
    [] rgbwKind = "rgb" -> <<h, c, 0>>
    [] rgbwKind = "dimmer" -> <<0, 0, w>>

Level(arg, curLevel, lastLevel, toggle) ==
  IF toggle /\ arg = Brightest /\ curLevel = 0 THEN lastLevel ELSE arg

\* mutant: the level is remembered before the toggle is looked at
RememberArgument(lastLevel, arg, level) == IF arg > 0 THEN arg ELSE lastLevel

Remember(lastLevel, arg, level) == IF level > 0 THEN level ELSE lastLevel

SetRGBW(h, c, w, toggle) ==
  LET args == Arguments(h, c, w)
      color == Level(args[2], cur.color, last.color, toggle)
      white == Level(args[3], cur.white, last.white, toggle)
  IN  /\ msgAge' = IF toggle THEN ReportDelay + 1 ELSE 0
      /\ last' = [color |-> Remember(last.color, args[2], color),
                  white |-> Remember(last.white, args[3], white)]
      /\ cur' = [hue |-> NewValue(cur.hue, args[1]), color |-> NewValue(cur.color, color),
                 white |-> NewValue(cur.white, white)]
      /\ copied' = (copied /\ args[3] = Keep)
      /\ UNCHANGED <<rgbwKind, reported>>

RgbwCommand(h, c, w) ==
  SetRGBW(h, c, w, FALSE) /\ UNCHANGED <<dimming, delayCounter>>

RgbwFromServer(h, c, w, toggle) ==
  SetRGBW(h, c, w, toggle) /\ UNCHANGED <<dimming, delayCounter>>

\* onInit() with stateOnInit off or on.
RgbwInit ==
  /\ rgbwKind \in RgbwKinds
  /\ \E level \in {0, Brightest} :
       cur = [hue |-> 0,
              color |-> IF rgbwKind = "dimmer" THEN 0 ELSE level,
              white |-> IF rgbwKind = "rgb" THEN 0 ELSE level]
  /\ last = [color |-> Brightest, white |-> Brightest]
  /\ dimming = FALSE /\ delayCounter = 0 /\ msgAge = 0
  /\ reported = [hue |-> 0, color |-> 0, white |-> 0] /\ copied = FALSE

-----------------------------------------------------------------------------
(***************************************************************************)
(* handleAction.                                                           *)
(***************************************************************************)
\* mutant: a sum above the limit is not seen
AddWithoutLimit(value, addition, limit) ==
  IF addition < 0 /\ value + addition < 0 THEN 0 ELSE value + addition

AddWithLimit(value, addition, limit) ==
  IF addition > 0 /\ value + addition > limit THEN limit
  ELSE IF addition < 0 /\ value + addition < 0 THEN 0
  ELSE value + addition

Shifted(step) == [hue |-> AddWithLimit(cur.hue, step, MostHue),
                  color |-> AddWithLimit(cur.color, step, Brightest),
                  white |-> AddWithLimit(cur.white, step, Brightest)]
Toggled(level, lastLevel) == IF level > 0 THEN 0 ELSE lastLevel

TurnOnRgbw ==
  RgbwCommand(Keep, last.color, last.white) \/ RgbwCommand(Keep, last.color, Keep)
    \/ RgbwCommand(Keep, Keep, last.white)
TurnOffRgbw ==
  RgbwCommand(Keep, 0, 0) \/ RgbwCommand(Keep, 0, Keep) \/ RgbwCommand(Keep, Keep, 0)
ToggleRgbw ==
  LET c == Toggled(cur.color, last.color)
      w == Toggled(cur.white, last.white)
  IN  RgbwCommand(Keep, c, w) \/ RgbwCommand(Keep, c, Keep) \/ RgbwCommand(Keep, Keep, w)
BrightenOrDim ==
  \E step \in {ButtonStep, -ButtonStep} :
    LET new == Shifted(step)
    IN  \/ RgbwCommand(Keep, new.color, new.white) \/ RgbwCommand(new.hue, Keep, Keep)
        \/ RgbwCommand(Keep, new.color, Keep) \/ RgbwCommand(Keep, Keep, new.white)
TurnOnDimmed ==
  \/ cur.color = 0 /\ RgbwCommand(Keep, Dimmed, Keep)
  \/ cur.white = 0 /\ RgbwCommand(Keep, Keep, Dimmed)
  \/ cur.color = 0 /\ cur.white = 0 /\ RgbwCommand(Keep, Dimmed, Dimmed)

-----------------------------------------------------------------------------
(***************************************************************************)
(* iterateDimmerRGBW: up and down again, with a rest of IterationDelay     *)
(* calls at the ends.  The dimmer iterates white only.                     *)
(***************************************************************************)
AtEnd(level) == (level <= MinIteration /\ dimming) \/ (level = Brightest /\ ~dimming)

\* The step of one of the two, held off the lower end.
StepFor(level, step) ==
  IF level + step < MinIteration THEN level - MinIteration ELSE step

Rests(white) ==
  /\ delayCounter' = delayCounter + 1
  /\ cur' = [cur EXCEPT !.white = white]
  /\ copied' = (copied \/ white # cur.white)
  /\ UNCHANGED <<rgbwKind, last, dimming, msgAge, reported>>

\* white0: curBrightness after both were made equal
IterateWith(turns, colorStep, whiteStep, white0) ==
  LET down == dimming # turns
      c == IF down THEN -colorStep ELSE colorStep
      w == IF down THEN -whiteStep ELSE whiteStep
      color == AddWithLimit(cur.color, StepFor(cur.color, c), Brightest)
      white == AddWithLimit(white0, StepFor(white0, w), Brightest)
  IN  /\ dimming' = down /\ delayCounter' = 0
      /\ SetRGBW(Keep, color, white, FALSE)

IterateDim(colorStep, whiteStep) ==
  LET white0 == IF colorStep > 0 /\ whiteStep > 0 THEN cur.color ELSE cur.white
      level == IF colorStep > 0 THEN cur.color ELSE white0
  IN  IF AtEnd(level) /\ delayCounter + 1 < IterationDelay
        THEN Rests(white0)
        ELSE IterateWith(AtEnd(level), colorStep, whiteStep, white0)

RgbwIterate ==
  IF rgbwKind = "dimmer" THEN IterateDim(0, ButtonStep)
  ELSE \/ IterateDim(ButtonStep, 0) \/ IterateDim(0, ButtonStep)
       \/ IterateDim(ButtonStep, ButtonStep)

-----------------------------------------------------------------------------
RgbwTime ==
  /\ msgAge \in 0 .. ReportDelay
  /\ msgAge' = msgAge + 1
  /\ UNCHANGED <<rgbwKind, cur, last, dimming, delayCounter, reported, copied>>

\* iterateAlways: the channel is set when no command came for a while.
Report ==
  /\ msgAge > ReportDelay
  /\ msgAge' = NoMsg /\ reported' = cur
  /\ UNCHANGED <<rgbwKind, cur, last, dimming, delayCounter, copied>>

\* onSaveState() and, after a restart, onLoadState() and onInit() with
\* STATE_ON_INIT_RESTORE.  Later changes are not saved when the power fails, so a restart leads
\* where it would have led at the time of the last save, and is taken then.
SavedColor == IF rgbwKind = "dimmer" THEN 0 ELSE cur.color
SavedWhite == IF rgbwKind = "rgb" THEN 0 ELSE cur.white

RestartRgbw ==
  /\ cur' = [hue |-> IF rgbwKind = "dimmer" THEN 0 ELSE cur.hue,
             color |-> SavedColor, white |-> SavedWhite]
  /\ last' = [color |-> IF rgbwKind = "dimmer" THEN Brightest
                        ELSE Remember(last.color, SavedColor, SavedColor),
              white |-> IF rgbwKind = "rgb" THEN Brightest
                        ELSE Remember(last.white, SavedWhite, SavedWhite)]
  /\ dimming' = FALSE /\ delayCounter' = 0 /\ msgAge' = 0 /\ copied' = FALSE
  /\ reported' = [hue |-> 0, color |-> 0, white |-> 0]
  /\ UNCHANGED rgbwKind

RgbwNext ==
  \/ \E h \in Hues, c, w \in ServerLevels, toggle \in BOOLEAN : RgbwFromServer(h, c, w, toggle)
  \/ TurnOnRgbw \/ TurnOffRgbw \/ ToggleRgbw \/ BrightenOrDim \/ TurnOnDimmed \/ RgbwIterate
  \/ RgbwTime \/ Report \/ RestartRgbw

RgbwSpec == RgbwInit /\ [][RgbwNext]_rgbwVars
-----------------------------------------------------------------------------
\* When no report is put off, the server has the values that are set; except for a white
\* brightness that ITERATE_DIM_ALL has copied while it rests at an end of the range.
ReportedIsCurrent == msgAge = NoMsg /\ ~copied => reported = cur

\* Turning on after turning off gives the brightness there was before, whatever sequence of
\* commands and restarts came between: a light that is on remembers its own brightness.
RemembersBrightness ==
  /\ cur.color > 0 => last.color = cur.color
  /\ cur.white > 0 /\ ~copied => last.white = cur.white

\* "If direction is dim, then brightness step is set to negative": iterating does not make the
\* colour brighter while it dims.
IterationDims ==
  [][RgbwIterate /\ dimming' => cur'.color <= cur.color]_rgbwVars

\* The server knows the light, and the light its brightness, whatever was commanded, iterated
\* and restarted before.
BrightnessIsKept == ReportedIsCurrent /\ RemembersBrightness
=============================================================================
