---------------------------- MODULE SequenceButton ----------------------------
(***************************************************************************)
(* SequenceButton: presses and releases of a button with the times between *)
(* them, compared with a sequence that was set when the button has been    *)
(* released for long enough.  One step is one call of the timer.           *)
(***************************************************************************)
EXTENDS Integers, Sequences

CONSTANTS
  MatchSequences,  \* sequences of times that setSequence() was called with
  SequenceSize,    \* SEQUENCE_MAX_SIZE
  MarginPart,      \* margin, the tolerance is this part of a time
  LeastMargin,     \* 20 ms
  LeastWait,       \* 500 ms
  FirstWait,       \* 800 ms, while no sequence is set
  WordRange,       \* values of a uint16_t
  CounterRange,    \* values of clickCounter
  LongestGap,      \* bound of the time between two changes
  MostGaps         \* bound of the changes of one gesture

ASSUME SequenceAssumption ==
  /\ MatchSequences \subseteq Seq(Nat)
  /\ \A s \in MatchSequences : Len(s) <= SequenceSize /\ \A i \in DOMAIN s : s[i] >= LeastMargin
  /\ {SequenceSize, LeastMargin, LeastWait, FirstWait, LongestGap, MostGaps} \subseteq Nat
  /\ {MarginPart, WordRange, CounterRange} \subseteq Nat \ {0} /\ CounterRange > SequenceSize + 1

VARIABLES
  matchSequence,
  isPressed, sinceChange,    \* the debounced state, and the time since lastStateChangeMs
  clicks,                    \* clickCounter
  currentSequence,           \* data[0] and on
  sequenceSaid,              \* the event of the last timer, "ON_SEQUENCE_MATCH" ...
  gaps                       \* the times of the gesture as they were

sequenceVars ==
  <<matchSequence, isPressed, sinceChange, clicks, currentSequence, sequenceSaid, gaps>>

Unused == [i \in 1 .. SequenceSize |-> 0]

\* setSequence(): half a time more than the longest one, in 16 bits.
LongestOf(s) == IF s = << >> THEN 0 ELSE CHOOSE t \in {s[i] : i \in DOMAIN s} :
                                           \A i \in DOMAIN s : s[i] <= t
Wait(s) ==
  IF s = << >> THEN FirstWait
  ELSE LET longest == ((LongestOf(s) * 3) \div 2) % WordRange
       IN IF longest < LeastWait THEN LeastWait ELSE longest

\* calculateMargin()
MarginOf(time) == IF time \div MarginPart < LeastMargin THEN LeastMargin ELSE time \div MarginPart

\* The differences are unsigned.
IsWithin(time, gap) ==
  /\ time >= MarginOf(time)
  /\ time - MarginOf(time) <= gap /\ gap <= time + MarginOf(time)

Matches(recorded, n) ==
  /\ Len(matchSequence) = n
  /\ \A i \in 1 .. n : IsWithin(matchSequence[i], recorded[i])

\* More gaps than there is room for are taken for as many as there is room for.
AtMostAll(n) == IF n > SequenceSize THEN SequenceSize ELSE n

GapsRecorded == AtMostAll(clicks - 1)

ButtonChanges ==
  /\ (clicks = 0 /\ sequenceSaid # "recording") \/ Len(gaps) < MostGaps
  /\ isPressed' = ~isPressed /\ sinceChange' = 0
  /\ currentSequence' =
       IF clicks = 0 THEN Unused
       ELSE IF clicks < SequenceSize + 1
         THEN [currentSequence EXCEPT ![clicks] = sinceChange % WordRange] ELSE currentSequence
  /\ clicks' = (clicks + 1) % CounterRange
  /\ gaps' = IF clicks = 0 /\ sequenceSaid # "recording" THEN << >> ELSE Append(gaps, sinceChange)
  /\ sequenceSaid' = "recording"
  /\ UNCHANGED matchSequence

SequenceIsOver == clicks > 0 /\ ~isPressed /\ sinceChange > Wait(matchSequence)

Judged ==
  /\ SequenceIsOver
  /\ sequenceSaid' = IF Matches(currentSequence, GapsRecorded) THEN "ON_SEQUENCE_MATCH"
                     ELSE "ON_SEQUENCE_DOESNT_MATCH"
  /\ clicks' = 0
  /\ UNCHANGED <<matchSequence, isPressed, sinceChange, currentSequence, gaps>>

NothingChanges ==
  /\ ~SequenceIsOver /\ sinceChange' = IF sinceChange < LongestGap THEN sinceChange + 1 ELSE LongestGap
  /\ UNCHANGED <<matchSequence, isPressed, clicks, currentSequence, sequenceSaid, gaps>>

SequenceInit ==
  /\ matchSequence \in MatchSequences /\ isPressed \in BOOLEAN /\ sinceChange = 0
  /\ clicks = 0 /\ currentSequence = Unused /\ sequenceSaid = "nothing" /\ gaps = << >>

SequenceNext == ButtonChanges \/ Judged \/ NothingChanges

SequenceTypeOK ==
  /\ matchSequence \in MatchSequences /\ isPressed \in BOOLEAN
  /\ sinceChange \in 0 .. LongestGap /\ clicks \in 0 .. CounterRange - 1
  /\ currentSequence \in [1 .. SequenceSize -> 0 .. WordRange - 1]
  /\ Len(gaps) <= MostGaps

-----------------------------------------------------------------------------
\* A gesture is a match when it has as many times as the sequence and each is near enough, and
\* only then, whatever was recorded before it.  Not held here are the gestures that run over an
\* end: more changes than are counted, more times than are kept, a time of more than 16 bits.
IsHeld == Len(gaps) + 1 < CounterRange /\ Len(gaps) <= SequenceSize
          /\ \A i \in DOMAIN gaps : gaps[i] < WordRange
IsMeant ==
  /\ Len(gaps) = Len(matchSequence)
  /\ \A i \in DOMAIN gaps :
       LET t == matchSequence[i] IN t - MarginOf(t) <= gaps[i] /\ gaps[i] <= t + MarginOf(t)
SequenceIsHeard ==
  /\ sequenceSaid = "ON_SEQUENCE_MATCH" /\ IsHeld => IsMeant
  /\ sequenceSaid = "ON_SEQUENCE_DOESNT_MATCH" /\ IsHeld => ~IsMeant
=============================================================================
