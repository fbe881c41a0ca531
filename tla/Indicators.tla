----------------------------- MODULE Indicators -----------------------------
(***************************************************************************)
(* What a device shows of its status: the status LED, blinked by a timer   *)
(* while the main loop chooses the rhythm, and the log of the last states, *)
(* written by the main loop and read by the task of the web server for the *)
(* page of the device.  The log is one buffer of characters, the newest    *)
(* text first; a text that does not fit any more ends in dots.             *)
(***************************************************************************)
EXTENDS Integers, Sequences, SequencesExt, FiniteSetsExt

CONSTANTS
  LogSize,      \* LAST_STATE_LOGGER_BUFFER_SIZE
  Texts,        \* of each status that is reported, the text to log, as cells
  MostLogs,     \* bound: changes of the status
  MostOrders,   \* bound: calls of setMode(), setCustomSequence() and setAutoSequence()
  Rhythms       \* <<on, off>> an application may ask for
StatusNumber ==
  [ unknown |-> -1, missing |-> 2, initialized |-> 5, disconnected |-> 6, network |-> 8,
    registering |-> 10, ready |-> 17, guid |-> 22, config |-> 40, reset |-> 41, download |-> 50 ]
Statuses == DOMAIN StatusNumber

ASSUME IndicatorsAssumption ==
  /\ LogSize \in Nat /\ LogSize > 4 /\ DOMAIN Texts \subseteq Statuses /\ MostLogs \in Nat /\ MostOrders \in Nat
  /\ \A text \in Range(Texts) : text # << >> /\ Range(text) \cap {"nul", "."} = {}

VARIABLES
  status,      \* currentStatus
  waiting,     \* the text the main loop waits with for the log, << >> for none
  logged,      \* the texts put into the logBuffer, newest first
  logFile,     \* of a FileStateLogger: every line, oldest first
  logBuffer, index, logHeld, page,
  led,         \* the LED element
  orders,      \* calls of the application so far
  settled      \* "no", "loop", "timer": who has run since the last change

statusVars == <<status, waiting>>
logVars == <<logged, logFile, logBuffer, index, logHeld, page>>
ledVars == <<led, orders, settled>>
indicatorVars == <<statusVars, logVars, ledVars>>

Modes == {"when_connected", "when_not", "never"}

-----------------------------------------------------------------------------
(***************************************************************************)
(* The log.                                                                *)
(***************************************************************************)
EmptyLog == [i \in 1 .. LogSize |-> "nul"]

\* LastStateLogger::log: the text, its end, what was there before, and the dots.
WithText(cells, text) ==
  LET moved == SubSeq(text \o <<"nul">> \o cells, 1, LogSize)
  IN  [ i \in 1 .. LogSize |->
          IF i = LogSize THEN "nul" ELSE IF i > LogSize - 4 THEN "." ELSE moved[i] ]

Fits(text) == Len(text) + 1 <= LogSize
Logged(text) ==
  IF Fits(text) THEN logged' = <<text>> \o logged /\ logBuffer' = WithText(logBuffer, text)
  ELSE UNCHANGED <<logged, logBuffer>>

AddToFile(text) == logFile' = Append(logFile, text)

\* The text at an index of the logBuffer, up to its end.
EndOfText(i) == Min({j \in i .. LogSize - 1 : logBuffer[j + 1] = "nul"})
HasText(i) == i < LogSize /\ logBuffer[i + 1] # "nul"
TextAt(i) == SubSeq(logBuffer, i + 1, EndOfText(i))

-----------------------------------------------------------------------------
(***************************************************************************)
(* SuplaDeviceClass::status.                                               *)
(***************************************************************************)
\* Only a reset or a wrong identity leaves config mode; a registration under way does not hide a
\* later status.
Replaces(new) ==
  /\ status = "config" => new \in {"reset", "guid"}
  /\ new # status
  /\ ~(new = "registering" /\ StatusNumber[status] > StatusNumber.registering)

LogsOrWaits(text) ==
  IF logHeld /\ Fits(text) THEN waiting' = text /\ UNCHANGED <<logged, logBuffer>>
  ELSE Logged(text) /\ waiting' = << >>

\* The file has its line before the logBuffer is asked for.
StatusChanges ==
  /\ waiting = << >> /\ Len(logFile) < MostLogs
  /\ \E new \in DOMAIN Texts :
       /\ Replaces(new) /\ status' = new
       /\ AddToFile(Texts[new]) /\ LogsOrWaits(Texts[new])
  /\ settled' = "no" /\ UNCHANGED <<index, logHeld, page, led, orders>>

\* The main loop gets the mutex.
LogContinues ==
  /\ waiting # << >> /\ ~logHeld /\ Logged(waiting) /\ waiting' = << >>
  /\ UNCHANGED <<status, logFile, index, logHeld, page, ledVars>>

-----------------------------------------------------------------------------
(***************************************************************************)
(* The page of the device, in the task of the web server: DeviceInfo::send *)
(* prepares the log and takes text after text.  The mutex is taken with    *)
(* the first text and given back after the last, or given back for nothing *)
(* when there is none.                                                     *)
(***************************************************************************)
PageStarts ==
  /\ page.at = "none" /\ index' = 0 /\ page' = [at |-> "reading", sent |-> << >>]
  /\ UNCHANGED <<statusVars, logged, logFile, logBuffer, logHeld, ledVars>>

\* getLog(); the cell behind the logBuffer, read after a last text that fills it, changes nothing.
PageTakesText ==
  /\ page.at = "reading"
  /\ IF HasText(index)
       THEN /\ logHeld' = TRUE /\ index' = EndOfText(index) + 1
            /\ page' = [page EXCEPT !.sent = Append(@, TextAt(index))]
       ELSE logHeld' = FALSE /\ page' = [at |-> "none", sent |-> << >>] /\ UNCHANGED index
  /\ UNCHANGED <<statusVars, logged, logFile, logBuffer, ledVars>>

-----------------------------------------------------------------------------
(***************************************************************************)
(* The LED: durations in ms, its state and the level of its pin.           *)
(***************************************************************************)
SequenceFor(s) ==
  CASE s \in {"initialized", "network"} -> "connecting"
    [] s = "registering" -> "registering"
    [] s \in {"reset", "ready"} -> "ready"
    [] s = "config" -> "config"
    [] s = "download" -> "download"
    [] OTHER -> "problem"

Durations(sequence, mode) ==
  CASE sequence = "connecting" -> <<2000, 2000>>
    [] sequence = "registering" -> <<500, 500>>
    [] sequence = "ready" -> IF mode = "when_connected" THEN <<1000, 0>> ELSE <<0, 1000>>
    [] sequence = "config" -> <<100, 100>>
    [] sequence = "download" -> <<20, 20>>
    [] sequence = "problem" -> <<300, 100>>

Lit(l, on) ==
  [l EXCEPT !.state = IF on THEN "on" ELSE "off", !.pin = IF l.invert THEN ~on ELSE on]

\* updatePin(): a steady LED is set once, a blinking one turns when its time is over.
Updated(l, over) ==
  LET steady == 0 \in Range(l.times)
      darker == IF l.state \in {"on", "not"} /\ l.times[1] = 0 THEN Lit(l, FALSE) ELSE l
  IN  IF steady
        THEN IF darker.state \in {"off", "not"} /\ l.times[2] = 0 THEN Lit(darker, TRUE)
             ELSE darker
        ELSE IF over /\ l.state # "not" THEN Lit(l, l.state = "off") ELSE l

\* iterateAlways()
Chosen(l) ==
  CASE l.mode = "never" -> [l EXCEPT !.times = <<0, 1000>>]
    [] l.mode # "never" /\ (l.sequence = "custom" \/ l.lastStatus = status) -> l
    [] OTHER ->
         [l EXCEPT !.lastStatus = status, !.sequence = SequenceFor(status),
                   !.times = Durations(SequenceFor(status), l.mode)]

\* onLoadConfig() and onInit(), in begin().
LedInit ==
  { LET first == Updated([ times |-> <<0, 1000>>, state |-> "not", pin |-> FALSE,
                           invert |-> inverted, mode |-> mode, sequence |-> "connecting",
                           lastStatus |-> "unknown" ], FALSE)
    IN  IF first.state = "not" THEN Lit(first, TRUE) ELSE first :
    inverted \in BOOLEAN, mode \in Modes }

LedIterates ==
  /\ waiting = << >> /\ led' = Chosen(led)
  /\ settled' = IF settled = "timer" THEN "timer" ELSE "loop"
  /\ UNCHANGED <<statusVars, logVars, orders>>

LedTimer ==
  /\ \E over \in BOOLEAN : led' = Updated(led, over)
  /\ settled' = IF settled = "loop" THEN "timer" ELSE settled
  /\ UNCHANGED <<statusVars, logVars, orders>>

\* setMode(), setCustomSequence() and setAutoSequence().
LedOrdered ==
  /\ orders < MostOrders /\ orders' = orders + 1 /\ waiting = << >>
  /\ \/ \E mode \in Modes : led' = [led EXCEPT !.mode = mode, !.lastStatus = "unknown"]
     \/ \E rhythm \in Rhythms :
          led' = [led EXCEPT !.sequence = "custom", !.times = rhythm]
     \/ led' = [led EXCEPT !.sequence = "connecting", !.lastStatus = "unknown"]
  /\ settled' = "no" /\ UNCHANGED <<statusVars, logVars>>

-----------------------------------------------------------------------------
IndicatorsInit ==
  /\ status = "unknown" /\ waiting = << >> /\ logged = << >> /\ logFile = << >>
  /\ logBuffer = EmptyLog /\ index = 0 /\ logHeld = FALSE /\ page = [at |-> "none", sent |-> << >>]
  /\ led \in LedInit /\ orders = 0 /\ settled = "no"

IndicatorsNext ==
  \/ StatusChanges \/ LogContinues
  \/ PageStarts \/ PageTakesText
  \/ LedIterates \/ LedTimer \/ LedOrdered

-----------------------------------------------------------------------------
IndicatorsTypeOK ==
  /\ status \in Statuses /\ Len(logBuffer) = LogSize /\ index \in 0 .. LogSize
  /\ Len(logged) <= MostLogs /\ orders \in 0 .. MostOrders
  /\ led.state \in {"on", "off", "not"} /\ settled \in {"no", "loop", "timer"}

\* What the page has sent are the texts of the log, newest first, the last one perhaps cut; when
\* the mutex goes back no text that ends before the dots is left out; and the file has them all.
RoomAfter(n) == LogSize - 4 - FoldLeft(LAMBDA sum, text : sum + Len(text) + 1, 0, SubSeq(logged, 1, n))
PageIsWhole ==
  /\ \A i \in 1 .. Len(page.sent) :
       \/ i <= Len(logged) /\ page.sent[i] = logged[i]
       \/ /\ i = Len(page.sent) /\ IsSuffix(<<".">>, page.sent[i])
          /\ i <= Len(logged) =>
               IsPrefix(SelectSeq(page.sent[i], LAMBDA cell : cell # "."), logged[i])
  /\ logHeld /\ ~HasText(index) => \A n \in 1 .. Len(logged) : RoomAfter(n) >= 0 => n <= Len(page.sent)
  /\ Reverse(logged) \o (IF waiting = << >> THEN << >> ELSE <<waiting>>) = SelectSeq(logFile, Fits)

\* Once the loop and the timer have run, the rhythm is that of the status, and a steady LED is
\* lit as the mode says; the level of the pin follows the wiring.
LedTells ==
  /\ led.pin = ((led.state = "on") # led.invert)
  /\ settled # "no" /\ led.sequence # "custom" /\ status # "unknown" =>
       led.times = IF led.mode = "never" THEN <<0, 1000>>
                   ELSE Durations(SequenceFor(status), led.mode)
  /\ settled = "timer" /\ led.times = <<0, 1000>> => led.state = "off"
  /\ settled = "timer" /\ led.times = <<1000, 0>> => led.state = "on"
=============================================================================
