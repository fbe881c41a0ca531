------------------------------- MODULE Clocks -------------------------------
(***************************************************************************)
(* The times a device keeps: its uptime, the uptime of its connection with *)
(* the cause of the last loss, counted by the main loop; and the local     *)
(* time, asked from the server every five minutes and counted on by the    *)
(* timer.                                                                  *)
(*                                                                         *)
(* On an Arduino millis() is a number of 32 bits that begins again at 0    *)
(* after 49.7 days.  It is kept in numbers of 64 bits, whose difference    *)
(* over that end is a very long time, and the seconds of a difference are  *)
(* cut to an int.                                                          *)
(***************************************************************************)
EXTENDS Integers

CONSTANTS
  SecondMs,      \* milliseconds of a second
  UpdateGap,     \* between two questions for the time
  Width,         \* millis() of an Arduino is below it
  LongWidth,     \* 2^64
  HalfInt,       \* an int is below it
  MostTime,      \* bound: milliseconds since the start
  MostDelay,     \* bound: seconds the answer of the server is old
  Causes         \* SUPLA_LASTCONNECTIONRESETCAUSE_*
ASSUME ClocksAssumption ==
  /\ SecondMs \in Nat \ {0} /\ UpdateGap \in Nat /\ MostTime \in Nat /\ MostDelay \in Nat
  /\ Width \in Nat /\ LongWidth \in Nat /\ HalfInt \in Nat \ {0}
  /\ SecondMs <= Width /\ Width <= LongWidth /\ MostTime < LongWidth /\ "none" \notin Causes

VARIABLES
  now,           \* milliseconds since the start
  millis,        \* what millis() returns of them
  uptime,        \* of the device and of the connection, with the cause of the last loss
  firstLoss,     \* the first cause told since the last connection, "none" while there is none
  connectedAt,
  clock,         \* Clock, and the time of the system where one runs
  answer         \* the time the server gave, on its way; -1 for none

clockVars == <<now, millis, uptime, firstLoss, connectedAt, clock, answer>>

\* Seconds since a fixed day; the server knows them.
Epoch == 100
TrueTime == Epoch + now \div SecondMs

\* uptime.strayed, and clock.trusted FALSE: a count was not that of the time that passed.
\* clock.counted: up to when the timer has counted; clock.wrapped: millis() has begun again since.
ClocksInit ==
  /\ now = 0 /\ millis = 0 /\ firstLoss = "unknown" /\ connectedAt = 0 /\ answer = -1
  /\ uptime = [ device |-> 0, connection |-> 0, last |-> 0, cause |-> "unknown", accept |-> FALSE,
                strayed |-> FALSE ]
  /\ \E platform \in {"avr", "esp", "linux"} :
       clock = [ platform |-> platform, ready |-> FALSE, localtime |-> 0, last |-> 0, asked |-> 0,
                 system |-> IF platform = "linux" THEN Epoch ELSE 0,
                 counted |-> 0, wrapped |-> FALSE, trusted |-> FALSE ]

-----------------------------------------------------------------------------
\* Since an earlier value of millis(); as an int; and where counting goes on.
Elapsed(last) == (millis - last) % LongWidth
AsInt(x) == LET low == x % (2 * HalfInt) IN IF low < HalfInt THEN low ELSE low - 2 * HalfInt
WholeSeconds(last) == AsInt(Elapsed(last) \div SecondMs)
PartOfSecond(last) == Elapsed(last) % SecondMs
CountedTo(last) == (millis - PartOfSecond(last)) % LongWidth

\* A time that fits into an int, on this side of the end of millis().
CanCount(last, wrapped) == ~wrapped /\ Elapsed(last) \div SecondMs < HalfInt

\* The timer runs every 10 ms: it has counted the last second when the next one ends.
TimePasses ==
  /\ now < MostTime /\ now' = now + 1
  /\ clock.ready => WholeSeconds(clock.last) <= 0
  /\ answer = -1 \/ TrueTime - answer <= MostDelay
  /\ LET again == clock.platform # "linux" /\ millis + 1 = Width
     IN  /\ millis' = IF again THEN 0 ELSE millis + 1
         \* The system of all but an AVR counts by itself.
         /\ clock' = [clock EXCEPT !.wrapped = @ \/ again,
                                   !.system = IF clock.platform # "avr" /\ (now + 1) % SecondMs = 0
                                                THEN @ + 1 ELSE @]
  /\ UNCHANGED <<uptime, firstLoss, connectedAt, answer>>

UptimeCounts(to) ==
  /\ uptime' = IF WholeSeconds(uptime.last) > 0
                 THEN [uptime EXCEPT !.last = to, !.device = @ + WholeSeconds(uptime.last),
                                     !.connection = @ + WholeSeconds(uptime.last),
                                     !.strayed = @ \/ ~CanCount(uptime.last, now # millis)]
                 ELSE uptime
  /\ UNCHANGED <<now, millis, firstLoss, connectedAt, clock, answer>>
\* mutant: the part of a second that is over is forgotten
UptimeDrifts == UptimeCounts(millis)
UptimeIterates == UptimeCounts(CountedTo(uptime.last))

\* resetConnectionUptime()
ConnectionMade ==
  /\ uptime' = [uptime EXCEPT !.connection = 0, !.accept = TRUE]
  /\ firstLoss' = "none" /\ connectedAt' = now
  /\ UNCHANGED <<now, millis, clock, answer>>

\* setConnectionLostCause(): the first cause after a connection counts.
ConnectionLost(cause) ==
  /\ uptime' = IF uptime.accept THEN [uptime EXCEPT !.cause = cause, !.accept = FALSE] ELSE uptime
  /\ firstLoss' = IF firstLoss = "none" THEN cause ELSE firstLoss
  /\ UNCHANGED <<now, millis, connectedAt, clock, answer>>

-----------------------------------------------------------------------------
\* iterateConnected(): at the first time, which is never that of the start, and every five minutes.
\* An answer on its way may be overtaken by the next question.
ClockAsks ==
  /\ now > 0
  /\ clock.asked = 0 \/ Elapsed(clock.asked) > UpdateGap
  /\ clock' = [clock EXCEPT !.asked = millis]
  /\ answer' \in {-1, answer, TrueTime}
  /\ UNCHANGED <<now, millis, uptime, firstLoss, connectedAt>>

\* parseLocaltimeFromServer(); where the last second was counted is not moved, so that the timer
\* has still to count all since then.
ServerAnswers ==
  /\ answer # -1 /\ answer' = -1
  /\ clock' = [clock EXCEPT !.ready = TRUE, !.localtime = answer,
                            !.system = IF clock.platform = "linux" THEN @ ELSE answer,
                            !.trusted = now - clock.counted < 2 * SecondMs]
  /\ UNCHANGED <<now, millis, uptime, firstLoss, connectedAt>>

\* onTimer(): the first time, all seconds since the start are added; an AVR adds them to its
\* system as well.
ClockTimer ==
  /\ clock' = IF clock.ready /\ WholeSeconds(clock.last) > 0
                THEN [clock EXCEPT !.last = CountedTo(clock.last),
                                   !.localtime = @ + WholeSeconds(clock.last),
                                   !.system = IF clock.platform = "avr" THEN @ + WholeSeconds(clock.last)
                                              ELSE @,
                                   !.counted = now - PartOfSecond(clock.last),
                                   !.wrapped = @ /\ millis < PartOfSecond(clock.last),
                                   !.trusted = @ /\ CanCount(clock.last, clock.wrapped)]
                ELSE clock
  /\ UNCHANGED <<now, millis, uptime, firstLoss, connectedAt, answer>>

\* The uptime and the clock know nothing of each other.
UptimeNext ==
  TimePasses \/ UptimeIterates \/ ConnectionMade \/ \E cause \in Causes : ConnectionLost(cause)
ClockNext == TimePasses \/ ClockAsks \/ ServerAnswers \/ ClockTimer

-----------------------------------------------------------------------------
\* getYear() to getSec() show the time of the system.
PartsShown == clock.system

Between(x, low, high) == low <= x /\ x <= high

\* Until millis() ends, or a pass is longer than an int has seconds, no part of a second is lost,
\* however long the passes: the uptime is the time of the last pass in whole seconds, and that of
\* the connection never more than a second off.  From there on it is wrong by what was counted
\* instead, some forty years on a device whose int has 32 bits.  The cause is always the first one
\* told after a connection.
UptimeTells ==
  /\ ~uptime.strayed =>
       /\ uptime.last = SecondMs * uptime.device
       /\ Between(uptime.device, 0, now \div SecondMs)
       /\ Between(uptime.connection, uptime.device - (connectedAt + SecondMs) \div SecondMs, uptime.device)
  /\ firstLoss # "none" => uptime.cause = firstLoss

\* The time shown is right from the first answer of the server on, but for the age of the answer.
\* On an AVR, whose timer counts it, the first answer lets the uptime be added, and the end of
\* millis() a time that has not passed, or nothing for a while: from the next answer after such a
\* count on, it is right again but for the seconds the timer has still to count.
ClockTells ==
  IF clock.platform = "avr"
    THEN clock.trusted =>
           Between(PartsShown, TrueTime - MostDelay - 2 - (now - clock.counted) \div SecondMs, TrueTime + 2)
    ELSE clock.ready => Between(PartsShown, TrueTime - MostDelay - 1, TrueTime)

ClocksTell == UptimeTells /\ ClockTells

ClocksTypeOK ==
  /\ now \in 0 .. MostTime /\ millis \in 0 .. now /\ connectedAt \in 0 .. now /\ answer \in Int
  /\ firstLoss \in Causes \cup {"unknown", "none"}
  /\ uptime \in [ device : Nat, connection : Nat, last : 0 .. LongWidth - 1,
                  cause : Causes \cup {"unknown"}, accept : BOOLEAN, strayed : BOOLEAN ]
  /\ clock \in [ platform : {"avr", "esp", "linux"}, ready : BOOLEAN, localtime : Int,
                 last : 0 .. LongWidth - 1, asked : 0 .. MostTime, system : Int, counted : 0 .. now,
                 wrapped : BOOLEAN, trusted : BOOLEAN ]
=============================================================================
