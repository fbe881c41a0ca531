------------------------------- MODULE PvMeter ------------------------------
(***************************************************************************)
(* Inverters read over the network (Afore, Fronius, SolarEdge): a request  *)
(* every refreshRateSec from iterateConnected, the reply taken apart line  *)
(* by line in iterateAlways, and the socket they use (NetworkClient of the *)
(* Linux port), with an inverter that answers late, breaks off or hangs.   *)
(*                                                                         *)
(* Of the values there are the power and the energy.  A line that came     *)
(* only in part stays in the buffer, also over the end of its connection.  *)
(***************************************************************************)
EXTENDS Integers, Sequences

CONSTANTS
  Inverters,     \* of "afore", "fronius", "solaredge"
  Reports,       \* what the inverter says, one after the other: records of power and energy
  MostTries,     \* failed connects that are taken for a short break (3)
  ReplyTimeout,  \* 30 s, in ticks
  Addresses,     \* addresses of the host
  SocketBound    \* lines that wait in a socket

ASSUME PvAssumption ==
  /\ Inverters \subseteq {"afore", "fronius", "solaredge"}
  /\ Reports \in Seq([power : Nat \ {0}, energy : Nat \ {0}])
  /\ MostTries \in Nat /\ ReplyTimeout \in Nat /\ Addresses \in Nat /\ SocketBound \in Nat

\* Lines of a reply.  "value" belongs to the name before it, in JSON; a row is a line of CSV.
Header == [what |-> "header"]       \* of HTTP, and whatever else says nothing
Columns == [what |-> "columns"]     \* headerVerification
Name(f) == [what |-> "name", f |-> f]
Value(v) == [what |-> "value", v |-> v]
Var(f, v) == [what |-> "var", f |-> f, v |-> v]
Row(mode, p, e) == [what |-> "row", mode |-> mode, power |-> p, energy |-> e]
NoLine == [what |-> "none"]

\* Replies that say r.  One of SolarEdge may also have no row that counts.
Awake(r) == Row("MPPT", r.power, r.energy)
Asleep == Row("SLEEPING", 9, 9)
Replies(kind, r) ==
  CASE kind = "afore" -> { <<Header, Var("power", r.power), Var("energy", r.energy)>> }
    [] kind = "fronius" ->
         { <<Header, Name("other"), Value(9), Name("power"), Value(r.power),
             Name("energy"), Value(r.energy)>> }
    [] kind = "solaredge" ->
         { <<Header, Columns, Awake(r)>>, <<Header, Columns, Awake(r), Asleep>>,
           <<Header, Columns, Asleep>> }

VARIABLES
  inverter,
  descriptors,        \* open in the system
  isOpen,             \* connectionFd is one of them
  unsent, inSocket,   \* lines of the reply
  hungUp,             \* the inverter has closed
  inLoop,             \* iterateAlways is between its checks of the connection
  dataFetchInProgress, dataIsReady, connectionAge, retryCounter,
  rest,               \* line in buf that is not complete
  valueToFetch, headerFound,
  values,             \* currentPower and totalGeneratedEnergy
  inverterShown,      \* by the meter
  requests,           \* sent so far
  inverterSaid,       \* power and energy of the reply, NotSaid if it has none
  outcome             \* of the last request: "whole" when the inverter sent every line

NotSaid == [power |-> 0, energy |-> 0]
clientVars == <<descriptors, isOpen, unsent, inSocket, hungUp>>
parserVars == <<rest, valueToFetch, headerFound, values>>
fetchVars == <<dataFetchInProgress, dataIsReady, connectionAge, retryCounter>>
replyVars == <<requests, inverterSaid, outcome>>
pvVars ==
  <<inverter, clientVars, inLoop, fetchVars, parserVars, inverterShown, replyVars>>

PvTypeOK ==
  /\ inverter \in Inverters
  /\ descriptors \in Nat /\ isOpen \in BOOLEAN
  /\ dataFetchInProgress \in BOOLEAN /\ dataIsReady \in BOOLEAN
  /\ connectionAge \in 0 .. ReplyTimeout + 1 /\ retryCounter \in 0 .. MostTries + 1
  /\ valueToFetch \in {"none", "power", "energy"} /\ headerFound \in BOOLEAN
  /\ DOMAIN values = {"power", "energy"} /\ DOMAIN inverterShown = {"power", "energy"}

-----------------------------------------------------------------------------
(***************************************************************************)
(* NetworkClient                                                           *)
(***************************************************************************)
Connected == isOpen /\ (inSocket # << >> \/ ~hungUp)

\* One socket for each address that is tried, closed where the connect fails.
LeftOpen(tried, succeeds) == IF succeeds THEN 1 ELSE 0
Connect(tried, succeeds) ==
  /\ descriptors' = descriptors + LeftOpen(tried, succeeds)
  /\ isOpen' = succeeds
Stop ==
  /\ descriptors' = IF isOpen THEN descriptors - 1 ELSE descriptors
  /\ isOpen' = FALSE
  /\ unsent' = << >> /\ inSocket' = << >>

-----------------------------------------------------------------------------
(***************************************************************************)
(* The inverter                                                            *)
(***************************************************************************)
SendLine ==
  /\ isOpen /\ ~hungUp /\ unsent # << >> /\ Len(inSocket) < SocketBound
  /\ inSocket' = Append(inSocket, Head(unsent)) /\ unsent' = Tail(unsent)
  /\ UNCHANGED <<descriptors, isOpen, hungUp, inLoop, fetchVars, parserVars, inverterShown,
                 replyVars>>

\* It may close before it has sent everything, also within a line.
HangUp(withPiece) ==
  /\ isOpen /\ ~hungUp /\ hungUp' = TRUE
  /\ inSocket' =
       IF withPiece /\ unsent # << >>
       THEN Append(inSocket, [what |-> "piece", of |-> Head(unsent)]) ELSE inSocket
  /\ outcome' = IF unsent = << >> /\ outcome # "cut" THEN "whole" ELSE "cut"
  /\ UNCHANGED <<descriptors, isOpen, unsent, inLoop, fetchVars, parserVars, inverterShown,
                 requests, inverterSaid>>

\* Part of a line, and the inverter hangs.
Stall ==
  /\ isOpen /\ ~hungUp /\ unsent # << >>
  /\ inSocket' = Append(inSocket, [what |-> "piece", of |-> Head(unsent)])
  /\ unsent' = << >> /\ outcome' = "cut"
  /\ UNCHANGED <<descriptors, isOpen, hungUp, inLoop, fetchVars, parserVars, inverterShown,
                 requests, inverterSaid>>

-----------------------------------------------------------------------------
(***************************************************************************)
(* The parsers, line by line                                               *)
(***************************************************************************)
ParsedAfore(line) ==
  /\ values' = IF line.what = "var" THEN [values EXCEPT ![line.f] = line.v] ELSE values
  /\ UNCHANGED <<valueToFetch, headerFound>>

ParsedFronius(line) ==
  /\ \/ /\ line.what = "value" /\ valueToFetch # "none"
        /\ values' = [values EXCEPT ![valueToFetch] = line.v] /\ valueToFetch' = "none"
     \/ /\ line.what = "name" /\ line.f # "other"
        /\ valueToFetch' = line.f /\ UNCHANGED values
     \/ /\ ~(line.what = "value" /\ valueToFetch # "none")
        /\ ~(line.what = "name" /\ line.f # "other")
        /\ UNCHANGED <<values, valueToFetch>>
  /\ UNCHANGED headerFound

\* Rows of an inverter that is in another mode than MPPT are ignored.
ParsedSolarEdge(line) ==
  /\ headerFound' = (headerFound \/ line.what = "columns")
  /\ values' =
       IF headerFound /\ line.what = "row" /\ line.mode = "MPPT"
       THEN [power |-> line.power, energy |-> line.energy] ELSE values
  /\ UNCHANGED valueToFetch

ParsedLine(line) ==
  \/ inverter = "afore" /\ ParsedAfore(line)
  \/ inverter = "fronius" /\ ParsedFronius(line)
  \/ inverter = "solaredge" /\ ParsedSolarEdge(line)

\* What is left of another line and the next line become one: it may read as the first of
\* them, with more or fewer digits, or as nothing.
Glued(piece) ==
  {Header, piece}
  \cup (IF piece.what \in {"value", "var"} THEN {[piece EXCEPT !.v = 9]} ELSE {})

ReadLine ==
  /\ inLoop /\ isOpen /\ inSocket # << >>
  /\ inSocket' = Tail(inSocket)
  /\ LET line == Head(inSocket)
     IN \/ /\ line.what = "piece"
           /\ rest' = line.of /\ UNCHANGED <<values, valueToFetch, headerFound>>
        \/ line.what # "piece" /\ rest = NoLine /\ ParsedLine(line) /\ UNCHANGED rest
        \/ /\ line.what # "piece" /\ rest # NoLine
           /\ \E whole \in Glued(rest) : ParsedLine(whole)
           /\ rest' = NoLine
  /\ UNCHANGED <<descriptors, isOpen, unsent, hungUp, inLoop, fetchVars, inverterShown,
                 replyVars>>

-----------------------------------------------------------------------------
(***************************************************************************)
(* iterateAlways: the checks at its beginning, the lines, and its end.     *)
(***************************************************************************)
TimesOut ==
  /\ ~inLoop /\ dataFetchInProgress /\ connectionAge > ReplyTimeout
  /\ Stop
  /\ dataFetchInProgress' = FALSE /\ dataIsReady' = FALSE /\ outcome' = "aborted"
  /\ UNCHANGED <<hungUp, inLoop, connectionAge, retryCounter, parserVars, inverterShown,
                 requests, inverterSaid>>

BeginRead ==
  /\ ~inLoop /\ inLoop' = TRUE
  /\ ~(dataFetchInProgress /\ connectionAge > ReplyTimeout)
  /\ dataFetchInProgress \/ dataIsReady
  /\ IF dataFetchInProgress /\ ~Connected
     THEN dataFetchInProgress' = FALSE /\ dataIsReady' = TRUE
     ELSE UNCHANGED <<dataFetchInProgress, dataIsReady>>
  /\ UNCHANGED <<clientVars, connectionAge, retryCounter, parserVars, inverterShown,
                 replyVars>>

\* SolarEdge starts over from nothing, and keeps its energy over a reply without one.
PublishedNow ==
  IF inverter = "solaredge" /\ values.energy = 0
  THEN [power |-> values.power, energy |-> inverterShown.energy] ELSE values

EndRead ==
  /\ inLoop /\ ~(isOpen /\ inSocket # << >>) /\ inLoop' = FALSE
  /\ IF isOpen /\ ~Connected THEN Stop ELSE UNCHANGED <<descriptors, isOpen, unsent, inSocket>>
  /\ IF dataIsReady
     THEN /\ inverterShown' = PublishedNow /\ dataIsReady' = FALSE
          /\ IF inverter = "solaredge"
             THEN headerFound' = FALSE /\ values' = NotSaid ELSE UNCHANGED <<headerFound, values>>
     ELSE UNCHANGED <<inverterShown, dataIsReady, headerFound, values>>
  /\ UNCHANGED <<hungUp, dataFetchInProgress, connectionAge, retryCounter, rest,
                 valueToFetch, replyVars>>

-----------------------------------------------------------------------------
(***************************************************************************)
(* iterateConnected                                                        *)
(***************************************************************************)
ConnectFails ==
  /\ retryCounter' = IF retryCounter > MostTries THEN retryCounter ELSE retryCounter + 1
  /\ IF inverter # "solaredge" /\ retryCounter + 1 > MostTries
     THEN values' = [values EXCEPT !.power = 0] /\ dataIsReady' = TRUE
     ELSE UNCHANGED <<values, dataIsReady>>
  /\ UNCHANGED <<unsent, inSocket, hungUp, dataFetchInProgress, connectionAge, replyVars>>

Request ==
  /\ retryCounter' = 0 /\ dataFetchInProgress' = TRUE /\ connectionAge' = 0
  /\ hungUp' = FALSE /\ inSocket' = << >> /\ outcome' = "none"
  /\ requests < Len(Reports) /\ requests' = requests + 1
  /\ \E reply \in Replies(inverter, Reports[requests + 1]) :
       /\ unsent' = reply
       /\ inverterSaid' =
            IF reply = <<Header, Columns, Asleep>> THEN NotSaid ELSE Reports[requests + 1]
  /\ UNCHANGED <<values, dataIsReady>>

RequestData ==
  /\ ~inLoop /\ ~dataFetchInProgress
  /\ \E tried \in 1 .. Addresses, succeeds \in BOOLEAN :
       /\ Connect(tried, succeeds)
       /\ IF succeeds THEN Request ELSE ConnectFails
  /\ rest' = IF inverter = "solaredge" THEN NoLine ELSE rest
  /\ UNCHANGED <<inLoop, valueToFetch, headerFound, inverterShown>>

ReplyIsLate ==
  /\ ~inLoop /\ dataFetchInProgress /\ connectionAge <= ReplyTimeout
  /\ connectionAge' = connectionAge + 1
  /\ UNCHANGED <<clientVars, inLoop, dataFetchInProgress, dataIsReady, retryCounter,
                 parserVars, inverterShown, replyVars>>

PvInit ==
  /\ inverter \in Inverters
  /\ descriptors = 0 /\ isOpen = FALSE /\ unsent = << >> /\ inSocket = << >> /\ hungUp = FALSE
  /\ inLoop = FALSE /\ dataFetchInProgress = FALSE /\ dataIsReady = FALSE
  /\ connectionAge = 0 /\ retryCounter = 0
  /\ rest = NoLine /\ valueToFetch = "none" /\ headerFound = FALSE
  /\ values = NotSaid /\ inverterShown = NotSaid
  /\ requests = 0 /\ inverterSaid = NotSaid /\ outcome = "none"

PvNext ==
  /\ UNCHANGED inverter
  /\ \/ SendLine \/ Stall \/ ReadLine \/ TimesOut \/ BeginRead \/ EndRead \/ RequestData
     \/ ReplyIsLate
     \/ \E withPiece \in BOOLEAN : HangUp(withPiece)
-----------------------------------------------------------------------------
\* A reply that came as a whole is what is published, whatever replies before it were cut
\* off, hung or timed out and left in the parser.  (SolarEdge: if it has a row.)
WholeReplyIsPublished ==
  /\ outcome = "whole" /\ inverterSaid # NotSaid /\ retryCounter = 0
  /\ ~dataFetchInProgress /\ ~dataIsReady /\ ~inLoop
  => inverterShown = inverterSaid

\* An inverter that cannot be reached is taken for one that is off: no power.
NightIsZero ==
  inverter # "solaredge" /\ retryCounter > MostTries /\ ~dataIsReady => inverterShown.power = 0

InverterIsShown == WholeReplyIsPublished /\ NightIsZero

\* No connect, timeout or end of a reply leaves a socket behind: there is one only while it
\* is read from.
NoSocketIsLost == descriptors = IF isOpen /\ (dataFetchInProgress \/ inLoop) THEN 1 ELSE 0
=============================================================================
