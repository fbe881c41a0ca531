--------------------------- MODULE Network_proofs ---------------------------
(***************************************************************************)
(* Proofs about the link to the server and what carries it: EspIdfWifi,    *)
(* what the tasks of the Wi-Fi driver owe each other; NetDriver, what every *)
(* network driver keeps of its client and its sockets; Ota, what an update *)
(* leaves to boot; SrpcLink, that packets come out of the stream in order, *)
(* however it is cut; Network, what the keep-alive owes the server, for    *)
(* every choice of the time constants that satisfies its assumptions.      *)
(***************************************************************************)
EXTENDS EspIdfWifi, NetDriver, Ota, Network, SrpcLink, SequenceTheorems, TLAPS

-----------------------------------------------------------------------------
(***************************************************************************)
(* Events that wait.  The last one about a fact tells it.                  *)
(***************************************************************************)
Silent(seq, about) == \A i \in 1 .. Len(seq) : seq[i] \notin about
LastTells(seq, about, says, fact) ==
  \A i \in 1 .. Len(seq) :
    seq[i] \in about /\ (\A j \in i + 1 .. Len(seq) : seq[j] \notin about) => (seq[i] = says <=> fact)

Event == {"start", "connected", "got_ip", "lost_ip", "disconnected"}

\* An event that is posted is the last one, if it is about the fact at all.
LEMMA PostLemma ==
  ASSUME NEW seq \in Seq(Event), NEW e \in Event, NEW about, NEW says, NEW fact
  PROVE  /\ Append(seq, e) \in Seq(Event)
         /\ e \in about =>
              /\ ~Silent(Append(seq, e), about)
              /\ (e = says <=> fact) => LastTells(Append(seq, e), about, says, fact)
         /\ e \notin about =>
              /\ Silent(Append(seq, e), about) <=> Silent(seq, about)
              /\ LastTells(seq, about, says, fact) => LastTells(Append(seq, e), about, says, fact)
<1> DEFINE more == Append(seq, e)
<1>1. /\ more \in Seq(Event) /\ Len(more) = Len(seq) + 1 /\ Len(seq) \in Nat
      /\ more[Len(seq) + 1] = e
      /\ \A i \in 1 .. Len(seq) : more[i] = seq[i]
  OBVIOUS
<1> HIDE DEF more
<1>2. ASSUME e \in about PROVE ~Silent(more, about)
  BY <1>1, <1>2 DEF Silent
<1>3. ASSUME e \in about, e = says <=> fact PROVE LastTells(more, about, says, fact)
  <2>1. SUFFICES ASSUME NEW i \in 1 .. Len(more), more[i] \in about,
                        \A j \in i + 1 .. Len(more) : more[j] \notin about
                 PROVE  more[i] = says <=> fact
    BY DEF LastTells
  <2>2. i = Len(seq) + 1
    BY <1>1, <1>3, <2>1
  <2> QED
    BY <1>1, <1>3, <2>2
<1>4. ASSUME e \notin about PROVE Silent(more, about) <=> Silent(seq, about)
  <2>1. ASSUME Silent(seq, about), NEW i \in 1 .. Len(more) PROVE more[i] \notin about
    <3>1. i \in 1 .. Len(seq) \/ i = Len(seq) + 1
      BY <1>1
    <3> QED
      BY <1>1, <1>4, <2>1, <3>1 DEF Silent
  <2>2. ASSUME Silent(more, about), NEW i \in 1 .. Len(seq) PROVE seq[i] \notin about
    <3>1. i \in 1 .. Len(more)
      BY <1>1
    <3> QED
      BY <1>1, <2>2, <3>1 DEF Silent
  <2> QED
    BY <2>1, <2>2 DEF Silent
<1>5. ASSUME e \notin about, LastTells(seq, about, says, fact) PROVE LastTells(more, about, says, fact)
  <2>1. SUFFICES ASSUME NEW i \in 1 .. Len(more), more[i] \in about,
                        \A j \in i + 1 .. Len(more) : more[j] \notin about
                 PROVE  more[i] = says <=> fact
    BY DEF LastTells
  <2>2. i \in 1 .. Len(seq)
    <3>1. i # Len(seq) + 1
      BY <1>1, <1>5, <2>1
    <3> QED
      BY <1>1, <3>1
  <2>3. ASSUME NEW j \in i + 1 .. Len(seq) PROVE seq[j] \notin about
    <3>1. j \in i + 1 .. Len(more) /\ j \in 1 .. Len(seq)
      BY <1>1, <2>2
    <3> QED
      BY <1>1, <2>1, <3>1
  <2> QED
    BY <1>1, <1>5, <2>1, <2>2, <2>3 DEF LastTells
<1> QED
  BY <1>1, <1>2, <1>3, <1>4, <1>5 DEF more

\* What the event that is taken told, the rest tells if it tells anything.
LEMMA TakeLemma ==
  ASSUME NEW seq \in Seq(Event), seq # << >>, NEW about, NEW says, NEW fact
  PROVE  /\ Tail(seq) \in Seq(Event) /\ Head(seq) \in Event
         /\ LastTells(seq, about, says, fact) =>
              /\ LastTells(Tail(seq), about, says, fact)
              /\ Head(seq) \in about /\ Silent(Tail(seq), about) => (Head(seq) = says <=> fact)
         /\ Head(seq) \notin about /\ Silent(Tail(seq), about) => Silent(seq, about)
<1> DEFINE rest == Tail(seq)
<1>1. /\ rest \in Seq(Event) /\ Head(seq) = seq[1] /\ Head(seq) \in Event
      /\ Len(seq) \in Nat /\ Len(seq) > 0 /\ Len(rest) = Len(seq) - 1
      /\ \A i \in 1 .. Len(rest) : rest[i] = seq[i + 1]
  OBVIOUS
<1> HIDE DEF rest
<1>2. ASSUME LastTells(seq, about, says, fact) PROVE LastTells(rest, about, says, fact)
  <2>1. SUFFICES ASSUME NEW i \in 1 .. Len(rest), rest[i] \in about,
                        \A j \in i + 1 .. Len(rest) : rest[j] \notin about
                 PROVE  rest[i] = says <=> fact
    BY DEF LastTells
  <2>2. i + 1 \in 1 .. Len(seq) /\ seq[i + 1] = rest[i]
    BY <1>1
  <2>3. ASSUME NEW j \in (i + 1) + 1 .. Len(seq) PROVE seq[j] \notin about
    <3>1. j - 1 \in i + 1 .. Len(rest) /\ j - 1 \in 1 .. Len(rest) /\ (j - 1) + 1 = j
      BY <1>1
    <3> QED
      BY <1>1, <2>1, <3>1
  <2> QED
    BY <1>2, <2>1, <2>2, <2>3 DEF LastTells
<1>3. ASSUME Silent(rest, about), NEW j \in 1 + 1 .. Len(seq) PROVE seq[j] \notin about
  <2>1. j - 1 \in 1 .. Len(rest) /\ (j - 1) + 1 = j
    BY <1>1
  <2> QED
    BY <1>1, <1>3, <2>1 DEF Silent
<1>4. ASSUME LastTells(seq, about, says, fact), Head(seq) \in about, Silent(rest, about)
      PROVE  Head(seq) = says <=> fact
  BY <1>1, <1>3, <1>4 DEF LastTells
<1>5. ASSUME Head(seq) \notin about, Silent(rest, about) PROVE Silent(seq, about)
  <2>1. ASSUME NEW i \in 1 .. Len(seq) PROVE seq[i] \notin about
    <3>1. i = 1 \/ i \in 1 + 1 .. Len(seq)
      BY <1>1
    <3> QED
      BY <1>1, <1>3, <1>5, <3>1
  <2> QED
    BY <2>1 DEF Silent
<1> QED
  BY <1>1, <1>2, <1>4, <1>5 DEF rest

-----------------------------------------------------------------------------
(***************************************************************************)
(* The Wi-Fi driver.                                                       *)
(***************************************************************************)
WifiTypeInv ==
  /\ radio \in {"off", "idle", "trying", "associated"} /\ events \in Seq(Event)
  /\ leased \in BOOLEAN /\ apMode \in BOOLEAN /\ initDone \in BOOLEAN
  /\ isWifiConnected \in BOOLEAN /\ isIpReady \in BOOLEAN
  /\ isServerConnected \in BOOLEAN /\ client \in BOOLEAN
  /\ after \in {"idle", "drop", "stop"}
  /\ eventAt \in {"idle", "close", "closing", "retry"}
  /\ mainAt \in {"idle", "drop", "stop", "start"} \cup DOMAIN Inside \cup Busy

\* Who has the mutex is inside; a session has a client.
MutexInv ==
  /\ holder \in {"none", "main", "event"}
  /\ holder = "main" <=> mainAt \in Busy
  /\ holder = "event" <=> eventAt = "closing"
  /\ isServerConnected => client

\* Nothing happens before the first setup, and an address needs the association.
RadioInv ==
  /\ leased => radio = "associated"
  /\ ~initDone => /\ radio = "off" /\ events = << >> /\ ~isWifiConnected /\ ~isIpReady
                  /\ after = "stop" => mainAt = "idle"
  /\ mainAt = "start" => radio = "off"
  /\ mainAt \in {"start", "stop"} => after = "stop"

\* A flag says what the last event about it will say, or what the radio does when none waits;
\* while setup() leads to the stop of the radio it may already be down.
Stopping == after = "stop" /\ mainAt \in {"close", "closing", "stop"}
Tells(seq, flag, about, says, fact, stopping) ==
  /\ LastTells(seq, about, says, fact)
  /\ Silent(seq, about) => (flag => fact) /\ (fact => flag \/ stopping)
Joining == {"connected", "disconnected"}
Addressing == {"got_ip", "lost_ip", "disconnected"}
Associated == radio = "associated"
JoinedInv == Tells(events, isWifiConnected, Joining, "connected", Associated, Stopping)
AddressInv == Tells(events, isIpReady, Addressing, "got_ip", leased, Stopping)

WifiInv == WifiTypeInv /\ MutexInv /\ RadioInv /\ JoinedInv /\ AddressInv

-----------------------------------------------------------------------------
\* Places: those where the main loop waits for the mutex and those where it has it.
LEMMA PlacesLemma ==
  /\ DOMAIN Inside = {"read", "avail", "take", "write", "connect", "close"}
  /\ Busy = {"reading", "counting", "taking", "writing", "connecting", "closing"}
  /\ \A place \in DOMAIN Inside : Inside[place] \in Busy
<1>1. DOMAIN Inside = {"read", "avail", "take", "write", "connect", "close"}
  BY DEF Inside
<1>2. /\ Inside["read"] = "reading" /\ Inside["avail"] = "counting" /\ Inside["take"] = "taking"
      /\ Inside["write"] = "writing" /\ Inside["connect"] = "connecting"
      /\ Inside["close"] = "closing"
  BY DEF Inside
<1>3. Busy = {"reading", "counting", "taking", "writing", "connecting", "closing"}
  BY <1>1, <1>2 DEF Busy
<1> QED
  BY <1>1, <1>2, <1>3

\* The steps of the main loop that only move it: the mutex, the client, the place.
MainMoves ==
  \/ ReadCall \/ WriteCall \/ ConnectCall \/ DisconnectCall \/ MainLocks
  \/ Reads \/ Counts \/ Takes \/ Writes \/ ConnectsTo \/ Closes
  \/ DropLock /\ holder # "event"

\* The driver starts again from nothing.
Forgets ==
  /\ mainAt \in {"idle", "drop"} /\ mainAt' = "idle" /\ eventAt' = "idle"
  /\ holder' # "main" /\ holder' # "event" /\ holder' \in {"none", "main", "event"}
  /\ after' \in {after, "idle"}
  /\ radio' = "off" /\ leased' = FALSE /\ events' = << >> /\ apMode' = FALSE /\ initDone' = FALSE
  /\ isWifiConnected' = FALSE /\ isIpReady' = FALSE /\ isServerConnected' = FALSE /\ client' = FALSE

\* A step of the driver is one of those, of the radio, of the event task, or of setup().
LEMMA WifiSteps ==
  ASSUME WifiTypeInv, MutexInv, WifiNext
  PROVE  \/ Associates \/ GetsAddress \/ LosesAddress \/ Drops
         \/ HandleEvent \/ EventLocks \/ EventCloses \/ EventRetries
         \/ MainMoves \/ Forgets \/ \E ap \in BOOLEAN : Setup(ap)
         \/ StopRadio \/ StartRadio
<1>1. ASSUME Uninit PROVE Forgets
  BY <1>1, PlacesLemma DEF Uninit, Forgets, MutexInv, WifiTypeInv
<1>2. ASSUME DropLock, holder = "event" PROVE Forgets
  BY <1>2 DEF DropLock, GiveBack, Forgets
<1> QED
  BY <1>1, <1>2 DEF WifiNext, MainMoves

\* What a move of the main loop leaves alone.
LEMMA MovesLemma ==
  ASSUME WifiTypeInv, MutexInv, MainMoves
  PROVE  /\ UNCHANGED <<radioVars, events, flagVars, eventAt>>
         /\ after' \in {"idle", "drop", after}
         /\ after' = "stop" => after = "stop"
         /\ mainAt' = "stop" => mainAt = "closing" /\ after' = "stop"
         /\ mainAt' # "start"
         /\ mainAt' \in {"idle", "drop", "stop", "start"} \cup DOMAIN Inside \cup Busy
         /\ isServerConnected' \in BOOLEAN /\ client' \in BOOLEAN
         /\ isServerConnected' => client'
         /\ holder' \in {"none", "main", "event"}
         /\ holder' = "main" <=> mainAt' \in Busy
         /\ holder' = "event" <=> eventAt = "closing"
         /\ mainAt = "idle" => after' # "stop"
         /\ Stopping => Stopping'
<1> USE PlacesLemma DEF WifiTypeInv, MutexInv, Stopping
<1>1. CASE ReadCall \/ WriteCall \/ ConnectCall \/ DisconnectCall
  <2>1. PICK place \in {"read", "write", "connect", "close"}, next \in {"idle", "drop"} : Calls(place, next)
    BY <1>1 DEF ReadCall, WriteCall, ConnectCall, DisconnectCall
  <2> QED
    BY <2>1 DEF Calls, clientVars
<1>2. CASE MainLocks
  BY <1>2 DEF MainLocks, Inside, clientVars
<1>3. CASE Reads \/ Counts \/ Takes
  <2>1. UNCHANGED clientVars
    BY <1>3 DEF Reads, Counts, Takes
  <2>2. PICK place \in {"reading", "counting", "taking"} :
          Leaves(place, {"idle", "drop", "avail", "take", "close"})
    BY <1>3 DEF Reads, Counts, Takes, NoClient, Leaves
  <2> QED
    BY <2>1, <2>2 DEF Leaves, clientVars
<1>4. CASE Writes
  <2>1. Leaves("writing", {"idle"}) /\ client' = client
    BY <1>4 DEF Writes, NoClient, clientVars
  <2>2. isServerConnected' = isServerConnected \/ isServerConnected' = FALSE
    BY <1>4, Zenon DEF Writes, NoClient, clientVars
  <2>3. (isServerConnected' => isServerConnected) /\ isServerConnected' \in BOOLEAN
    <3>1. CASE isServerConnected' = isServerConnected
      BY <3>1 DEF WifiTypeInv
    <3>2. CASE isServerConnected' = FALSE
      BY <3>2
    <3> QED
      BY <2>2, <3>1, <3>2
  <2> QED
    BY <2>1, <2>3 DEF Leaves
<1>5. CASE ConnectsTo
  BY <1>5 DEF ConnectsTo, Leaves, clientVars
<1>6. CASE Closes
  BY <1>6 DEF Closes, Leaves
<1>7. CASE DropLock /\ holder # "event"
  BY <1>7 DEF DropLock, GiveBack, clientVars
<1> QED
  BY <1>1, <1>2, <1>3, <1>4, <1>5, <1>6, <1>7 DEF MainMoves

\* Posting an event keeps what is told: the event tells it, or is about something else.
LEMMA PostTells ==
  ASSUME NEW seq \in Seq(Event), NEW e \in Event, NEW about, NEW says,
         NEW flag \in BOOLEAN, NEW fact \in BOOLEAN, NEW st \in BOOLEAN,
         NEW flag2 \in BOOLEAN, NEW fact2 \in BOOLEAN, NEW st2 \in BOOLEAN,
         Tells(seq, flag, about, says, fact, st),
         \/ e \in about /\ (e = says <=> fact2)
         \/ e \notin about /\ (flag2 <=> flag) /\ (fact2 <=> fact) /\ (st => st2)
  PROVE  Tells(Append(seq, e), flag2, about, says, fact2, st2)
<1>1. CASE e \in about /\ (e = says <=> fact2)
  BY <1>1, PostLemma DEF Tells
<1>2. CASE e \notin about /\ (flag2 <=> flag) /\ (fact2 <=> fact) /\ (st => st2)
  <2>1. LastTells(seq, about, says, fact2)
    BY <1>2 DEF Tells, LastTells
  <2> QED
    BY <1>2, <2>1, PostLemma DEF Tells
<1> QED
  BY <1>1, <1>2

\* So does handling one: the flag then says what the event said.
LEMMA TakeTells ==
  ASSUME NEW seq \in Seq(Event), seq # << >>, NEW about, NEW says,
         NEW flag \in BOOLEAN, NEW fact \in BOOLEAN, NEW st \in BOOLEAN,
         NEW flag2 \in BOOLEAN,
         Tells(seq, flag, about, says, fact, st),
         \/ Head(seq) \in about /\ (flag2 <=> Head(seq) = says)
         \/ Head(seq) \notin about /\ (flag2 <=> flag)
  PROVE  Tells(Tail(seq), flag2, about, says, fact, st)
<1>1. LastTells(Tail(seq), about, says, fact)
  BY TakeLemma DEF Tells
<1>2. ASSUME Silent(Tail(seq), about) PROVE (flag2 => fact) /\ (fact => flag2 \/ st)
  <2>1. CASE Head(seq) \in about /\ (flag2 <=> Head(seq) = says)
    BY <1>2, <2>1, TakeLemma DEF Tells
  <2>2. CASE Head(seq) \notin about /\ (flag2 <=> flag)
    BY <1>2, <2>2, TakeLemma DEF Tells
  <2> QED
    BY <2>1, <2>2
<1> QED
  BY <1>1, <1>2 DEF Tells

\* And a step without events that lets the flag and the fact be, or takes both away.
LEMMA SameTells ==
  ASSUME NEW seq, NEW about, NEW says,
         NEW flag \in BOOLEAN, NEW fact \in BOOLEAN, NEW st \in BOOLEAN,
         NEW flag2 \in BOOLEAN, NEW fact2 \in BOOLEAN, NEW st2 \in BOOLEAN,
         Tells(seq, flag, about, says, fact, st),
         fact2 <=> fact, flag2 => flag, flag => flag2 \/ st2, st => st2 \/ ~fact
  PROVE  Tells(seq, flag2, about, says, fact2, st2)
<1>1. LastTells(seq, about, says, fact2)
  BY DEF Tells, LastTells
<1> QED
  BY <1>1 DEF Tells

-----------------------------------------------------------------------------
\* The types, and the mutex.
LEMMA MutexInductive ==
  ASSUME WifiTypeInv, MutexInv, WifiNext
  PROVE  WifiTypeInv' /\ MutexInv'
<1> USE PlacesLemma
<1> DEFINE Noted == events' \in Seq(Event)
<1>0. ASSUME NEW e \in Event, Happens(e) PROVE Noted
  BY <1>0, PostLemma DEF Happens, WifiTypeInv
<1> HIDE DEF Noted
<1>e. {"start", "connected", "got_ip", "lost_ip", "disconnected"} = Event
  BY DEF Event
<1>1. CASE Associates \/ GetsAddress \/ LosesAddress \/ Drops
  <2>1. Noted
    BY <1>0, <1>1, <1>e DEF Associates, GetsAddress, LosesAddress, Drops
  <2>2. UNCHANGED <<apMode, initDone, isWifiConnected, isIpReady, isServerConnected, client,
                    holder, mainAt, after, eventAt>>
    BY <1>1 DEF Associates, GetsAddress, LosesAddress, Drops, flagVars, clientVars
  <2>3. leased' \in BOOLEAN
    BY <1>1 DEF Associates, GetsAddress, LosesAddress, Drops, WifiTypeInv
  <2>4. radio' \in {"off", "idle", "trying", "associated"}
    BY <1>1 DEF Associates, GetsAddress, LosesAddress, Drops, WifiTypeInv
  <2> QED
    BY <2>1, <2>2, <2>3, <2>4 DEF WifiTypeInv, MutexInv, Noted
<1>2. CASE HandleEvent
  <2>1. Noted
    BY <1>2, TakeLemma DEF HandleEvent, WifiTypeInv, Noted
  <2>2. radio' \in {"off", "idle", "trying", "associated"}
    BY <1>2, TakeLemma DEF HandleEvent, Connecting, WifiTypeInv, Event
  <2>3. isWifiConnected' \in BOOLEAN /\ isIpReady' \in BOOLEAN
    BY <1>2, TakeLemma DEF HandleEvent, FlagsLost, flagVars, WifiTypeInv, Event
  <2> QED
    BY <1>2, <2>1, <2>2, <2>3 DEF HandleEvent, WifiTypeInv, MutexInv, Noted, clientVars
<1>3. CASE EventLocks \/ EventRetries
  BY <1>3 DEF EventLocks, EventRetries, Connecting, WifiTypeInv, MutexInv, radioVars, flagVars, clientVars
<1>3c. CASE EventCloses
  BY <1>3c DEF EventCloses, WifiTypeInv, MutexInv, radioVars, flagVars
<1>4. CASE MainMoves
  BY <1>4, MovesLemma DEF WifiTypeInv, MutexInv, radioVars, flagVars
<1>5. CASE Forgets
  <2>1. Noted
    BY <1>5 DEF Forgets, Noted
  <2> QED
    BY <1>5, <2>1 DEF Forgets, WifiTypeInv, MutexInv, Noted
<1>6. ASSUME NEW ap \in BOOLEAN, Setup(ap) PROVE WifiTypeInv' /\ MutexInv'
  BY <1>6 DEF Setup, WifiTypeInv, MutexInv, clientVars
<1>7. CASE StopRadio \/ StartRadio
  <2>1. Noted
    BY <1>0, <1>7, <1>e DEF StopRadio, StartRadio, Noted, WifiTypeInv
  <2>2. /\ leased' \in BOOLEAN /\ radio' \in {"off", "idle"}
        /\ UNCHANGED <<apMode, initDone, isWifiConnected, isIpReady, isServerConnected, client,
                       holder, after, eventAt>>
        /\ mainAt \notin Busy /\ mainAt' \in {"start", "idle"}
    BY <1>7 DEF StopRadio, StartRadio, WifiTypeInv, flagVars, clientVars
  <2> QED
    BY <2>1, <2>2 DEF WifiTypeInv, MutexInv, Noted
<1> QED
  BY <1>1, <1>2, <1>3, <1>3c, <1>4, <1>5, <1>6, <1>7, WifiSteps

\* What the radio does before the first setup and between its stop and its start.
LEMMA RadioInductive ==
  ASSUME WifiTypeInv, MutexInv, RadioInv, WifiNext
  PROVE  RadioInv'
<1> USE PlacesLemma DEF RadioInv
<1>1. CASE Associates \/ GetsAddress \/ LosesAddress \/ Drops
  BY <1>1 DEF Associates, GetsAddress, LosesAddress, Drops, flagVars, clientVars
<1>2. CASE HandleEvent
  <2>1. radio' = radio \/ (radio = "idle" /\ radio' = "trying")
    BY <1>2, TakeLemma DEF HandleEvent, Connecting, WifiTypeInv, Event
  <2> QED
    BY <1>2, <2>1 DEF HandleEvent, clientVars
<1>3. CASE EventLocks \/ EventCloses \/ EventRetries
  BY <1>3 DEF EventLocks, EventCloses, EventRetries, Connecting, radioVars, flagVars, clientVars
<1>4. CASE MainMoves
  BY <1>4, MovesLemma DEF radioVars, flagVars
<1>5. CASE Forgets
  BY <1>5 DEF Forgets
<1>6. ASSUME NEW ap \in BOOLEAN, Setup(ap) PROVE RadioInv'
  BY <1>6 DEF Setup, clientVars
<1>7. CASE StopRadio \/ StartRadio
  BY <1>7 DEF StopRadio, StartRadio, flagVars, clientVars
<1> QED
  BY <1>1, <1>2, <1>3, <1>4, <1>5, <1>6, <1>7, WifiSteps

\* An event about the association and one about the address.
LEMMA PostedBoth ==
  ASSUME WifiInv, WifiTypeInv', NEW e \in Event, events' = Append(events, e),
         UNCHANGED flagVars,
         \/ e \in Joining /\ (e = "connected" <=> Associated')
         \/ e \notin Joining /\ UNCHANGED Associated /\ (Stopping => Stopping'),
         \/ e \in Addressing /\ (e = "got_ip" <=> leased')
         \/ e \notin Addressing /\ UNCHANGED leased /\ (Stopping => Stopping')
  PROVE  JoinedInv' /\ AddressInv'
<1>1. /\ Stopping \in BOOLEAN /\ Stopping' \in BOOLEAN
      /\ Associated \in BOOLEAN /\ Associated' \in BOOLEAN
  BY DEF Stopping, Associated
<1>2. /\ events \in Seq(Event) /\ isWifiConnected \in BOOLEAN /\ isIpReady \in BOOLEAN
      /\ leased \in BOOLEAN /\ leased' \in BOOLEAN
  BY DEF WifiInv, WifiTypeInv
<1>3. isWifiConnected' = isWifiConnected /\ isIpReady' = isIpReady
  BY DEF flagVars
<1>4. Tells(Append(events, e), isWifiConnected', Joining, "connected", Associated', Stopping')
  BY <1>1, <1>2, <1>3, PostTells DEF WifiInv, JoinedInv
<1>5. Tells(Append(events, e), isIpReady', Addressing, "got_ip", leased', Stopping')
  BY <1>1, <1>2, <1>3, PostTells DEF WifiInv, AddressInv
<1> QED
  BY <1>4, <1>5 DEF JoinedInv, AddressInv

\* A step without an event.
LEMMA SilentBoth ==
  ASSUME WifiInv, WifiTypeInv', UNCHANGED events,
         Associated' <=> Associated, leased' <=> leased,
         isWifiConnected' => isWifiConnected, isWifiConnected => isWifiConnected' \/ Stopping',
         isIpReady' => isIpReady, isIpReady => isIpReady' \/ Stopping',
         Stopping => Stopping' \/ ~Associated,
         Stopping => Stopping' \/ ~leased
  PROVE  JoinedInv' /\ AddressInv'
<1>1. /\ Stopping \in BOOLEAN /\ Stopping' \in BOOLEAN
      /\ Associated \in BOOLEAN /\ Associated' \in BOOLEAN
  BY DEF Stopping, Associated
<1>2. /\ isWifiConnected \in BOOLEAN /\ isIpReady \in BOOLEAN
      /\ isWifiConnected' \in BOOLEAN /\ isIpReady' \in BOOLEAN
      /\ leased \in BOOLEAN /\ leased' \in BOOLEAN
  BY DEF WifiInv, WifiTypeInv
<1>4. Tells(events, isWifiConnected', Joining, "connected", Associated', Stopping')
  BY <1>1, <1>2, SameTells DEF WifiInv, JoinedInv
<1>5. Tells(events, isIpReady', Addressing, "got_ip", leased', Stopping')
  BY <1>1, <1>2, SameTells DEF WifiInv, AddressInv
<1> QED
  BY <1>4, <1>5 DEF JoinedInv, AddressInv

\* An event that is handled.
LEMMA TakenBoth ==
  ASSUME WifiInv, WifiTypeInv', HandleEvent
  PROVE  JoinedInv' /\ AddressInv'
<1>1. /\ Stopping \in BOOLEAN /\ Stopping' = Stopping /\ Associated \in BOOLEAN
      /\ Associated' = Associated /\ leased' = leased
  <2>1. radio' = radio \/ (radio = "idle" /\ radio' = "trying")
    BY TakeLemma DEF HandleEvent, Connecting, WifiInv, WifiTypeInv, Event
  <2> QED
    BY <2>1 DEF HandleEvent, Stopping, Associated
<1>2. /\ events \in Seq(Event) /\ events # << >> /\ events' = Tail(events)
      /\ isWifiConnected \in BOOLEAN /\ isIpReady \in BOOLEAN
      /\ isWifiConnected' \in BOOLEAN /\ isIpReady' \in BOOLEAN /\ leased \in BOOLEAN
  BY DEF HandleEvent, WifiInv, WifiTypeInv
<1>3. Head(events) \in Event
  BY <1>2, TakeLemma
<1>4. \/ Head(events) \in Joining /\ (isWifiConnected' <=> Head(events) = "connected")
      \/ Head(events) \notin Joining /\ (isWifiConnected' <=> isWifiConnected)
  BY <1>3 DEF HandleEvent, FlagsLost, flagVars, Event, Joining
<1>5. \/ Head(events) \in Addressing /\ (isIpReady' <=> Head(events) = "got_ip")
      \/ Head(events) \notin Addressing /\ (isIpReady' <=> isIpReady)
  BY <1>3 DEF HandleEvent, FlagsLost, flagVars, Event, Addressing
<1>6. Tells(Tail(events), isWifiConnected', Joining, "connected", Associated, Stopping)
  BY <1>1, <1>2, <1>4, TakeTells DEF WifiInv, JoinedInv
<1>7. Tells(Tail(events), isIpReady', Addressing, "got_ip", leased, Stopping)
  BY <1>1, <1>2, <1>5, TakeTells DEF WifiInv, AddressInv
<1> QED
  BY <1>1, <1>2, <1>6, <1>7 DEF JoinedInv, AddressInv

\* Nothing waits and nothing is there.
LEMMA ForgottenBoth ==
  ASSUME NEW flag, NEW fact, NEW about, NEW says, NEW st, ~flag, ~fact
  PROVE  Tells(<< >>, flag, about, says, fact, st)
BY DEF Tells, LastTells, Silent

\* What waits and the flags together tell what the radio does, through every step.
LEMMA FlagsInductive ==
  ASSUME WifiInv, WifiNext
  PROVE  JoinedInv' /\ AddressInv'
<1>0. WifiTypeInv' /\ WifiTypeInv /\ MutexInv /\ RadioInv
  BY MutexInductive DEF WifiInv
<1>e. /\ {"start", "connected", "got_ip", "lost_ip", "disconnected"} = Event
      /\ Joining = {"connected", "disconnected"} /\ Addressing = {"got_ip", "lost_ip", "disconnected"}
  BY DEF Event, Joining, Addressing
<1>1. CASE Associates
  <2>1. /\ events' = Append(events, "connected") /\ UNCHANGED flagVars /\ Stopping' = Stopping
        /\ Associated' /\ UNCHANGED leased
    BY <1>1 DEF Associates, Happens, Stopping, Associated
  <2> QED
    BY <1>0, <1>e, <2>1, PostedBoth
<1>2. CASE GetsAddress
  <2>1. /\ events' = Append(events, "got_ip") /\ UNCHANGED flagVars /\ Stopping' = Stopping
        /\ UNCHANGED Associated /\ leased'
    BY <1>2 DEF GetsAddress, Happens, Stopping, Associated
  <2> QED
    BY <1>0, <1>e, <2>1, PostedBoth
<1>3. CASE LosesAddress
  <2>1. /\ events' = Append(events, "lost_ip") /\ UNCHANGED flagVars /\ Stopping' = Stopping
        /\ UNCHANGED Associated /\ ~leased'
    BY <1>3 DEF LosesAddress, Happens, Stopping, Associated
  <2> QED
    BY <1>0, <1>e, <2>1, PostedBoth
<1>4. CASE Drops
  <2>1. /\ events' = Append(events, "disconnected") /\ UNCHANGED flagVars /\ Stopping' = Stopping
        /\ ~Associated' /\ ~leased'
    BY <1>4 DEF Drops, Happens, Stopping, Associated
  <2> QED
    BY <1>0, <1>e, <2>1, PostedBoth
<1>5. CASE HandleEvent
  BY <1>0, <1>5, TakenBoth
<1>6. CASE EventLocks \/ EventCloses \/ EventRetries
  <2>1. /\ UNCHANGED events /\ (Stopping' <=> Stopping) /\ (leased' <=> leased)
        /\ (Associated' <=> Associated)
        /\ (isWifiConnected' <=> isWifiConnected) /\ (isIpReady' <=> isIpReady)
    BY <1>6 DEF EventLocks, EventCloses, EventRetries, Connecting, Stopping, Associated, radioVars, flagVars
  <2> QED
    BY <1>0, <2>1, SilentBoth
<1>7. CASE MainMoves
  <2>1. /\ UNCHANGED events /\ (Stopping => Stopping') /\ (leased' <=> leased)
        /\ (Associated' <=> Associated)
        /\ (isWifiConnected' <=> isWifiConnected) /\ (isIpReady' <=> isIpReady)
    BY <1>0, <1>7, MovesLemma DEF Associated, radioVars, flagVars
  <2> QED
    BY <1>0, <2>1, SilentBoth
<1>8. CASE Forgets
  <2>1. /\ events' = << >> /\ ~isWifiConnected' /\ ~isIpReady' /\ ~Associated' /\ ~leased'
    BY <1>8 DEF Forgets, Associated
  <2> QED
    BY <2>1, ForgottenBoth DEF JoinedInv, AddressInv
<1>9. ASSUME NEW ap \in BOOLEAN, Setup(ap) PROVE JoinedInv' /\ AddressInv'
  <2>0. /\ UNCHANGED events /\ ~isWifiConnected' /\ ~isIpReady' /\ (leased' <=> leased)
        /\ (Associated' <=> Associated) /\ ~Stopping /\ (initDone => Stopping')
    BY <1>9, PlacesLemma DEF Setup, Stopping, Associated
  <2>1. CASE initDone
    BY <1>0, <2>0, <2>1, SilentBoth
  <2>2. CASE ~initDone
    <3>1. events' = << >> /\ ~leased' /\ ~Associated'
      BY <1>0, <2>0, <2>2 DEF RadioInv, Associated
    <3> QED
      BY <2>0, <3>1, ForgottenBoth DEF JoinedInv, AddressInv
  <2> QED
    BY <1>0, <2>1, <2>2 DEF WifiTypeInv
<1>10. CASE StopRadio
  <2>1. ~Associated' /\ ~leased' /\ UNCHANGED flagVars /\ Stopping /\ ~Stopping'
    BY <1>0, <1>10 DEF StopRadio, Stopping, Associated, RadioInv
  <2>2. CASE radio \in {"trying", "associated"}
    <3>1. events' = Append(events, "disconnected")
      BY <1>10, <2>2 DEF StopRadio, Happens
    <3> QED
      BY <1>0, <1>e, <2>1, <3>1, PostedBoth
  <2>3. CASE radio \notin {"trying", "associated"}
    <3>1. /\ UNCHANGED events /\ ~Associated /\ ~leased
          /\ (isWifiConnected' <=> isWifiConnected) /\ (isIpReady' <=> isIpReady)
      BY <1>0, <1>10, <2>3 DEF StopRadio, Associated, RadioInv, flagVars
    <3> QED
      BY <1>0, <2>1, <3>1, SilentBoth
  <2> QED
    BY <2>2, <2>3
<1>11. CASE StartRadio
  <2>1. /\ UNCHANGED flagVars /\ ~Stopping /\ UNCHANGED leased /\ UNCHANGED Associated
    BY <1>0, <1>11 DEF StartRadio, Stopping, Associated, RadioInv, flagVars
  <2>2. CASE apMode
    <3>1. /\ UNCHANGED events /\ (leased' <=> leased) /\ (Associated' <=> Associated)
          /\ (isWifiConnected' <=> isWifiConnected) /\ (isIpReady' <=> isIpReady)
      BY <1>11, <2>1, <2>2 DEF StartRadio, flagVars
    <3> QED
      BY <1>0, <2>1, <3>1, SilentBoth
  <2>3. CASE ~apMode
    <3>1. events' = Append(events, "start")
      BY <1>11, <2>3 DEF StartRadio, Happens
    <3> QED
      BY <1>0, <1>e, <2>1, <3>1, PostedBoth
  <2> QED
    BY <2>2, <2>3
<1> QED
  BY <1>0, <1>1, <1>2, <1>3, <1>4, <1>5, <1>6, <1>7, <1>8, <1>9, <1>10, <1>11, WifiSteps

\* The tasks start agreed.
LEMMA WifiStarts == WifiInit => WifiInv
<1> SUFFICES ASSUME WifiInit PROVE WifiInv
  OBVIOUS
<1>1. WifiTypeInv
  <2>1. << >> \in Seq(Event)
    OBVIOUS
  <2> QED
    BY <2>1 DEF WifiInit, WifiTypeInv
<1>1m. MutexInv /\ RadioInv
  BY PlacesLemma DEF WifiInit, MutexInv, RadioInv
<1>2. JoinedInv /\ AddressInv
  BY ForgottenBoth DEF WifiInit, JoinedInv, AddressInv, Associated
<1> QED
  BY <1>1, <1>1m, <1>2 DEF WifiInv

\* A step keeps all of it.
LEMMA WifiKept == WifiInv /\ [WifiNext]_wifiVars => WifiInv'
<1> SUFFICES ASSUME WifiInv, [WifiNext]_wifiVars PROVE WifiInv'
  OBVIOUS
<1>1. CASE WifiNext
  BY <1>1, MutexInductive, RadioInductive, FlagsInductive DEF WifiInv
<1>2. CASE UNCHANGED wifiVars
  <2>1. WifiTypeInv' /\ MutexInv' /\ RadioInv'
    BY <1>2 DEF WifiInv, WifiTypeInv, MutexInv, RadioInv, wifiVars, radioVars, flagVars, clientVars
  <2>2. JoinedInv' /\ AddressInv'
    BY <1>2 DEF WifiInv, JoinedInv, AddressInv, Associated, Stopping, wifiVars, radioVars, flagVars
  <2> QED
    BY <2>1, <2>2 DEF WifiInv
<1> QED
  BY <1>1, <1>2

\* What the invariant says where both tasks rest.
LEMMA WifiAgreed == WifiInv => WifiTasksAgree
<1> SUFFICES ASSUME WifiInv PROVE WifiTasksAgree
  OBVIOUS
<1>1. ClientExclusive
  BY DEF WifiInv, MutexInv, ClientExclusive
<1>2. ASSUME mainAt = "idle", events = << >>
      PROVE  isWifiConnected = (radio = "associated") /\ isIpReady = leased
  <2>1. ~Stopping
    BY <1>2 DEF Stopping
  <2>2. Silent(events, Joining) /\ Silent(events, Addressing)
    BY <1>2 DEF Silent
  <2>3. isWifiConnected <=> Associated
    BY <2>1, <2>2 DEF WifiInv, JoinedInv, Tells
  <2>4. isIpReady <=> leased
    BY <2>1, <2>2 DEF WifiInv, AddressInv, Tells
  <2>5. isWifiConnected = (radio = "associated")
    BY <2>3 DEF Associated, WifiInv, WifiTypeInv
  <2>6. isIpReady = leased
    BY <2>4 DEF WifiInv, WifiTypeInv
  <2> QED
    BY <2>5, <2>6
<1>3. isServerConnected => client
  BY DEF WifiInv, MutexInv
<1>4. WifiFlagsAgree
  BY <1>2, <1>3 DEF WifiFlagsAgree
<1> QED
  BY <1>1, <1>4 DEF WifiTasksAgree

\* The main loop and the event task of the ESP-IDF Wi-Fi driver never work on the TLS client at
\* the same time, although an AutoLock gives the mutex back twice; and once both rest and no event
\* waits, the flags that SuplaDevice asks say what the radio does, however setups, losses and late
\* events crossed (esp_idf_wifi.cpp).
THEOREM WifiIsShared == WifiSpec => []WifiTasksAgree
<1>1. WifiSpec => []WifiInv
  BY WifiStarts, WifiKept, PTL DEF WifiSpec
<1> QED
  BY <1>1, WifiAgreed, PTL

-----------------------------------------------------------------------------
(***************************************************************************)
(* The network drivers.  What is true of a driver's record whatever calls  *)
(* it has had; then what config mode adds, which only holds between calls. *)
(***************************************************************************)
Records ==
  [ driver : Drivers, client : {"null", "kept"}, session : {"none", "up", "ended"},
    sockets : Nat, lost : Nat, ready : BOOLEAN, station : {"off", "trying", "on"},
    config : BOOLEAN, setups : Nat, handlers : Nat, used : {"client", "skipped", "nothing"} ]

SocketsCounted(n) ==
  /\ n.sockets = n.lost + (IF n.session = "none" THEN 0 ELSE 1)
  /\ n.lost > 0 => n.driver = "linux"
  /\ Wireless(n) => n.handlers = (IF n.setups = 0 THEN 0 ELSE 2)
ClientUsed(n) ==
  /\ n.session # "none" => n.client = "kept"
  /\ n.driver = "shield" => n.client = "kept"
  /\ n.used = "nothing" => n.driver = "linux"
  /\ n.used = "skipped" => Wireless(n) /\ n.session = "none"
  /\ ~Wireless(n) => n.station = "off"
Sound(n) == n \in Records /\ SocketsCounted(n) /\ ClientUsed(n)
Quiet(n) == n.config => n.session = "none" /\ n.station = "off"

\* An Arduino client that is in use by a pass of the loop.
Needed(n) == n.driver \in {"eth", "shield"} => n.client = "kept"
Alike(m, n) == m.driver = n.driver /\ m.config = n.config /\ m.station = n.station /\ m.setups = n.setups

\* A driver that has just started.
LEMMA FreshSound == \A driver \in Drivers : Sound(Fresh(driver)) /\ Quiet(Fresh(driver))
BY DEF Sound, Quiet, Fresh, Records, Drivers, SocketsCounted, ClientUsed, Wireless

\* The end of a session frees its socket and nothing else.
LEMMA NoSessionSound ==
  ASSUME NEW n, Sound(n)
  PROVE  /\ Sound(NoSession(n)) /\ Alike(NoSession(n), n)
         /\ NoSession(n).session = "none" /\ NoSession(n).client = n.client
         /\ NoSession(n).lost = n.lost /\ NoSession(n).sockets = n.lost
         /\ NoSession(n).used = n.used
<1> DEFINE m == NoSession(n)
<1>1. n \in Records /\ SocketsCounted(n) /\ ClientUsed(n)
  BY DEF Sound
<1>2. (IF n.session = "none" THEN n.sockets ELSE n.sockets - 1) = n.lost
  BY <1>1 DEF Records, SocketsCounted
<1>3. m = [n EXCEPT !.session = "none", !.sockets = n.lost]
  BY <1>1, <1>2 DEF NoSession, Records
<1>4. /\ m \in Records /\ m.session = "none" /\ m.client = n.client /\ m.lost = n.lost
      /\ m.sockets = n.lost /\ m.used = n.used /\ m.handlers = n.handlers
  BY <1>1, <1>3 DEF Records
<1>5. Alike(m, n)
  BY <1>1, <1>3 DEF Records, Alike
<1> HIDE DEF m
<1>6. SocketsCounted(m) /\ ClientUsed(m)
  BY <1>1, <1>4, <1>5 DEF Records, SocketsCounted, ClientUsed, Wireless, Alike
<1> QED
  BY <1>4, <1>5, <1>6 DEF Sound, m

\* disconnect(), of every driver.
LEMMA DroppedSound ==
  ASSUME NEW n, Sound(n)
  PROVE  /\ Sound(Dropped(n)) /\ Alike(Dropped(n), n) /\ Dropped(n).session = "none"
         /\ Needed(n) => Needed(Dropped(n))
<1>1. CASE n.driver = "linux"
  <2> DEFINE m == NoSession(n)
  <2>1. Sound(m) /\ Alike(m, n) /\ m.session = "none"
    BY NoSessionSound
  <2> HIDE DEF m
  <2>2. Dropped(n) = [m EXCEPT !.client = "null"]
    BY <1>1 DEF Dropped, LinuxClosed, m
  <2> QED
    BY <1>1, <2>1, <2>2 DEF Sound, Records, SocketsCounted, ClientUsed, Wireless, Alike, Needed
<1>2. CASE n.driver # "linux"
  BY <1>2, NoSessionSound DEF Dropped, Stopped, Alike, Needed, Sound, ClientUsed
<1> QED
  BY <1>1, <1>2

\* write(): the client it works on is there, or is looked for, or the driver is that of Linux.
LEMMA WrittenSound ==
  ASSUME NEW n, Sound(n), Needed(n)
  PROVE  /\ Sound(Written(n)) /\ Alike(Written(n), n) /\ Needed(Written(n))
         /\ Written(n).session = n.session
BY DEF Sound, Records, SocketsCounted, ClientUsed, Wireless, Alike, Needed, Written, WifiUsing, Using, Drivers

\* read().
LEMMA ReadSound ==
  ASSUME NEW n, Sound(n), Needed(n)
  PROVE  /\ Sound(ReadFrom(n)) /\ Alike(ReadFrom(n), n) /\ Needed(ReadFrom(n))
         /\ n.session = "none" => ReadFrom(n).session = "none"
<1>1. CASE n.driver = "linux" /\ n.session = "ended"
  <2>1. Using(n) = Written(n)
    BY <1>1 DEF Written, Wireless
  <2> DEFINE m == Written(n)
  <2>2. Sound(m) /\ Alike(m, n) /\ Needed(m)
    BY WrittenSound
  <2> HIDE DEF m
  <2>3. ReadFrom(n) = Dropped(m)
    BY <1>1, <2>1, <2>2 DEF ReadFrom, LinuxRead, Dropped, Alike, m
  <2> QED
    BY <1>1, <2>2, <2>3, DroppedSound DEF Alike
<1>2. CASE ~(n.driver = "linux" /\ n.session = "ended")
  <2>1. ReadFrom(n) = Written(n)
    BY <1>2 DEF ReadFrom, LinuxRead, Written, Wireless
  <2> QED
    BY <2>1, WrittenSound
<1> QED
  BY <1>1, <1>2

\* The session of a connect() that went well or did not.
LEMMA SessionSound ==
  ASSUME NEW n, Sound(n), NEW ok \in BOOLEAN, ok => n.client = "kept" /\ n.used # "skipped"
  PROVE  /\ Sound(WithSession(n, ok)) /\ Alike(WithSession(n, ok), n)
         /\ WithSession(n, ok).client = n.client
<1> DEFINE m == NoSession(n)
<1>1. /\ Sound(m) /\ Alike(m, n) /\ m.session = "none" /\ m.client = n.client
      /\ m.lost = n.lost /\ m.sockets = n.lost /\ m.used = n.used
  BY NoSessionSound
<1> HIDE DEF m
<1>2. CASE ok
  <2>1. WithSession(n, ok) = [m EXCEPT !.session = "up", !.sockets = @ + 1]
    BY <1>2 DEF WithSession, m
  <2> DEFINE r == WithSession(n, ok)
  <2>m. m \in Records
    BY <1>1 DEF Sound
  <2>r. r = [m EXCEPT !.session = "up", !.sockets = m.sockets + 1]
    BY <2>1, <2>m DEF Records
  <2>k. m.sockets + 1 \in Nat
    BY <2>m DEF Records
  <2> HIDE DEF r
  <2>1r. r \in Records
    BY <2>m, <2>r, <2>k DEF Records
  <2>2. /\ r.session = "up" /\ r.client = m.client /\ r.lost = m.lost
        /\ r.sockets = m.sockets + 1 /\ r.used = m.used /\ r.handlers = m.handlers
    BY <2>m, <2>r DEF Records
  <2>2a. Alike(r, m)
    BY <2>m, <2>r DEF Records, Alike
  <2>3. SocketsCounted(r) /\ ClientUsed(r)
    BY <1>1, <1>2, <2>m, <2>2, <2>2a DEF Sound, Records, SocketsCounted, ClientUsed, Wireless, Alike
  <2> QED
    BY <1>1, <2>1r, <2>2, <2>2a, <2>3 DEF Sound, Alike, r
<1>3. CASE ~ok
  BY <1>1, <1>3 DEF WithSession, m
<1> QED
  BY <1>2, <1>3

\* A client that is made, and one that is used.
LEMMA KeptSound ==
  ASSUME NEW n, Sound(n)
  PROVE  LET m == [n EXCEPT !.client = "kept"]
         IN  /\ Sound(m) /\ Alike(m, n) /\ m.client = "kept" /\ m.used = n.used
             /\ Sound(Using(m)) /\ Alike(Using(m), n) /\ Using(m).client = "kept"
             /\ Using(m).used = "client"
             /\ n.client = "kept" => m = n
<1> DEFINE m == [n EXCEPT !.client = "kept"]
<1>1. n \in Records
  BY DEF Sound
<1>2. m \in Records /\ Alike(m, n) /\ m.client = "kept" /\ m.used = n.used
  BY <1>1 DEF Records, Alike
<1>3. Sound(m)
  BY <1>1, <1>2 DEF Sound, Records, SocketsCounted, ClientUsed, Wireless
<1>4. n.client = "kept" => m = n
  BY <1>1 DEF Records
<1> HIDE DEF m
<1>5. Using(m) = [m EXCEPT !.used = "client"]
  BY <1>2 DEF Using
<1>6. /\ Using(m) \in Records /\ Alike(Using(m), n) /\ Using(m).client = "kept"
      /\ Using(m).used = "client"
  BY <1>2, <1>5 DEF Records, Alike
<1>7. Sound(Using(m))
  BY <1>2, <1>3, <1>5, <1>6 DEF Sound, Records, SocketsCounted, ClientUsed, Wireless
<1> QED
  BY <1>2, <1>3, <1>4, <1>6, <1>7 DEF m

\* connect().
LEMMA ConnectedSound ==
  ASSUME NEW n, Sound(n), NEW ok \in BOOLEAN, NEW refused \in Nat
  PROVE  /\ Sound(ConnectedBy(n, ok, refused)) /\ Alike(ConnectedBy(n, ok, refused), n)
         /\ Needed(ConnectedBy(n, ok, refused))
<1> DEFINE r == ConnectedBy(n, ok, refused)
<1>0. /\ n.driver \in {"esp32", "esp8266", "eth", "shield", "linux"}
      /\ n.client \in {"null", "kept"}
  BY DEF Sound, Records, Drivers
<1>1. CASE Wireless(n)
  <2> DEFINE m == Using([n EXCEPT !.client = "kept"])
  <2>1. Sound(m) /\ Alike(m, n) /\ m.client = "kept" /\ m.used = "client"
    BY KeptSound
  <2>2. r = WithSession(m, ok)
    <3>0. r = WifiConnected(n, ok)
      BY <1>1 DEF ConnectedBy, Wireless
    <3>1. CASE n.client = "null"
      BY <3>0, <3>1 DEF WifiConnected
    <3>2. CASE n.client = "kept"
      <4>1. [n EXCEPT !.client = "kept"] = n
        BY <3>2, KeptSound
      <4> QED
        BY <3>0, <3>2, <4>1 DEF WifiConnected
    <3> QED
      BY <1>0, <3>1, <3>2
  <2> HIDE DEF m
  <2> QED
    BY <2>1, <2>2, SessionSound DEF Alike, Needed
<1>2. CASE n.driver = "eth"
  <2> DEFINE k == NoSession(n)
             m == Using([k EXCEPT !.client = "kept"])
  <2>1. Sound(k) /\ Alike(k, n)
    BY NoSessionSound
  <2>2. r = WithSession(m, ok)
    BY <1>2 DEF ConnectedBy, EthConnected, Wireless
  <2> HIDE DEF k
  <2>3. Sound(m) /\ Alike(m, k) /\ m.client = "kept" /\ m.used = "client"
    BY <2>1, KeptSound
  <2> HIDE DEF m
  <2> QED
    BY <2>1, <2>2, <2>3, SessionSound DEF Alike, Needed
<1>3. CASE n.driver = "shield"
  <2>1. r = WithSession(n, ok)
    BY <1>3 DEF ConnectedBy, ShieldConnected, Wireless
  <2>2. n.client = "kept" /\ n.used # "skipped"
    BY <1>3 DEF Sound, ClientUsed, Wireless
  <2> QED
    BY <2>1, <2>2, SessionSound DEF Alike, Needed
<1>4. CASE n.driver = "linux"
  <2> DEFINE k == [n EXCEPT !.client = "kept"]
             m == WithSession(k, ok)
  <2>1. Sound(k) /\ Alike(k, n) /\ k.client = "kept" /\ k.used = n.used
    BY KeptSound
  <2>2. r = [m EXCEPT !.lost = @ + refused, !.sockets = @ + refused]
    BY <1>4 DEF ConnectedBy, LinuxConnected, Wireless
  <2>3. n.used # "skipped"
    BY <1>4 DEF Sound, ClientUsed, Wireless
  <2> HIDE DEF k
  <2>4. Sound(m) /\ Alike(m, k)
    BY <2>1, <2>3, SessionSound
  <2> HIDE DEF m
  <2>5. m \in Records /\ m.lost + refused \in Nat /\ m.sockets + refused \in Nat
    BY <2>4 DEF Sound, Records
  <2>6. r = [m EXCEPT !.lost = m.lost + refused, !.sockets = m.sockets + refused]
    BY <2>2, <2>5 DEF Records
  <2> HIDE DEF r
  <2>7. r \in Records
    BY <2>5, <2>6 DEF Records
  <2>8. Alike(r, m) /\ r.session = m.session /\ r.client = m.client /\ r.used = m.used
        /\ r.handlers = m.handlers /\ r.lost = m.lost + refused /\ r.sockets = m.sockets + refused
    BY <2>5, <2>6 DEF Records, Alike
  <2>9. r.driver = "linux"
    BY <1>4, <2>1, <2>4, <2>8 DEF Alike
  <2>10. Sound(r)
    BY <2>4, <2>5, <2>7, <2>8, <2>9 DEF Sound, Records, SocketsCounted, ClientUsed, Wireless, Alike
  <2> QED
    BY <2>1, <2>4, <2>8, <2>9, <2>10 DEF Alike, Needed, r
<1> QED
  BY <1>0, <1>1, <1>2, <1>3, <1>4 DEF Wireless

\* setup(): before it, a device that enters config mode has no session.
LEMMA SetUpSound ==
  ASSUME NEW n, Sound(n), NEW ok \in BOOLEAN, n.config => n.session = "none"
  PROVE  /\ Sound(SetUpBy(n, ok)) /\ Quiet(SetUpBy(n, ok))
         /\ Needed(n) => Needed(SetUpBy(n, ok))
         /\ SetUpBy(n, ok).driver = n.driver /\ SetUpBy(n, ok).config = n.config
<1> DEFINE r == SetUpBy(n, ok)
<1>0. n \in Records /\ n.driver \in {"esp32", "esp8266", "eth", "shield", "linux"}
  BY DEF Sound, Records, Drivers
<1>1. CASE Wireless(n)
  <2> DEFINE k == IF n.setups = 0 THEN [n EXCEPT !.handlers = 2]
                  ELSE IF n.client = "null" THEN n ELSE [NoSession(n) EXCEPT !.client = "null"]
             s == IF n.config THEN "off" ELSE "trying"
  <2>1. r = [[k EXCEPT !.station = s] EXCEPT !.setups = @ + 1]
    <3>1. r = [WifiSetUp(n) EXCEPT !.setups = @ + 1]
      BY <1>1 DEF SetUpBy, Wireless
    <3>2. WifiSetUp(n) = [k EXCEPT !.station = s]
      BY DEF WifiSetUp
    <3> QED
      BY <3>1, <3>2
  <2>2. /\ k \in Records /\ k.driver = n.driver /\ k.config = n.config /\ k.setups = n.setups
        /\ k.sockets = k.lost + (IF k.session = "none" THEN 0 ELSE 1)
        /\ k.lost = n.lost /\ k.handlers = 2
        /\ k.session # "none" => k.client = "kept"
        /\ k.used = n.used /\ (n.session = "none" => k.session = "none")
    <3>1. CASE n.setups = 0
      BY <1>0, <3>1 DEF Records, Sound, SocketsCounted, ClientUsed
    <3>2. CASE n.setups # 0 /\ n.client = "null"
      BY <1>0, <1>1, <3>2 DEF Records, Sound, SocketsCounted, ClientUsed
    <3>3. CASE n.setups # 0 /\ n.client # "null"
      <4> DEFINE m == NoSession(n)
      <4>1. /\ m \in Records /\ Alike(m, n) /\ m.session = "none" /\ m.lost = n.lost
            /\ m.sockets = n.lost /\ m.used = n.used /\ SocketsCounted(m)
        BY NoSessionSound DEF Sound
      <4>2. k = [m EXCEPT !.client = "null"]
        BY <3>3
      <4> HIDE DEF m, k
      <4> QED
        BY <1>0, <1>1, <3>3, <4>1, <4>2 DEF Records, Alike, SocketsCounted, Wireless
    <3> QED
      BY <3>1, <3>2, <3>3
  <2> HIDE DEF k
  <2>3. k.setups + 1 \in Nat /\ k.setups + 1 # 0
    BY <2>2 DEF Records
  <2>4. r = [k EXCEPT !.station = s, !.setups = k.setups + 1]
    BY <2>1, <2>2 DEF Records
  <2> HIDE DEF r
  <2>5. r \in Records
    BY <2>2, <2>3, <2>4 DEF Records
  <2>6. /\ r.driver = k.driver /\ r.config = k.config /\ r.setups = k.setups + 1
        /\ r.station = s /\ r.client = k.client /\ r.session = k.session /\ r.used = k.used
        /\ r.sockets = k.sockets /\ r.lost = k.lost /\ r.handlers = k.handlers
    BY <2>2, <2>4 DEF Records
  <2>7. Sound(r)
    BY <1>1, <2>2, <2>3, <2>5, <2>6 DEF Sound, SocketsCounted, ClientUsed, Wireless
  <2>8. Quiet(r)
    BY <2>2, <2>6 DEF Quiet
  <2> QED
    BY <1>1, <2>2, <2>6, <2>7, <2>8 DEF Wireless, Needed, r
<1>2. CASE ~Wireless(n)
  <2>0. n.station = "off" /\ n.handlers + 2 \in Nat /\ n.setups + 1 \in Nat /\ n.ready \in BOOLEAN
    BY <1>0, <1>2 DEF Sound, ClientUsed, Records
  <2>1. PICK h \in Nat, y \in BOOLEAN : r = [n EXCEPT !.handlers = h, !.ready = y, !.setups = n.setups + 1]
    <3>1. CASE n.driver = "eth"
      <4>1. r = [n EXCEPT !.handlers = n.handlers + 2, !.ready = n.ready, !.setups = n.setups + 1]
        BY <1>0, <1>2, <2>0, <3>1 DEF SetUpBy, EthSetUp, Records
      <4> QED
        BY <2>0, <4>1
    <3>2. CASE n.driver = "shield"
      <4>1. r = [n EXCEPT !.handlers = n.handlers, !.ready = ok, !.setups = n.setups + 1]
        BY <1>0, <1>2, <2>0, <3>2 DEF SetUpBy, ShieldSetUp, Records
      <4>2. n.handlers \in Nat
        BY <1>0 DEF Records
      <4> QED
        BY <2>0, <4>1, <4>2
    <3>3. CASE n.driver = "linux"
      <4>1. r = [n EXCEPT !.handlers = n.handlers, !.ready = (n.ready \/ ok), !.setups = n.setups + 1]
        BY <1>0, <1>2, <2>0, <3>3 DEF SetUpBy, LinuxSetUp, Records
      <4>2. n.handlers \in Nat /\ (n.ready \/ ok) \in BOOLEAN
        BY <1>0 DEF Records
      <4> QED
        BY <2>0, <4>1, <4>2
    <3> QED
      BY <1>0, <1>2, <3>1, <3>2, <3>3 DEF Wireless
  <2> HIDE DEF r
  <2>2. r \in Records
    BY <1>0, <2>0, <2>1 DEF Records
  <2>3. /\ r.driver = n.driver /\ r.config = n.config /\ r.station = n.station
        /\ r.client = n.client /\ r.session = n.session /\ r.used = n.used
        /\ r.sockets = n.sockets /\ r.lost = n.lost
    BY <1>0, <2>1 DEF Records
  <2>4. Sound(r)
    BY <1>2, <2>2, <2>3 DEF Sound, SocketsCounted, ClientUsed, Wireless
  <2>5. Quiet(r)
    BY <2>0, <2>3 DEF Quiet
  <2> QED
    BY <2>3, <2>4, <2>5 DEF Needed, r
<1> QED
  BY <1>1, <1>2

-----------------------------------------------------------------------------
\* In a pass, between connect() and the end, an Arduino client is there.
InPass == loopAt \in {"read", "handle", "protocol", "elements"}
DriverInv == Sound(net) /\ Quiet(net) /\ (InPass => Needed(net))

\* Writing changes neither the session nor the mode.
LEMMA WrittenQuiet ==
  ASSUME NEW n, Sound(n), Quiet(n), Needed(n)
  PROVE  Sound(Written(n)) /\ Quiet(Written(n)) /\ Needed(Written(n))
BY WrittenSound DEF Alike, Quiet

\* Neither does disconnecting bring either back.
LEMMA DroppedQuiet ==
  ASSUME NEW n, Sound(n), Quiet(n)
  PROVE  Sound(Dropped(n)) /\ Quiet(Dropped(n)) /\ (Needed(n) => Needed(Dropped(n)))
BY DroppedSound DEF Alike, Quiet

\* Entering config mode: the session goes before the radio is set up.
LEMMA ConfigModeSound ==
  ASSUME NEW n, Sound(n), NEW ok \in BOOLEAN
  PROVE  /\ Sound(ConfigModeEntered(n, ok)) /\ Quiet(ConfigModeEntered(n, ok))
         /\ Needed(n) => Needed(ConfigModeEntered(n, ok))
<1> DEFINE d == Dropped(n)
           m == [d EXCEPT !.config = TRUE]
<1>1. Sound(d) /\ d.session = "none" /\ (Needed(n) => Needed(d))
  BY DroppedSound
<1>2. ConfigModeEntered(n, ok) = SetUpBy(m, ok)
  BY DEF ConfigModeEntered
<1> HIDE DEF d
<1>3. Sound(m) /\ m.session = "none" /\ (Needed(d) => Needed(m))
  BY <1>1 DEF Sound, Records, SocketsCounted, ClientUsed, Wireless, Needed
<1> HIDE DEF m
<1> QED
  BY <1>1, <1>2, <1>3, SetUpSound

\* Whether a setup goes well is yes or no.
LEMMA MayLemma == \A n : MaySucceed(n) \subseteq BOOLEAN
BY DEF MaySucceed

\* No step of the main loop breaks what is true of the driver.
LEMMA LoopSteps ==
  ASSUME DriverInv,
         \/ NormalMode \/ SetUpAgain \/ NetworkNotReady \/ StillConnected \/ ConnectsToServer
         \/ SrpcReads \/ SrpcHandles \/ SrpcGivesUp \/ RegistersOrPings \/ ElementWrites
         \/ LocalConfigMode \/ UpdateStarts \/ LoopRestarts
  PROVE  DriverInv'
<1> USE DEF DriverInv, InPass
<1>1. CASE NormalMode \/ SetUpAgain
  <2>1. PICK ok \in MaySucceed(net) : net' = SetUpBy(net, ok)
    BY <1>1 DEF NormalMode, SetUpAgain
  <2>2. ok \in BOOLEAN /\ loopAt' = "top"
    BY <1>1, MayLemma DEF NormalMode, SetUpAgain, Passing
  <2>3. net.config => net.session = "none"
    BY DEF Quiet
  <2> QED
    BY <2>1, <2>2, <2>3, SetUpSound
<1>2. CASE NetworkNotReady
  BY <1>2 DEF NetworkNotReady
<1>3. CASE StillConnected
  <2>1. Needed(net)
    BY <1>3 DEF StillConnected, IsOpen, WifiOpen, LinuxOpen, Needed, Sound, ClientUsed
  <2> QED
    BY <1>3, <2>1 DEF StillConnected
<1>4. CASE ConnectsToServer
  <2>1. PICK ok \in BOOLEAN, refused \in 0 .. MostTried - net.lost :
          /\ net' = LET asked == ConnectedBy(net, ok, IF net.driver = "linux" THEN refused ELSE 0)
                    IN  IF ok THEN asked ELSE Dropped(asked)
          /\ loopAt' = IF ok THEN "read" ELSE "top"
    BY <1>4 DEF ConnectsToServer
  <2> DEFINE many == IF net.driver = "linux" THEN refused ELSE 0
             asked == ConnectedBy(net, ok, many)
  <2>2. many \in Nat /\ ~net.config
    BY <1>4 DEF ConnectsToServer, Passing
  <2>3. net' = IF ok THEN asked ELSE Dropped(asked)
    BY <2>1
  <2> HIDE DEF many
  <2>4. Sound(asked) /\ Alike(asked, net) /\ Needed(asked)
    BY <2>2, ConnectedSound
  <2> HIDE DEF asked
  <2>5. Quiet(asked)
    BY <2>2, <2>4 DEF Quiet, Alike
  <2> QED
    BY <2>1, <2>3, <2>4, <2>5, DroppedQuiet
<1>5. CASE SrpcReads
  <2>1. Sound(ReadFrom(net)) /\ Quiet(ReadFrom(net)) /\ Needed(ReadFrom(net))
    BY <1>5, ReadSound DEF SrpcReads, Quiet, Alike
  <2> QED
    BY <1>5, <2>1 DEF SrpcReads
<1>6. CASE SrpcHandles
  <2>0. Needed(net) /\ loopAt' = "protocol"
    BY <1>6 DEF SrpcHandles
  <2>1. CASE net' = net \/ net' = Written(net)
    BY <2>0, <2>1, WrittenQuiet
  <2>2. ASSUME NEW ok \in MaySucceed(net), net' = Written(ConfigModeEntered(net, ok)) PROVE DriverInv'
    <3> DEFINE m == ConfigModeEntered(net, ok)
    <3>1. Sound(m) /\ Quiet(m) /\ Needed(m)
      BY <2>0, MayLemma, ConfigModeSound
    <3> HIDE DEF m
    <3>2. net' = Written(m)
      BY <2>2 DEF m
    <3> QED
      BY <3>1, <3>2, WrittenQuiet
  <2> QED
    BY <1>6, <2>1, <2>2 DEF SrpcHandles
<1>7. CASE SrpcGivesUp \/ UpdateStarts
  BY <1>7, DroppedQuiet DEF SrpcGivesUp, UpdateStarts, Passing
<1>8. CASE RegistersOrPings \/ ElementWrites
  <2>1. Needed(net) /\ (net' = net \/ net' = Written(net) \/ net' = Dropped(net))
    BY <1>8 DEF RegistersOrPings, ElementWrites
  <2> QED
    BY <2>1, WrittenQuiet, DroppedQuiet
<1>9. CASE LocalConfigMode
  <2>1. PICK ok \in MaySucceed(net) : net' = ConfigModeEntered(net, ok)
    BY <1>9 DEF LocalConfigMode
  <2>2. loopAt' = "top" /\ ok \in BOOLEAN
    BY <1>9, MayLemma DEF LocalConfigMode
  <2> QED
    BY <2>1, <2>2, ConfigModeSound
<1>10. CASE LoopRestarts
  <2>1. net.driver \in Drivers
    BY DEF Sound, Records
  <2> QED
    BY <1>10, <2>1, FreshSound DEF LoopRestarts
<1> QED
  BY <1>1, <1>2, <1>3, <1>4, <1>5, <1>6, <1>7, <1>8, <1>9, <1>10

\* Nor does the network.
LEMMA NetworkSteps ==
  ASSUME DriverInv,
         CableMoves \/ StationJoins \/ StationDrops \/ EthGotIp \/ EthDisconnected \/ PeerEnds
  PROVE  DriverInv'
<1> USE DEF DriverInv, InPass
<1>0. net \in Records
  BY DEF Sound
<1>1. CASE CableMoves
  BY <1>1 DEF CableMoves
<1>2. CASE StationJoins \/ StationDrops
  <2>1. PICK s \in {"trying", "on"} : net' = [net EXCEPT !.station = s] /\ UNCHANGED loopAt
    BY <1>2 DEF StationJoins, StationDrops
  <2>2. Wireless(net) /\ ~net.config
    BY <1>2 DEF StationJoins, StationDrops, Quiet
  <2> QED
    BY <1>0, <2>1, <2>2 DEF Sound, Records, SocketsCounted, ClientUsed, Wireless, Quiet, Needed
<1>3. CASE EthGotIp \/ EthDisconnected
  <2>1. PICK y \in BOOLEAN : net' = [net EXCEPT !.ready = y] /\ UNCHANGED loopAt
    BY <1>3 DEF EthGotIp, EthDisconnected
  <2> QED
    BY <1>0, <2>1 DEF Sound, Records, SocketsCounted, ClientUsed, Wireless, Quiet, Needed
<1>4. CASE PeerEnds
  BY <1>0, <1>4 DEF PeerEnds, Sound, Records, SocketsCounted, ClientUsed, Wireless, Quiet, Needed
<1> QED
  BY <1>1, <1>2, <1>3, <1>4

\* What is true of the record is what the drivers agree on.
LEMMA DriverAgreed == DriverInv => DriversAgree
BY DEF DriverInv, Sound, Records, SocketsCounted, ClientUsed, Quiet, DriversAgree

\* Whatever the driver and however setups, failing connections, refused registrations, config
\* mode and restarts follow each other: no read or write works on a deleted client, and on none
\* only on Linux; the open sockets are the session's and those Linux has lost; config mode has
\* neither session nor station (read, write, connect, disconnect and setup of the drivers).
THEOREM DriversKeepTheirClient == DriverSpec => []DriversAgree
<1>1. DriverInit => DriverInv
  BY FreshSound DEF DriverInit, DriverInv, InPass
<1>2. DriverInv /\ [DriverNext]_driverVars => DriverInv'
  <2>1. DriverInv /\ UNCHANGED driverVars => DriverInv'
    BY DEF DriverInv, InPass, driverVars
  <2> QED
    BY <2>1, LoopSteps, NetworkSteps DEF DriverNext
<1>3. DriverSpec => []DriverInv
  BY <1>1, <1>2, PTL DEF DriverSpec
<1> QED
  BY <1>3, DriverAgreed, PTL

-----------------------------------------------------------------------------
(***************************************************************************)
(* How often a driver was set up and how many sockets it has lost.         *)
(***************************************************************************)
SameCounts(m, n) == m.setups = n.setups /\ m.lost = n.lost

\* disconnect(), read() and write() change neither.
LEMMA UsingCounts ==
  ASSUME NEW n, Sound(n)
  PROVE  SameCounts(Dropped(n), n) /\ SameCounts(Written(n), n) /\ SameCounts(ReadFrom(n), n)
<1>0. n \in Records
  BY DEF Sound
<1>1. ASSUME NEW m \in Records
      PROVE  SameCounts(NoSession(m), m) /\ SameCounts(LinuxClosed(m), m) /\ SameCounts(Using(m), m)
  BY <1>1 DEF SameCounts, NoSession, LinuxClosed, Using, Records
<1>2. SameCounts(Dropped(n), n)
  BY <1>0, <1>1 DEF Dropped, Stopped, SameCounts
<1>3. SameCounts(Written(n), n)
  BY <1>0, <1>1 DEF Written, WifiUsing, SameCounts, Records
<1>4. SameCounts(ReadFrom(n), n)
  <2>1. CASE n.driver = "linux"
    <3> DEFINE u == Using(n)
    <3>1. u \in Records
      BY <1>0 DEF Using, Records
    <3>2. SameCounts(u, n) /\ SameCounts(LinuxClosed(u), u)
      BY <1>0, <1>1, <3>1
    <3>3. ReadFrom(n) = u \/ ReadFrom(n) = LinuxClosed(u)
      BY <2>1 DEF ReadFrom, LinuxRead
    <3> HIDE DEF u
    <3> QED
      BY <3>2, <3>3 DEF SameCounts
  <2>2. CASE n.driver # "linux"
    BY <1>3, <2>2 DEF ReadFrom
  <2> QED
    BY <2>1, <2>2
<1> QED
  BY <1>2, <1>3, <1>4

\* setup() counts itself, also where config mode is entered.
LEMMA SetUpCounts ==
  ASSUME NEW n, Sound(n), NEW ok \in BOOLEAN
  PROVE  /\ SetUpBy(n, ok).setups = n.setups + 1 /\ SetUpBy(n, ok).lost = n.lost
         /\ ConfigModeEntered(n, ok).setups = n.setups + 1 /\ ConfigModeEntered(n, ok).lost = n.lost
<1>1. ASSUME NEW m \in Records
      PROVE  SetUpBy(m, ok).setups = m.setups + 1 /\ SetUpBy(m, ok).lost = m.lost
  <2>0. m.driver \in Drivers
    BY <1>1 DEF Records
  <2>1. CASE Wireless(m)
    <3>1. SetUpBy(m, ok) = [WifiSetUp(m) EXCEPT !.setups = @ + 1]
      BY <2>1 DEF SetUpBy, Wireless
    <3> DEFINE k == IF m.setups = 0 THEN [m EXCEPT !.handlers = 2]
                    ELSE IF m.client = "null" THEN m ELSE [NoSession(m) EXCEPT !.client = "null"]
               s == IF m.config THEN "off" ELSE "trying"
    <3>2. WifiSetUp(m) = [k EXCEPT !.station = s]
      BY DEF WifiSetUp
    <3>3. DOMAIN k = DOMAIN m /\ k.setups = m.setups /\ k.lost = m.lost
      BY <1>1 DEF NoSession, Records
    <3>4. "setups" \in DOMAIN m /\ "lost" \in DOMAIN m
      BY <1>1 DEF Records
    <3> HIDE DEF k, s
    <3> QED
      BY <3>1, <3>2, <3>3, <3>4
  <2>2. CASE ~Wireless(m)
    BY <1>1, <2>0, <2>2
    DEF Drivers, Wireless, SetUpBy, EthSetUp, ShieldSetUp, LinuxSetUp, Records
  <2> QED
    BY <2>1, <2>2
<1>2. n \in Records
  BY DEF Sound
<1> DEFINE d == Dropped(n)
           m == [d EXCEPT !.config = TRUE]
<1>3. Sound(d) /\ SameCounts(d, n)
  BY DroppedSound, UsingCounts
<1>4. ConfigModeEntered(n, ok) = SetUpBy(m, ok)
  BY DEF ConfigModeEntered
<1> HIDE DEF d
<1>5. m \in Records /\ m.setups = n.setups /\ m.lost = n.lost
  BY <1>3 DEF Sound, Records, SameCounts
<1> HIDE DEF m
<1> QED
  BY <1>1, <1>2, <1>4, <1>5

\* connect() of a Linux device loses a socket for each address that refuses.
LEMMA ConnectCounts ==
  ASSUME NEW n, Sound(n), NEW ok \in BOOLEAN, NEW refused \in Nat,
         n.driver # "linux" => refused = 0
  PROVE  ConnectedBy(n, ok, refused).setups = n.setups /\ ConnectedBy(n, ok, refused).lost = n.lost + refused
<1>0. n \in Records /\ n.driver \in Drivers /\ n.lost + 0 = n.lost
  BY DEF Sound, Records
<1>1. ASSUME NEW m \in Records PROVE SameCounts(NoSession(m), m)
  BY <1>1 DEF SameCounts, NoSession, Records
<1>2. ASSUME NEW m \in Records
      PROVE  SameCounts(WithSession(m, ok), m) /\ DOMAIN WithSession(m, ok) = DOMAIN m
  BY <1>2 DEF SameCounts, WithSession, NoSession, Records
<1>3. ASSUME NEW m \in Records PROVE SameCounts(Using(m), m) /\ Using(m) \in Records
  BY <1>3 DEF SameCounts, Using, Records
<1>4. CASE Wireless(n)
  <2> DEFINE k == IF n.client = "null" THEN [n EXCEPT !.client = "kept"] ELSE n
  <2>1. k \in Records /\ SameCounts(k, n)
    BY <1>0 DEF Records, SameCounts
  <2>2. ConnectedBy(n, ok, refused) = WithSession(Using(k), ok)
    <3>1. ConnectedBy(n, ok, refused) = WifiConnected(n, ok)
      BY <1>4 DEF ConnectedBy, Wireless
    <3> QED
      BY <3>1 DEF WifiConnected
  <2>3. refused = 0
    BY <1>4 DEF Wireless
  <2> HIDE DEF k
  <2> QED
    BY <1>0, <1>2, <1>3, <2>1, <2>2, <2>3 DEF SameCounts
<1>5. CASE n.driver = "eth"
  <2> DEFINE k == [NoSession(n) EXCEPT !.client = "kept"]
  <2>1. Sound(NoSession(n)) /\ SameCounts(NoSession(n), n)
    BY <1>0, <1>1, NoSessionSound
  <2>2. k \in Records /\ SameCounts(k, n)
    BY <2>1 DEF Sound, Records, SameCounts
  <2>3. ConnectedBy(n, ok, refused) = WithSession(Using(k), ok)
    BY <1>5 DEF ConnectedBy, EthConnected, Wireless
  <2> HIDE DEF k
  <2> QED
    BY <1>0, <1>2, <1>3, <1>5, <2>2, <2>3 DEF SameCounts
<1>6. CASE n.driver = "shield"
  <2>1. ConnectedBy(n, ok, refused) = WithSession(n, ok)
    BY <1>6 DEF ConnectedBy, ShieldConnected, Wireless
  <2> QED
    BY <1>0, <1>2, <1>6, <2>1 DEF SameCounts
<1>7. CASE n.driver = "linux"
  <2> DEFINE k == [n EXCEPT !.client = "kept"]
             w == WithSession(k, ok)
  <2>1. k \in Records /\ SameCounts(k, n)
    BY <1>0 DEF Records, SameCounts
  <2>2. ConnectedBy(n, ok, refused) = [w EXCEPT !.lost = @ + refused, !.sockets = @ + refused]
    BY <1>7 DEF ConnectedBy, LinuxConnected, Wireless
  <2> HIDE DEF k
  <2>3. SameCounts(w, k) /\ DOMAIN w = DOMAIN k
    BY <1>2, <2>1
  <2>4. "lost" \in DOMAIN k /\ "setups" \in DOMAIN k
    BY <2>1 DEF Records
  <2> HIDE DEF w
  <2>5. ConnectedBy(n, ok, refused).setups = w.setups /\ ConnectedBy(n, ok, refused).lost = w.lost + refused
    BY <2>2, <2>3, <2>4
  <2> QED
    BY <2>1, <2>3, <2>5 DEF SameCounts
<1> QED
  BY <1>0, <1>4, <1>5, <1>6, <1>7 DEF Drivers, Wireless

\* A driver that begin() has not set up was never set up, and what the bounds allow is kept.
CountedInv ==
  /\ DriverInv
  /\ loopAt \in {"off", "top", "read", "handle", "protocol", "elements"}
  /\ net.setups <= MostSetups + 1 /\ net.lost <= MostTried
  /\ loopAt = "off" => net.setups = 0

\* The loop starts with nothing counted.
LEMMA CountedStarts == DriverInit => CountedInv
<1> SUFFICES ASSUME DriverInit PROVE CountedInv
  OBVIOUS
<1>1. PICK driver \in Drivers : net = Fresh(driver)
  BY DEF DriverInit
<1>2. net.setups = 0 /\ net.lost = 0 /\ loopAt = "off"
  BY <1>1 DEF DriverInit, Fresh
<1>3. DriverInv
  BY <1>1, <1>2, FreshSound DEF DriverInv, InPass
<1> QED
  BY <1>2, <1>3, NetDriverAssumption DEF CountedInv

\* Each step keeps to the bounds.
LEMMA CountedSteps == CountedInv /\ [DriverNext]_driverVars => CountedInv'
<1> SUFFICES ASSUME CountedInv, [DriverNext]_driverVars PROVE CountedInv'
  OBVIOUS
<1> DEFINE Places == {"off", "top", "read", "handle", "protocol", "elements"}
           Sums == net'.setups <= MostSetups + 1 /\ net'.lost <= MostTried
<1>0. /\ Sound(net) /\ net.setups \in Nat /\ net.lost \in Nat /\ MostSetups \in Nat /\ MostTried \in Nat
      /\ net.setups <= MostSetups + 1 /\ net.lost <= MostTried /\ loopAt \in Places
  BY NetDriverAssumption DEF CountedInv, DriverInv, Sound, Records
<1>1. DriverInv'
  <2>1. DriverInv /\ UNCHANGED driverVars => DriverInv'
    BY DEF DriverInv, InPass, driverVars
  <2> QED
    BY <2>1, LoopSteps, NetworkSteps DEF CountedInv, DriverNext
<1>2. ASSUME SameCounts(net', net) PROVE Sums
  BY <1>0, <1>2 DEF SameCounts
<1>3. ASSUME NEW ok \in BOOLEAN, net.setups <= MostSetups, net' = SetUpBy(net, ok)
      PROVE  Sums
  BY <1>0, <1>3, SetUpCounts
<1>4. ASSUME NEW ok \in BOOLEAN, net.setups <= MostSetups,
             net' = ConfigModeEntered(net, ok)
      PROVE  Sums
  BY <1>0, <1>4, SetUpCounts
<1>5. CASE NormalMode
  <2>1. PICK ok \in MaySucceed(net) : net' = SetUpBy(net, ok)
    BY <1>5 DEF NormalMode
  <2>2. net.setups = 0 /\ loopAt' = "top" /\ ok \in BOOLEAN
    BY <1>5, MayLemma DEF NormalMode, CountedInv
  <2>3. net.setups <= MostSetups
    BY <1>0, <2>2
  <2>4. Sums
    BY <1>3, <2>1, <2>2, <2>3
  <2> QED
    BY <1>1, <2>2, <2>4 DEF CountedInv
<1>6. CASE SetUpAgain
  <2>1. PICK ok \in MaySucceed(net) : net' = SetUpBy(net, ok)
    BY <1>6 DEF SetUpAgain
  <2>2. net.setups < MostSetups /\ loopAt' = "top" /\ ok \in BOOLEAN
    BY <1>6, MayLemma DEF SetUpAgain, Passing
  <2>3. net.setups <= MostSetups
    BY <1>0, <2>2
  <2>4. Sums
    BY <1>3, <2>1, <2>2, <2>3
  <2> QED
    BY <1>1, <2>2, <2>4 DEF CountedInv
<1>7. CASE NetworkNotReady \/ StillConnected \/ CableMoves \/ UNCHANGED driverVars
  <2>1. net' = net
    BY <1>7 DEF NetworkNotReady, StillConnected, CableMoves, driverVars
  <2>2. loopAt' = loopAt \/ loopAt' = "read"
    BY <1>7 DEF NetworkNotReady, StillConnected, CableMoves, driverVars
  <2> QED
    BY <1>0, <1>1, <2>1, <2>2 DEF CountedInv
<1>8. CASE ConnectsToServer
  <2>1. PICK ok \in BOOLEAN, refused \in 0 .. MostTried - net.lost :
          /\ net' = LET asked == ConnectedBy(net, ok, IF net.driver = "linux" THEN refused ELSE 0)
                    IN  IF ok THEN asked ELSE Dropped(asked)
          /\ loopAt' = IF ok THEN "read" ELSE "top"
    BY <1>8 DEF ConnectsToServer
  <2> DEFINE many == IF net.driver = "linux" THEN refused ELSE 0
             asked == ConnectedBy(net, ok, many)
  <2>2. many \in Nat /\ many <= MostTried - net.lost /\ ~net.config /\ (net.driver # "linux" => many = 0)
    BY <1>0, <1>8 DEF ConnectsToServer, Passing
  <2>3. net' = IF ok THEN asked ELSE Dropped(asked)
    BY <2>1
  <2> HIDE DEF many
  <2>4. Sound(asked) /\ asked.setups = net.setups /\ asked.lost = net.lost + many
    BY <1>0, <2>2, ConnectedSound, ConnectCounts
  <2> HIDE DEF asked
  <2>5. net'.setups = net.setups /\ net'.lost = net.lost + many
    BY <2>3, <2>4, UsingCounts DEF SameCounts
  <2>6. Sums
    BY <1>0, <2>2, <2>5
  <2>7. loopAt' \in {"read", "top"}
    BY <2>1
  <2> QED
    BY <1>1, <2>6, <2>7 DEF CountedInv
<1>9. CASE SrpcReads \/ SrpcGivesUp \/ RegistersOrPings \/ ElementWrites \/ UpdateStarts
  <2>1. net' = net \/ net' = ReadFrom(net) \/ net' = Written(net) \/ net' = Dropped(net)
    BY <1>9 DEF SrpcReads, SrpcGivesUp, RegistersOrPings, ElementWrites, UpdateStarts
  <2>2. SameCounts(net', net)
    BY <1>0, <2>1, UsingCounts DEF SameCounts
  <2>3. loopAt' \in Places \ {"off"}
    BY <1>9 DEF SrpcReads, SrpcGivesUp, RegistersOrPings, ElementWrites, UpdateStarts, Passing
  <2> QED
    BY <1>1, <1>2, <2>2, <2>3 DEF CountedInv
<1>10. CASE SrpcHandles
  <2>0. loopAt' = "protocol"
    BY <1>10 DEF SrpcHandles
  <2>1. CASE net' = net \/ net' = Written(net)
    <3>1. SameCounts(net', net)
      BY <1>0, <2>1, UsingCounts DEF SameCounts
    <3> QED
      BY <1>1, <1>2, <2>0, <3>1 DEF CountedInv
  <2>2. ASSUME net.setups < MostSetups, NEW ok \in MaySucceed(net), net' = Written(ConfigModeEntered(net, ok))
        PROVE  CountedInv'
    <3> DEFINE m == ConfigModeEntered(net, ok)
    <3>1. ok \in BOOLEAN /\ net' = Written(m)
      BY <2>2, MayLemma
    <3>2. Sound(m) /\ m.setups = net.setups + 1 /\ m.lost = net.lost
      BY <1>0, <3>1, SetUpCounts, ConfigModeSound
    <3> HIDE DEF m
    <3>3. net'.setups = net.setups + 1 /\ net'.lost = net.lost
      BY <3>1, <3>2, UsingCounts DEF SameCounts
    <3>4. Sums
      BY <1>0, <2>2, <3>3
    <3> QED
      BY <1>1, <2>0, <3>4 DEF CountedInv
  <2> QED
    BY <1>10, <2>1, <2>2 DEF SrpcHandles
<1>11. CASE LocalConfigMode
  <2>1. PICK ok \in MaySucceed(net) : net' = ConfigModeEntered(net, ok)
    BY <1>11 DEF LocalConfigMode
  <2>2. loopAt' = "top" /\ ok \in BOOLEAN /\ net.setups < MostSetups
    BY <1>11, MayLemma DEF LocalConfigMode
  <2>3. Sums
    BY <1>0, <1>4, <2>1, <2>2
  <2> QED
    BY <1>1, <2>2, <2>3 DEF CountedInv
<1>12. CASE LoopRestarts
  <2>1. net'.setups = 0 /\ net'.lost = 0 /\ loopAt' = "off"
    BY <1>12 DEF LoopRestarts, Fresh
  <2> QED
    BY <1>0, <1>1, <2>1 DEF CountedInv
<1>13. CASE StationJoins \/ StationDrops \/ EthGotIp \/ EthDisconnected \/ PeerEnds
  <2>0. {"setups", "lost", "station", "ready", "session"} \subseteq DOMAIN net
    BY <1>0 DEF Sound, Records
  <2>1. net'.setups = net.setups /\ net'.lost = net.lost /\ loopAt' = loopAt
    <3>1. CASE StationJoins
      BY <2>0, <3>1 DEF StationJoins
    <3>2. CASE StationDrops
      BY <2>0, <3>2 DEF StationDrops
    <3>3. CASE EthGotIp
      BY <2>0, <3>3 DEF EthGotIp
    <3>4. CASE EthDisconnected
      BY <2>0, <3>4 DEF EthDisconnected
    <3>5. CASE PeerEnds
      BY <2>0, <3>5 DEF PeerEnds
    <3> QED
      BY <1>13, <3>1, <3>2, <3>3, <3>4, <3>5
  <2> QED
    BY <1>1, <2>1 DEF CountedInv
<1> QED
  BY <1>5, <1>6, <1>7, <1>8, <1>9, <1>10, <1>11, <1>12, <1>13 DEF DriverNext

\* The types of a driver follow from its record, its counts and the place of the loop.
LEMMA CountedImplies == CountedInv => DriverTypeOK
BY NetDriverAssumption DEF CountedInv, DriverInv, Sound, Records, DriverTypeOK

-----------------------------------------------------------------------------
(***************************************************************************)
(* The software update.                                                    *)
(***************************************************************************)
\* The partition that is written to is not the one that runs, and the one that boots next is
\* the one that runs until an update is finished.
FlashInv ==
  /\ runs \in Partitions /\ boots \in Partitions
  /\ partition \in [Partitions -> Seq(Blocks)]
  /\ updating /\ ota # "finished" => boots = runs
\* What is read while an image comes, and what was verified before it is made bootable.
ImageInv ==
  /\ ota = "download" => \E image \in Offered, n \in Nat \ {0} : coming = <<image, n>>
  /\ ota = "set_boot" => Verified(partition[Other])
OtaInv == FlashInv /\ ImageInv /\ BootsVerified

\* There is another partition.
LEMMA OtherLemma == ASSUME runs \in Partitions PROVE Other \in Partitions /\ Other # runs
BY OtaAssumption DEF Other

\* An image whose last blocks are the signature of what is before it, and the footer, is that
\* application, signed.
LEMMA VerifiedBoots == ASSUME NEW image \in Seq(Blocks), Verified(image) PROVE Bootable(image)
<1> DEFINE n == Len(image)
           app == SubSeq(image, 1, n - 2)
           ends == <<Signature(app), Footer>>
           All == Blocks \cup {Signature(app), Footer}
<1>1. /\ n \in Nat /\ n > 2 /\ image[n] = Footer /\ image[n - 1] = Signature(app)
      /\ n - 2 \in Int /\ 1 \in Int
  BY LenProperties DEF Verified
<1> HIDE DEF n
<1>2. /\ app \in Seq(Blocks) /\ Len(app) = n - 2
      /\ \A i \in 1 .. n - 2 : app[i] = image[i]
  <2>1. \A i \in 1 .. n - 2 : image[i] \in Blocks
    BY <1>1, ElementOfSeq DEF n
  <2>2. /\ app \in Seq(Blocks) /\ Len(app) = IF 1 <= n - 2 THEN (n - 2) - 1 + 1 ELSE 0
        /\ \A i \in 1 .. (n - 2) - 1 + 1 : app[i] = image[1 + i - 1]
    BY <1>1, <2>1, SubSeqProperties
  <2> HIDE DEF app
  <2> QED
    BY <1>1, <2>2
<1>3. /\ ends \in Seq(All) /\ Len(ends) = 2 /\ ends[1] = Signature(app) /\ ends[2] = Footer
  OBVIOUS
<1>4. app \in Seq(All) /\ image \in Seq(All)
  BY <1>2, SeqMonotonic
<1> HIDE DEF app, ends, All
<1>5. /\ app \o ends \in Seq(All) /\ Len(app \o ends) = n
      /\ \A i \in 1 .. n : (app \o ends)[i] = IF i <= n - 2 THEN app[i] ELSE ends[i - (n - 2)]
  <2>1. /\ app \o ends \in Seq(All) /\ Len(app \o ends) = Len(app) + Len(ends)
        /\ \A i \in 1 .. Len(app) + Len(ends) :
             (app \o ends)[i] = IF i <= Len(app) THEN app[i] ELSE ends[i - Len(app)]
    BY <1>3, <1>4, ConcatProperties
  <2>2. Len(app) + Len(ends) = n
    BY <1>1, <1>2, <1>3
  <2>3. Len(app) = n - 2
    BY <1>2
  <2> QED
    BY <2>1, <2>2, <2>3
<1>6. ASSUME NEW i \in 1 .. n PROVE image[i] = (app \o ends)[i]
  <2>1. CASE i <= n - 2
    BY <1>1, <1>2, <1>5, <2>1
  <2>2. CASE i = n - 1
    <3>1. i - (n - 2) = 1 /\ ~(i <= n - 2)
      BY <1>1, <2>2
    <3>2. (app \o ends)[i] = ends[1]
      BY <1>5, <3>1
    <3> QED
      BY <1>1, <1>3, <2>2, <3>2
  <2>3. CASE i = n
    <3>1. i - (n - 2) = 2 /\ ~(i <= n - 2)
      BY <1>1, <2>3
    <3>2. (app \o ends)[i] = ends[2]
      BY <1>5, <3>1
    <3> QED
      BY <1>1, <1>3, <2>3, <3>2
  <2>4. i <= n - 2 \/ i = n - 1 \/ i = n
    BY <1>1
  <2> QED
    BY <2>1, <2>2, <2>3, <2>4
<1>7. image = app \o ends
  BY <1>4, <1>5, <1>6, SeqEqual DEF n
<1> QED
  BY <1>1, <1>7 DEF Bootable, Signed, app, ends, n

\* A step of start() that leaves the flash alone, and one that writes the other partition.
LEMMA StepLemma ==
  ASSUME NEW from, NEW to, Step(from, to), OtaInv, from # "finished"
  PROVE  runs' = runs /\ boots = runs /\ ota' = to /\ ota = from /\ updating' = updating /\ Other' = Other
BY DEF Step, others, OtaInv, FlashInv, Other

\* A failing step.
LEMMA FailsLemma ==
  ASSUME NEW from, Fails(from), OtaInv, from # "finished"
  PROVE  OtaInv'
<1>1. Step(from, "aborted") /\ UNCHANGED <<partition, boots>>
  BY DEF Fails
<1>2. runs' = runs /\ boots = runs /\ ota' = "aborted" /\ updating' = updating
  BY <1>1, StepLemma
<1> QED
  BY <1>1, <1>2 DEF OtaInv, FlashInv, ImageInv, BootsVerified

\* The flash while a partition is written that does not run.
LEMMA WritesLemma ==
  ASSUME OtaInv, NEW what \in Seq(Blocks), partition' = [partition EXCEPT ![Other] = what],
         runs' = runs, boots' = boots, boots = runs
  PROVE  FlashInv' /\ BootsVerified'
<1>1. Other \in Partitions /\ Other # runs
  BY OtherLemma DEF OtaInv, FlashInv
<1>2. partition' \in [Partitions -> Seq(Blocks)] /\ partition'[runs] = partition[runs]
  BY <1>1 DEF OtaInv, FlashInv
<1> QED
  BY <1>2 DEF OtaInv, FlashInv, BootsVerified

\* No step leaves the device without an image to boot.
LEMMA OtaSteps == ASSUME OtaInv, OtaNext PROVE OtaInv'
<1> USE DEF OtaInv
<1>1. CASE AskForUpdate
  BY <1>1 DEF AskForUpdate, FlashInv, ImageInv, BootsVerified
<1>2. CASE CheckUpdate
  <2>1. CASE Step("none", "asked") /\ UNCHANGED <<partition, boots>>
    BY <2>1, StepLemma DEF FlashInv, ImageInv, BootsVerified
  <2> QED
    BY <1>2, <2>1, FailsLemma DEF CheckUpdate
<1>3. CASE ReadReply
  <2>1. CASE Step("asked", "asked") /\ UNCHANGED <<partition, boots>>
    BY <2>1, StepLemma DEF FlashInv, ImageInv, BootsVerified
  <2> QED
    BY <1>3, <2>1, FailsLemma DEF ReadReply
<1>4. CASE TakeReply
  <2>1. /\ runs' = runs /\ boots = runs /\ boots' = boots /\ ota' = "download"
        /\ partition' = [partition EXCEPT ![Other] = << >>]
    BY <1>4, StepLemma DEF TakeReply
  <2>2. FlashInv' /\ BootsVerified'
    BY <2>1, WritesLemma, EmptySeq
  <2>3. ImageInv'
    BY <1>4, <2>1 DEF TakeReply, ImageInv
  <2> QED
    BY <2>2, <2>3
<1>5. CASE ReadImage
  <2>1. CASE /\ Step("download", "download") /\ coming[2] <= Len(coming[1])
             /\ partition' = [partition EXCEPT ![Other] = Append(@, coming[1][coming[2]])]
             /\ coming' = [coming EXCEPT ![2] = @ + 1] /\ UNCHANGED <<boots, buffer>>
    <3>1. runs' = runs /\ boots = runs /\ boots' = boots /\ ota' = "download" /\ ota = "download"
      BY <2>1, StepLemma
    <3>2. PICK image \in Offered, n \in Nat \ {0} : coming = <<image, n>>
      BY <3>1 DEF ImageInv
    <3>3. image \in Seq(Blocks) /\ n \in 1 .. Len(image)
      BY <2>1, <3>2, OtaAssumption, LenProperties
    <3>4. Append(partition[Other], image[n]) \in Seq(Blocks)
      <4>1. partition[Other] \in Seq(Blocks) /\ image[n] \in Blocks
        BY <3>3, OtherLemma, ElementOfSeq DEF FlashInv
      <4> QED
        BY <4>1
    <3>5. partition' = [partition EXCEPT ![Other] = Append(partition[Other], image[n])]
      BY <2>1, <3>2
    <3>6. FlashInv' /\ BootsVerified'
      BY <3>1, <3>4, <3>5, WritesLemma
    <3>7. coming' = <<image, n + 1>>
      BY <2>1, <3>2
    <3>8. n + 1 \in Nat \ {0}
      OBVIOUS
    <3>9. ImageInv'
      BY <3>1, <3>7, <3>8 DEF ImageInv
    <3> QED
      BY <3>6, <3>9
  <2>2. CASE Step("download", "verify") /\ UNCHANGED <<partition, boots>>
    BY <2>2, StepLemma DEF FlashInv, ImageInv, BootsVerified
  <2> QED
    BY <1>5, <2>1, <2>2, FailsLemma DEF ReadImage
<1>6. CASE Verify
  <2>1. CASE Step("verify", "set_boot") /\ Verified(partition[Other]) /\ UNCHANGED <<partition, boots>>
    BY <2>1, StepLemma DEF FlashInv, ImageInv, BootsVerified
  <2> QED
    BY <1>6, <2>1, FailsLemma DEF Verify
<1>7. CASE SetBootPartition
  <2>1. CASE Step("set_boot", "finished") /\ boots' = Other /\ UNCHANGED partition
    <3>1. runs' = runs /\ ota = "set_boot" /\ ota' = "finished" /\ Other \in Partitions
      BY <2>1, StepLemma, OtherLemma DEF FlashInv
    <3>2. Bootable(partition[Other])
      BY <3>1, VerifiedBoots DEF FlashInv, ImageInv
    <3> QED
      BY <2>1, <3>1, <3>2 DEF FlashInv, ImageInv, BootsVerified
  <2> QED
    BY <1>7, <2>1, FailsLemma DEF SetBootPartition
<1>8. CASE UpdateEnds
  BY <1>8 DEF UpdateEnds, FlashInv, ImageInv, BootsVerified
<1>9. CASE Restarts
  BY <1>9 DEF Restarts, FlashInv, ImageInv, BootsVerified
<1> QED
  BY <1>1, <1>2, <1>3, <1>4, <1>5, <1>6, <1>7, <1>8, <1>9 DEF OtaNext

\* Whatever the server sends, wherever a connection or the power fails and however often an
\* update is repeated: the partition that boots and the one that runs hold the factory's image or
\* one that is complete and signed (EspIdfOta::start).
THEOREM UpdatesBoot == OtaSpec => []BootsVerified
<1>1. OtaInit => OtaInv
  <2>1. Factory \in Seq(Blocks) /\ << >> \in Seq(Blocks)
    BY OtaAssumption, EmptySeq
  <2> QED
    BY <2>1 DEF OtaInit, OtaInv, FlashInv, ImageInv, BootsVerified, Bootable
<1>2. OtaInv /\ [OtaNext]_otaVars => OtaInv'
  <2>1. OtaInv /\ UNCHANGED otaVars => OtaInv'
    BY DEF OtaInv, FlashInv, ImageInv, BootsVerified, Other, otaVars
  <2> QED
    BY <2>1, OtaSteps
<1>3. OtaSpec => []OtaInv
  BY <1>1, <1>2, PTL DEF OtaSpec
<1> QED
  BY <1>3, PTL DEF OtaInv

\* The steps of an update go from one to the next.
LEMMA OtaTypes ==
  ASSUME OtaTypeOK, [OtaNext]_otaVars PROVE OtaTypeOK'
<1> USE DEF OtaTypeOK
<1>1. CASE AskForUpdate
  BY <1>1, OtaAssumption DEF AskForUpdate
<1>2. ASSUME NEW from, NEW to \in {"asked", "download", "verify", "set_boot", "finished", "aborted"},
             Step(from, to), boots' \in Partitions
      PROVE  OtaTypeOK'
  BY <1>2 DEF Step, others
<1>3. ASSUME NEW from, Fails(from) PROVE OtaTypeOK'
  BY <1>2, <1>3 DEF Fails
<1>4. Other \in Partitions
  BY OtherLemma
<1>5. CASE CheckUpdate \/ ReadReply \/ TakeReply \/ ReadImage \/ Verify \/ SetBootPartition
  BY <1>2, <1>3, <1>4, <1>5 DEF CheckUpdate, ReadReply, TakeReply, ReadImage, Verify, SetBootPartition
<1>6. CASE UpdateEnds
  BY <1>6 DEF UpdateEnds
<1>7. CASE Restarts
  BY <1>7 DEF Restarts
<1>8. CASE UNCHANGED otaVars
  BY <1>8 DEF otaVars
<1> QED
  BY <1>1, <1>5, <1>6, <1>7, <1>8 DEF OtaNext

-----------------------------------------------------------------------------
(***************************************************************************)
(* SrpcLink.  The stream is what the input buffer and the wire hold; what  *)
(* is known of it are its headers and where one packet was cut.            *)
(***************************************************************************)
LinkCell ==
  ({"S", "U"} \X {0}) \cup ({"head"} \X Packet) \cup ({"data"} \X (1..MostCalls))
Begins(s, i) == s[i] = <<"S", 0>> /\ s[i + 1] = <<"U", 0>>

\* What follows the header of a packet, from its data on.
Follow(p, k) ==
  IF k <= p.size THEN <<"data", p.id>> ELSE IF k = p.size + 1 THEN <<"S", 0>> ELSE <<"U", 0>>

\* Each header is followed by what its packet has, but for the one that is cut behind cell c.
KeptButCut(s, c) ==
  \A i \in 1..Len(s) : s[i][1] = "head" =>
    \A k \in 1..s[i][2].size + 2 :
      \/ i <= c /\ c < i + s[i][2].size + 2 /\ c < i + k
      \/ i + k <= Len(s) /\ s[i + k] = Follow(s[i][2], k)

\* What comes behind the cut begins a packet.
Resumes(s, c) ==
  0 <= c /\ c < Len(s) => c + 3 <= Len(s) /\ Begins(s, c + 1) /\ s[c + 3][1] = "head"

CutAt(s, c) == c \in Int /\ c <= Len(s) /\ KeptButCut(s, c) /\ Resumes(s, c)

\* The headers are those of sent packets, in the order of the calls, from after a to b.
HeadsAre(s, a, b, sends) ==
  /\ \A i \in 1..Len(s) : s[i][1] = "head" =>
       /\ a < s[i][2].id /\ s[i][2].id <= b
       /\ \E j \in 1..Len(sends) : s[i][2] = sends[j]
  /\ \A i, j \in 1..Len(s) :
       s[i][1] = "head" /\ s[j][1] = "head" /\ i < j => s[i][2].id < s[j][2].id

\* Cells are told apart by their kinds.
LEMMA KindsLemma ==
  \A x \in LinkCell :
    /\ x = <<"S", 0>> <=> x[1] = "S"
    /\ x = <<"U", 0>> <=> x[1] = "U"
    /\ x[1] = "head" => x[2] \in Packet /\ x = <<"head", x[2]>>
BY DEF LinkCell

\* One sequence behind another.
LEMMA JoinLemma ==
  \A s, t \in Seq(LinkCell) :
    /\ s \o t \in Seq(LinkCell) /\ Len(s \o t) = Len(s) + Len(t)
    /\ \A i \in 1..Len(s) : (s \o t)[i] = s[i]
    /\ \A i \in 1..Len(t) : (s \o t)[Len(s) + i] = t[i]
OBVIOUS

\* The cells of a packet.
LEMMA CellsOfLemma ==
  ASSUME NEW p \in Packet
  PROVE  /\ CellsOf(p) \in Seq(LinkCell) /\ Len(CellsOf(p)) = p.size + 5
         /\ Begins(CellsOf(p), 1) /\ CellsOf(p)[3] = <<"head", p>>
         /\ \A k \in 1..p.size + 2 : CellsOf(p)[3 + k] = Follow(p, k)
         /\ \A i \in 1..p.size + 5 : CellsOf(p)[i][1] = "head" <=> i = 3
<1> DEFINE data == [i \in 1..p.size |-> <<"data", p.id>>]
           front == Tag \o <<<<"head", p>>>>
<1>1. p.size \in Nat /\ p.id \in 1..MostCalls
  BY LinkAssumption DEF Packet
<1>2. Tag \in Seq(LinkCell) /\ Len(Tag) = 2 /\ Tag[1] = <<"S", 0>> /\ Tag[2] = <<"U", 0>>
  BY DEF Tag, LinkCell
<1>3. /\ front \in Seq(LinkCell) /\ Len(front) = 3
      /\ front[1] = <<"S", 0>> /\ front[2] = <<"U", 0>> /\ front[3] = <<"head", p>>
  <2> DEFINE one == <<<<"head", p>>>>
  <2>1. <<"head", p>> \in LinkCell
    BY DEF LinkCell
  <2>2. one \in Seq(LinkCell) /\ Len(one) = 1 /\ one[1] = <<"head", p>>
    BY <2>1
  <2> HIDE DEF one
  <2>3. /\ Tag \o one \in Seq(LinkCell) /\ Len(Tag \o one) = Len(Tag) + Len(one)
        /\ \A i \in 1..Len(Tag) : (Tag \o one)[i] = Tag[i]
        /\ \A i \in 1..Len(one) : (Tag \o one)[Len(Tag) + i] = one[i]
    BY <1>2, <2>2, JoinLemma, Zenon
  <2>4. (Tag \o one)[2 + 1] = one[1] /\ (Tag \o one)[1] = Tag[1] /\ (Tag \o one)[2] = Tag[2]
    BY <1>2, <2>2, <2>3
  <2> QED
    BY <1>2, <2>2, <2>3, <2>4 DEF one
<1>4. data \in Seq(LinkCell) /\ Len(data) = p.size /\ \A i \in 1..p.size : data[i] = <<"data", p.id>>
  <2>1. <<"data", p.id>> \in LinkCell
    BY <1>1 DEF LinkCell
  <2>2. \A i \in 1..p.size : data[i] = <<"data", p.id>> /\ data[i] \in LinkCell
    BY <2>1
  <2>3. data \in [1..p.size -> LinkCell]
    BY <2>1
  <2>5. DOMAIN data = 1..p.size
    OBVIOUS
  <2> HIDE DEF data
  <2>4. data \in Seq(LinkCell)
    BY <1>1, <2>3
  <2>6. Len(data) = p.size
    BY <1>1, <2>4, <2>5
  <2> QED
    BY <2>2, <2>4, <2>6
<1> HIDE DEF data, front
<1>5. CellsOf(p) = (front \o data) \o Tag
  BY DEF CellsOf, front, data
<1> DEFINE cells == CellsOf(p)
<1> DEFINE body == front \o data
<1>14. /\ body \in Seq(LinkCell) /\ Len(body) = Len(front) + Len(data)
       /\ \A i \in 1..Len(front) : body[i] = front[i]
       /\ \A i \in 1..Len(data) : body[Len(front) + i] = data[i]
  BY <1>3, <1>4, JoinLemma, Zenon
<1>15. /\ body \o Tag \in Seq(LinkCell) /\ Len(body \o Tag) = Len(body) + Len(Tag)
       /\ \A i \in 1..Len(body) : (body \o Tag)[i] = body[i]
       /\ \A i \in 1..Len(Tag) : (body \o Tag)[Len(body) + i] = Tag[i]
  BY <1>2, <1>14, JoinLemma, Zenon
<1>16. cells = body \o Tag
  BY <1>5
<1> HIDE DEF body, cells
<1>6. /\ Len(body) = p.size + 3
      /\ \A i \in 1..3 : body[i] = front[i]
      /\ \A k \in 1..p.size : body[3 + k] = data[k]
  BY <1>1, <1>3, <1>4, <1>14
<1>7. /\ cells \in Seq(LinkCell) /\ Len(cells) = (p.size + 3) + 2
      /\ \A i \in 1..p.size + 3 : cells[i] = body[i]
      /\ \A i \in 1..2 : cells[p.size + 3 + i] = Tag[i]
  BY <1>1, <1>2, <1>6, <1>15, <1>16
<1>8. /\ \A i \in 1..3 : cells[i] = front[i]
      /\ \A k \in 1..p.size : cells[3 + k] = <<"data", p.id>>
  <2>1. \A i \in 1..3 : i \in 1..p.size + 3
    BY <1>1
  <2>2. \A k \in 1..p.size : 3 + k \in 1..p.size + 3
    BY <1>1
  <2>3. \A k \in 1..p.size : cells[3 + k] = data[k]
    BY <1>6, <1>7, <2>2, Zenon
  <2>4. \A i \in 1..3 : cells[i] = front[i]
    BY <1>6, <1>7, <2>1, Zenon
  <2> QED
    BY <1>4, <2>3, <2>4, Zenon
<1>9. cells[p.size + 4] = <<"S", 0>> /\ cells[p.size + 5] = <<"U", 0>>
  <2>1. cells[p.size + 3 + 1] = Tag[1] /\ cells[p.size + 3 + 2] = Tag[2]
    BY <1>7
  <2>2. p.size + 3 + 1 = p.size + 4 /\ p.size + 3 + 2 = p.size + 5
    BY <1>1
  <2> QED
    BY <1>2, <2>1, <2>2
<1>13. Len(cells) = p.size + 5
  BY <1>1, <1>7
<1>10. Begins(cells, 1) /\ cells[3] = <<"head", p>>
  BY <1>3, <1>8 DEF Begins
<1>11. \A k \in 1..p.size + 2 : cells[3 + k] = Follow(p, k)
  BY <1>1, <1>8, <1>9 DEF Follow
<1>12. ASSUME NEW i \in 1..p.size + 5 PROVE cells[i][1] = "head" <=> i = 3
  <2>1. CASE i \in 1..3
    BY <1>10, <2>1 DEF Begins
  <2>2. CASE i \notin 1..3
    <3>1. i - 3 \in 1..p.size + 2 /\ i = 3 + (i - 3)
      BY <1>1, <2>2
    <3>2. cells[i] = Follow(p, i - 3)
      BY <1>11, <3>1
    <3> QED
      BY <2>2, <3>2 DEF Follow
  <2> QED
    BY <2>1, <2>2
<1> QED
  BY <1>7, <1>10, <1>11, <1>12, <1>13 DEF cells

\* The size and the number of a packet.
LEMMA PacketSize == \A p \in Packet : p.size \in Nat /\ p.id \in Nat /\ p.id \in Int
BY LinkAssumption DEF Packet

\* The cells that are left of a stream, and those that it begins with.
LEMMA RestLemma ==
  \A s \in Seq(LinkCell) : \A n \in 0..Len(s) :
    /\ SubSeq(s, 1, n) \in Seq(LinkCell) /\ Len(SubSeq(s, 1, n)) = n
    /\ \A i \in 1..n : SubSeq(s, 1, n)[i] = s[i]
    /\ SubSeq(s, n + 1, Len(s)) \in Seq(LinkCell) /\ Len(SubSeq(s, n + 1, Len(s))) = Len(s) - n
    /\ \A i \in 1..Len(s) - n : SubSeq(s, n + 1, Len(s))[i] = s[i + n]
OBVIOUS

\* Of a whole packet more to the stream, all is kept and goes on where it did.
LEMMA WholeBehind ==
  ASSUME NEW s \in Seq(LinkCell), NEW p \in Packet, NEW c, CutAt(s, c),
         NEW t \in Seq(LinkCell), Len(t) = Len(s) + p.size + 5,
         \A i \in 1..Len(s) : t[i] = s[i],
         \A i \in 1..p.size + 5 : t[Len(s) + i] = CellsOf(p)[i]
  PROVE  CutAt(t, c)
<1>1. p.size \in Nat /\ Len(s) \in Nat
  BY LinkAssumption DEF Packet
<1>2. /\ t[Len(s) + 1] = <<"S", 0>> /\ t[Len(s) + 2] = <<"U", 0>>
      /\ t[Len(s) + 3] = <<"head", p>>
      /\ \A k \in 1..p.size + 2 : t[Len(s) + 3 + k] = Follow(p, k)
      /\ \A i \in 1..p.size + 5 : t[Len(s) + i][1] = "head" => i = 3
  <2> DEFINE cells == CellsOf(p)
  <2>1. /\ cells[1] = <<"S", 0>> /\ cells[1 + 1] = <<"U", 0>> /\ cells[3] = <<"head", p>>
        /\ \A k \in 1..p.size + 2 : cells[3 + k] = Follow(p, k)
        /\ \A i \in 1..p.size + 5 : cells[i][1] = "head" <=> i = 3
    BY CellsOfLemma, Zenon DEF Begins
  <2> HIDE DEF cells
  <2>2. \A i \in 1..p.size + 5 : t[Len(s) + i] = cells[i]
    BY DEF cells
  <2>3. \A k \in 1..p.size + 2 : 3 + k \in 1..p.size + 5 /\ Len(s) + (3 + k) = Len(s) + 3 + k
    BY <1>1
  <2>4. \A k \in 1..p.size + 2 : t[Len(s) + 3 + k] = Follow(p, k)
    BY <2>1, <2>2, <2>3, Zenon
  <2>5. 1 \in 1..p.size + 5 /\ 2 \in 1..p.size + 5 /\ 3 \in 1..p.size + 5
    BY <1>1
  <2>6. t[Len(s) + 1] = cells[1] /\ t[Len(s) + 2] = cells[2] /\ t[Len(s) + 3] = cells[3]
    BY <2>2, <2>5
  <2>7. t[Len(s) + 1] = <<"S", 0>> /\ t[Len(s) + 2] = <<"U", 0>> /\ t[Len(s) + 3] = <<"head", p>>
    BY <2>1, <2>6
  <2>8. ASSUME NEW i \in 1..p.size + 5, t[Len(s) + i][1] = "head" PROVE i = 3
    <3>1. cells[i][1] = "head"
      BY <2>2, <2>8
    <3> QED
      BY <2>1, <3>1, Zenon
  <2> QED
    BY <2>4, <2>7, <2>8, Zenon
<1>3. ASSUME NEW i \in 1..Len(t), t[i][1] = "head", NEW k \in 1..t[i][2].size + 2
      PROVE  \/ i <= c /\ c < i + t[i][2].size + 2 /\ c < i + k
             \/ i + k <= Len(t) /\ t[i + k] = Follow(t[i][2], k)
  <2>1. CASE i <= Len(s)
    <3>1. t[i] = s[i] /\ s[i] \in LinkCell
      BY <1>1, <2>1
    <3>2. s[i][2] \in Packet
      BY <1>3, <3>1, KindsLemma
    <3>3. s[i][2].size \in Nat
      BY <3>2, PacketSize, Zenon
    <3>4. k \in 1..s[i][2].size + 2 /\ s[i][1] = "head" /\ i \in 1..Len(s)
      BY <1>1, <1>3, <2>1, <3>1
    <3>5. \/ i <= c /\ c < i + s[i][2].size + 2 /\ c < i + k
          \/ i + k <= Len(s) /\ s[i + k] = Follow(s[i][2], k)
      BY <3>4, Zenon DEF CutAt, KeptButCut
    <3>6. i + k <= Len(s) => i + k \in 1..Len(s) /\ i + k <= Len(t)
      BY <1>1, <3>3, <3>4
    <3>7. t[i][2] = s[i][2] /\ (i + k \in 1..Len(s) => t[i + k] = s[i + k])
      BY <3>1
    <3> QED
      BY <3>5, <3>6, <3>7
  <2>2. CASE i > Len(s)
    <3>1. PICK j \in 1..p.size + 5 : i = Len(s) + j
      <4>1. i - Len(s) \in 1..p.size + 5 /\ i = Len(s) + (i - Len(s))
        BY <1>1, <2>2
      <4> QED
        BY <4>1
    <3>2. i = Len(s) + 3
      BY <1>2, <1>3, <3>1
    <3>3. t[i][2] = p /\ k \in 1..p.size + 2
      BY <1>2, <1>3, <3>2
    <3>4. t[Len(s) + 3 + k] = Follow(p, k)
      BY <1>2, <3>3, Zenon
    <3>5. i + k = Len(s) + 3 + k /\ i + k <= Len(t)
      <4> HIDE <1>2, <1>3
      <4>1. k \in 1..p.size + 2
        BY <3>3
      <4> QED
        BY <1>1, <3>2, <4>1, SMTT(20)
    <3> QED
      BY <3>3, <3>4, <3>5, Zenon
  <2> QED
    BY <1>1, <2>1, <2>2
<1>4. Resumes(t, c)
  <2>1. CASE c = Len(s)
    BY <1>1, <1>2, <2>1, SMTT(20) DEF Resumes, Begins
  <2>2. CASE c < Len(s)
    <3>1. CASE 0 <= c
      <4>1. c + 3 <= Len(s) /\ Begins(s, c + 1) /\ s[c + 3][1] = "head" /\ c \in Int
        BY <2>2, <3>1 DEF CutAt, Resumes
      <4>2. \A j \in 1..3 : c + j \in 1..Len(s) /\ t[c + j] = s[c + j]
        <5>1. \A j \in 1..3 : c + j \in 1..Len(s)
          BY <1>1, <3>1, <4>1
        <5> QED
          BY <5>1, Zenon
      <4>3. t[c + 1] = s[c + 1] /\ t[c + 2] = s[c + 2] /\ t[c + 3] = s[c + 3] /\ c + 1 + 1 = c + 2
        BY <4>1, <4>2
      <4> QED
        BY <1>1, <4>1, <4>3, SMTT(20) DEF Resumes, Begins
    <3> QED
      BY <3>1 DEF Resumes
  <2> QED
    BY <1>1, <2>1, <2>2 DEF CutAt
<1> QED
  BY <1>1, <1>3, <1>4 DEF CutAt, KeptButCut

\* Of a stream without a cut and a part of a packet, all is kept that is there.
LEMMA PartBehind ==
  ASSUME NEW s \in Seq(LinkCell), NEW p \in Packet, NEW m \in 0..p.size + 5, CutAt(s, -1),
         NEW t \in Seq(LinkCell), Len(t) = Len(s) + m,
         \A i \in 1..Len(s) : t[i] = s[i],
         \A i \in 1..m : t[Len(s) + i] = CellsOf(p)[i]
  PROVE  CutAt(t, Len(t))
<1>1. p.size \in Nat /\ Len(s) \in Nat
  BY LinkAssumption DEF Packet
<1>2. /\ \A k \in 1..p.size + 2 : 3 + k <= m => t[Len(s) + 3 + k] = Follow(p, k)
      /\ \A i \in 1..m : t[Len(s) + i][1] = "head" => i = 3 /\ t[Len(s) + i] = <<"head", p>>
  <2>1. \A k \in 1..p.size + 2 : 3 + k <= m => 3 + k \in 1..m /\ Len(s) + (3 + k) = Len(s) + 3 + k
    BY <1>1
  <2> QED
    <3> DEFINE cells == CellsOf(p)
    <3>1. /\ cells[3] = <<"head", p>>
          /\ \A k \in 1..p.size + 2 : cells[3 + k] = Follow(p, k)
          /\ \A i \in 1..p.size + 5 : cells[i][1] = "head" <=> i = 3
      BY CellsOfLemma, Zenon
    <3> HIDE DEF cells
    <3>2. \A i \in 1..m : t[Len(s) + i] = cells[i] /\ i \in 1..p.size + 5
      BY <1>1 DEF cells
    <3>3. \A k \in 1..p.size + 2 : 3 + k <= m => t[Len(s) + 3 + k] = Follow(p, k)
      BY <2>1, <3>1, <3>2, Zenon
    <3>4. ASSUME NEW i \in 1..m, t[Len(s) + i][1] = "head"
          PROVE  i = 3 /\ t[Len(s) + i] = <<"head", p>>
      <4>1. t[Len(s) + i] = cells[i] /\ i \in 1..p.size + 5
        BY <3>2
      <4>2. i = 3
        BY <3>1, <3>4, <4>1
      <4> QED
        BY <3>1, <4>1, <4>2
    <3> QED
      BY <3>3, <3>4
<1>3. ASSUME NEW i \in 1..Len(t), t[i][1] = "head", NEW k \in 1..t[i][2].size + 2
      PROVE  \/ i <= Len(t) /\ Len(t) < i + t[i][2].size + 2 /\ Len(t) < i + k
             \/ i + k <= Len(t) /\ t[i + k] = Follow(t[i][2], k)
  <2>1. CASE i <= Len(s)
    <3>1. t[i] = s[i] /\ s[i] \in LinkCell
      BY <1>1, <2>1
    <3>2. s[i][2] \in Packet
      BY <1>3, <3>1, KindsLemma
    <3>3. s[i][2].size \in Nat
      BY <3>2, PacketSize, Zenon
    <3>4. i + k <= Len(s) /\ s[i + k] = Follow(s[i][2], k)
      <4>1. k \in 1..s[i][2].size + 2 /\ s[i][1] = "head" /\ i \in 1..Len(s)
        BY <1>1, <1>3, <2>1, <3>1
      <4>2. \/ i <= -1
            \/ i + k <= Len(s) /\ s[i + k] = Follow(s[i][2], k)
        BY <4>1, Zenon DEF CutAt, KeptButCut
      <4> QED
        BY <4>1, <4>2
    <3> QED
      BY <1>1, <3>1, <3>4, SMTT(20)
  <2>2. CASE i > Len(s)
    <3>1. PICK j \in 1..m : i = Len(s) + j
      <4>1. i - Len(s) \in 1..m /\ i = Len(s) + (i - Len(s))
        BY <1>1, <2>2
      <4> QED
        BY <4>1
    <3>2. i = Len(s) + 3 /\ t[i] = <<"head", p>>
      BY <1>2, <1>3, <3>1
    <3>3. t[i][2] = p /\ k \in 1..p.size + 2
      BY <1>3, <3>2
    <3>4. CASE 3 + k <= m
      BY <1>1, <1>2, <3>2, <3>3, <3>4, SMTT(20)
    <3>5. CASE 3 + k > m
      <4>1. t[i][2].size = p.size /\ k <= p.size + 2 /\ k \in Nat /\ m \in Nat
        BY <1>1, <3>3
      <4>2. Len(t) < i + p.size + 2 /\ Len(t) < i + k /\ i <= Len(t)
        BY <1>1, <3>2, <3>5, <4>1, SMTT(20)
      <4> QED
        BY <4>1, <4>2
    <3> QED
      BY <1>1, <3>3, <3>4, <3>5
  <2> QED
    BY <1>1, <2>1, <2>2
<1> QED
  BY <1>1, <1>3 DEF CutAt, KeptButCut, Resumes

\* What is left of a stream is cut where it was.
LEMMA KeptLeft ==
  ASSUME NEW s \in Seq(LinkCell), NEW c, CutAt(s, c), NEW n \in 0..Len(s),
         NEW t \in Seq(LinkCell), Len(t) = Len(s) - n, \A i \in 1..Len(t) : t[i] = s[i + n]
  PROVE  CutAt(t, c - n)
<1>1. Len(s) \in Nat /\ c \in Int /\ c <= Len(s)
  BY DEF CutAt
<1>2. ASSUME NEW i \in 1..Len(t), t[i][1] = "head", NEW k \in 1..t[i][2].size + 2
      PROVE  \/ i <= c - n /\ c - n < i + t[i][2].size + 2 /\ c - n < i + k
             \/ i + k <= Len(t) /\ t[i + k] = Follow(t[i][2], k)
  <2>1. t[i] = s[i + n] /\ i + n \in 1..Len(s) /\ s[i + n] \in LinkCell
    BY <1>1
  <2>2. s[i + n][2] \in Packet
    BY <1>2, <2>1, KindsLemma
  <2>3. s[i + n][2].size \in Nat
    BY <2>2, PacketSize, Zenon
  <2>4. \/ i + n <= c /\ c < i + n + s[i + n][2].size + 2 /\ c < i + n + k
        \/ i + n + k <= Len(s) /\ s[i + n + k] = Follow(s[i + n][2], k)
    BY <1>2, <2>1 DEF CutAt, KeptButCut
  <2>5. CASE i + n + k <= Len(s) /\ s[i + n + k] = Follow(s[i + n][2], k)
    <3>1. i + k \in 1..Len(t) /\ i + k + n = i + n + k
      BY <1>1, <2>3, <2>5
    <3> QED
      BY <2>1, <2>5, <3>1
  <2>6. CASE i + n <= c /\ c < i + n + s[i + n][2].size + 2 /\ c < i + n + k
    <3>1. t[i][2].size = s[i + n][2].size /\ k \in Nat
      BY <1>2, <2>1, <2>3
    <3>3. \A z \in Nat : i + n <= c /\ c < i + n + z + 2 /\ c < i + n + k =>
            i <= c - n /\ c - n < i + z + 2 /\ c - n < i + k
      BY <1>1, <3>1
    <3>2. i <= c - n /\ c - n < i + s[i + n][2].size + 2 /\ c - n < i + k
      BY <2>3, <2>6, <3>3, Zenon
    <3> QED
      BY <3>1, <3>2
  <2> QED
    BY <2>4, <2>5, <2>6
<1>3. Resumes(t, c - n)
  <2> SUFFICES ASSUME 0 <= c - n, c - n < Len(t)
               PROVE  c - n + 3 <= Len(t) /\ Begins(t, c - n + 1) /\ t[c - n + 3][1] = "head"
    BY DEF Resumes
  <2>1. c + 3 <= Len(s) /\ Begins(s, c + 1) /\ s[c + 3][1] = "head"
    BY <1>1 DEF CutAt, Resumes
  <2>2. \A j \in 1..3 : c - n + j \in 1..Len(t) /\ c - n + j + n = c + j
    BY <1>1, <2>1
  <2>3. \A j \in 1..3 : t[c - n + j] = s[c + j]
    BY <2>2
  <2>4. t[c - n + 1] = s[c + 1] /\ t[c - n + 2] = s[c + 2] /\ t[c - n + 3] = s[c + 3]
    BY <2>3
  <2>5. c - n + 1 + 1 = c - n + 2 /\ c + 1 + 1 = c + 2 /\ c - n + 3 <= Len(t)
    BY <1>1, <2>1
  <2>6. s[c + 1] = <<"S", 0>> /\ s[c + 2] = <<"U", 0>>
    BY <2>1, <2>5 DEF Begins
  <2> QED
    BY <2>1, <2>4, <2>5, <2>6, Zenon DEF Begins
<1>4. KeptButCut(t, c - n)
  BY <1>2 DEF KeptButCut
<1> QED
  BY <1>1, <1>3, <1>4 DEF CutAt

\* What a stream without a cut begins with is all kept.
LEMMA KeptBegun ==
  ASSUME NEW s \in Seq(LinkCell), NEW t \in Seq(LinkCell), KeptButCut(s, -1) \/ KeptButCut(s, Len(s)),
         Len(t) <= Len(s), \A i \in 1..Len(t) : t[i] = s[i]
  PROVE  CutAt(t, Len(t))
<1>1. Len(s) \in Nat /\ Len(t) \in Nat
  OBVIOUS
<1>2. ASSUME NEW i \in 1..Len(t), t[i][1] = "head", NEW k \in 1..t[i][2].size + 2
      PROVE  \/ i <= Len(t) /\ Len(t) < i + t[i][2].size + 2 /\ Len(t) < i + k
             \/ i + k <= Len(t) /\ t[i + k] = Follow(t[i][2], k)
  <2>1. t[i] = s[i] /\ i \in 1..Len(s) /\ s[i] \in LinkCell
    BY <1>1
  <2>2. s[i][2] \in Packet
    BY <1>2, <2>1, KindsLemma
  <2>3. s[i][2].size \in Nat
    BY <2>2, PacketSize, Zenon
  <2>4. Len(s) < i + k \/ (i + k <= Len(s) /\ s[i + k] = Follow(s[i][2], k))
    BY <1>1, <1>2, <2>1, <2>3 DEF KeptButCut
  <2>5. CASE i + k <= Len(t)
    <3>1. i + k \in 1..Len(t)
      BY <1>1, <2>1, <2>3, <2>5
    <3> QED
      BY <1>1, <2>1, <2>4, <2>5, <3>1
  <2> QED
    BY <1>1, <1>2, <2>1, <2>3, <2>5, SMTT(20)
<1> QED
  BY <1>1, <1>2 DEF CutAt, KeptButCut, Resumes

\* What is left of a stream has its headers in their order.
LEMMA HeadsLeft ==
  ASSUME NEW s \in Seq(LinkCell), NEW t \in Seq(LinkCell), NEW a, NEW b, NEW sends,
         HeadsAre(s, a, b, sends), NEW f \in [1..Len(t) -> 1..Len(s)],
         \A i \in 1..Len(t) : t[i] = s[f[i]],
         \A i, j \in 1..Len(t) : i < j => f[i] < f[j]
  PROVE  HeadsAre(t, a, b, sends)
<1>1. \A i \in 1..Len(t) : f[i] \in 1..Len(s)
  OBVIOUS
<1>2. ASSUME NEW i \in 1..Len(t), t[i][1] = "head"
      PROVE  /\ a < t[i][2].id /\ t[i][2].id <= b
             /\ \E j \in 1..Len(sends) : t[i][2] = sends[j]
  BY <1>1, <1>2 DEF HeadsAre
<1>3. ASSUME NEW i \in 1..Len(t), NEW j \in 1..Len(t), t[i][1] = "head", t[j][1] = "head", i < j
      PROVE  t[i][2].id < t[j][2].id
  BY <1>1, <1>3 DEF HeadsAre
<1> QED
  BY <1>2, <1>3 DEF HeadsAre

\* A packet behind the stream has the last header.
LEMMA HeadsBehind ==
  ASSUME NEW s \in Seq(LinkCell), NEW a \in Int, NEW b \in Int, NEW sends, NEW more,
         HeadsAre(s, a, b, sends), Len(sends) \in Nat, Len(more) \in Nat, Len(sends) <= Len(more),
         \A j \in 1..Len(sends) : more[j] = sends[j],
         NEW p \in Packet, a <= b, b < p.id, \E j \in 1..Len(more) : p = more[j],
         NEW m \in 0..p.size + 5,
         NEW t \in Seq(LinkCell), Len(t) = Len(s) + m,
         \A i \in 1..Len(s) : t[i] = s[i],
         \A i \in 1..m : t[Len(s) + i] = CellsOf(p)[i]
  PROVE  HeadsAre(t, a, p.id, more)
<1>1. p.size \in Nat /\ Len(s) \in Nat /\ p.id \in Nat
  BY PacketSize DEF Packet
<1>2. ASSUME NEW i \in 1..Len(t), t[i][1] = "head", i > Len(s) PROVE i = Len(s) + 3 /\ t[i][2] = p
  <2>1. i - Len(s) \in 1..m /\ i - Len(s) \in 1..p.size + 5 /\ i = Len(s) + (i - Len(s))
    <3>1. m \in Nat /\ m <= p.size + 5 /\ i \in Nat /\ i > Len(s) /\ i <= Len(s) + m
      BY <1>1, <1>2
    <3> QED
      BY <1>1, <3>1, SMTT(20)
  <2>2. t[i] = CellsOf(p)[i - Len(s)]
    BY <2>1
  <2>3. i - Len(s) = 3 /\ t[i] = <<"head", p>>
    <3>1. \A x \in 1..p.size + 5 : CellsOf(p)[x][1] = "head" <=> x = 3
      BY CellsOfLemma, Zenon
    <3>2. i - Len(s) = 3
      BY <1>2, <2>1, <2>2, <3>1, Zenon
    <3>3. CellsOf(p)[3] = <<"head", p>>
      BY CellsOfLemma, Zenon
    <3> QED
      BY <2>2, <3>2, <3>3, Zenon
  <2> QED
    BY <1>1, <2>3
<1>3. ASSUME NEW i \in 1..Len(t), t[i][1] = "head", i <= Len(s)
      PROVE  /\ i \in 1..Len(s) /\ s[i][1] = "head" /\ t[i][2] = s[i][2]
             /\ a < t[i][2].id /\ t[i][2].id <= b
             /\ \E j \in 1..Len(more) : t[i][2] = more[j]
  <2>1. i \in 1..Len(s) /\ t[i] = s[i]
    BY <1>1, <1>3
  <2>2. PICK j \in 1..Len(sends) : s[i][2] = sends[j]
    BY <1>3, <2>1 DEF HeadsAre
  <2>3. j \in 1..Len(more) /\ more[j] = sends[j]
    BY <2>2
  <2> QED
    BY <1>3, <2>1, <2>2, <2>3 DEF HeadsAre
<1>4. \A i \in 1..Len(t) : t[i][1] = "head" => t[i][2].id \in Int
  <2> SUFFICES ASSUME NEW i \in 1..Len(t), t[i][1] = "head" PROVE t[i][2].id \in Int
    OBVIOUS
  <2>1. t[i] \in LinkCell
    OBVIOUS
  <2>2. t[i][2] \in Packet
    BY <2>1, KindsLemma
  <2> QED
    BY <2>2 DEF Packet
<1>5. ASSUME NEW i \in 1..Len(t), t[i][1] = "head"
      PROVE  /\ a < t[i][2].id /\ t[i][2].id <= p.id
             /\ \E j \in 1..Len(more) : t[i][2] = more[j]
  <2>1. CASE i <= Len(s)
    <3>1. \A x \in Int : x <= b => x <= p.id
      BY <1>1, SMTT(20)
    <3> QED
      BY <1>3, <1>4, <1>5, <2>1, <3>1, Zenon
  <2>2. CASE i > Len(s)
    BY <1>1, <1>2, <1>5, <2>2, SMTT(20)
  <2> QED
    BY <1>1, <2>1, <2>2
<1>6. ASSUME NEW i \in 1..Len(t), NEW j \in 1..Len(t), t[i][1] = "head", t[j][1] = "head", i < j
      PROVE  t[i][2].id < t[j][2].id
  <2>1. CASE j <= Len(s)
    <3>1. i <= Len(s)
      BY <1>1, <1>6, <2>1
    <3> QED
      BY <1>3, <1>6, <2>1, <3>1 DEF HeadsAre
  <2>2. CASE j > Len(s)
    <3>1. j = Len(s) + 3 /\ t[j][2] = p
      BY <1>2, <1>6, <2>2
    <3>2. i <= Len(s)
      <4>1. i > Len(s) => i = Len(s) + 3
        BY <1>2, <1>6
      <4> QED
        BY <1>1, <1>6, <3>1, <4>1
    <3>3. t[i][2].id <= b /\ t[i][2].id \in Int
      BY <1>3, <1>4, <1>6, <3>2
    <3>4. \A x \in Int : x <= b => x < p.id
      BY <1>1, SMTT(20)
    <3>5. t[i][2].id < p.id
      BY <3>3, <3>4, Zenon
    <3> QED
      BY <3>1, <3>5, Zenon
  <2> QED
    BY <1>1, <2>1, <2>2
<1> QED
  BY <1>5, <1>6 DEF HeadsAre

\* A small packet that ends with a tag has its own data, wherever the stream was cut.
LEMMA SmallLemma ==
  ASSUME NEW s \in Seq(LinkCell), NEW c, CutAt(s, c), NEW p \in Packet, s[3] = <<"head", p>>,
         p.size < 3 \/ c < 0, p.size + 5 <= Len(s), Begins(s, p.size + 4)
  PROVE  \A k \in 1..p.size : s[3 + k] = <<"data", p.id>>
<1>1. p.size \in Nat /\ Len(s) \in Nat /\ 3 \in 1..Len(s) /\ c \in Int /\ c <= Len(s)
  BY PacketSize DEF CutAt
<1>2. s[3][1] = "head" /\ s[3][2] = p
  OBVIOUS
<1>3. ASSUME NEW k \in 1..p.size PROVE s[3 + k] = <<"data", p.id>>
  <2>1. \/ 3 <= c /\ c < p.size + 5 /\ c < 3 + k
        \/ s[3 + k] = Follow(p, k)
    <3>1. k \in 1..s[3][2].size + 2
      BY <1>1, <1>2
    <3>2. \/ 3 <= c /\ c < 3 + s[3][2].size + 2 /\ c < 3 + k
          \/ 3 + k <= Len(s) /\ s[3 + k] = Follow(s[3][2], k)
      BY <1>1, <1>2, <3>1, Zenon DEF CutAt, KeptButCut
    <3>3. s[3][2].size = p.size
      BY <1>2
    <3> QED
      BY <1>1, <1>2, <3>2, <3>3
  <2>2. CASE s[3 + k] = Follow(p, k)
    BY <2>2 DEF Follow
  <2>3. CASE 3 <= c /\ c < p.size + 5 /\ c < 3 + k
    <3>1. p.size < 3 /\ c < Len(s)
      BY <1>1, <2>3
    <3>2. Begins(s, c + 1) /\ s[c + 3][1] = "head"
      BY <1>1, <2>3, <3>1 DEF CutAt, Resumes
    <3>3. p.size + 4 = c + 1 \/ p.size + 4 = c + 2 \/ p.size + 4 = c + 3
      BY <1>1, <2>3, <3>1, SMTT(20)
    <3>4. p.size + 4 = c + 2 \/ p.size + 4 = c + 3
      BY <1>1, <2>3, <3>3
    <3>5. CASE p.size + 4 = c + 2
      <4>1. s[c + 2] = <<"S", 0>> /\ s[c + 1 + 1] = <<"U", 0>> /\ c + 1 + 1 = c + 2
        BY <1>1, <3>2, <3>5 DEF Begins
      <4> QED
        BY <4>1
    <3>6. CASE p.size + 4 = c + 3
      <4>1. s[c + 3] = <<"S", 0>>
        BY <3>6 DEF Begins
      <4> QED
        BY <3>2, <4>1
    <3> QED
      BY <3>4, <3>5, <3>6
  <2> QED
    BY <2>1, <2>2, <2>3
<1> QED
  BY <1>3

\* What sproto_pop_in_sdp says of the bytes it has.
LEMMA PopLemma ==
  ASSUME NEW cells \in Seq(LinkCell), NEW tagSeen \in BOOLEAN,
         tagSeen => Len(cells) >= 2 /\ Begins(cells, 1)
  PROVE  LET pop == Popped(cells, tagSeen)
             p == cells[3][2]
         IN  \/ /\ pop.result = "wait" /\ pop.tag \in BOOLEAN
                /\ pop.tag => Len(cells) >= 2 /\ Begins(cells, 1)
             \/ pop.result = "error"
             \/ /\ pop.result = "packet" /\ p \in Packet /\ cells[3] = <<"head", p>>
                /\ pop.size = p.size + 5 /\ p.size + 5 <= Len(cells)
                /\ Begins(cells, 1) /\ Begins(cells, p.size + 4)
                /\ pop.packet = WithData(cells)
<1> DEFINE tag == tagSeen \/ (Len(cells) >= TagCells /\ SubSeq(cells, 1, TagCells) = Tag)
           head == cells[HeaderSize]
           whole == HeaderSize + head[2].size + TagCells
           pop == Popped(cells, tagSeen)
           p == cells[3][2]
<1>1. HeaderSize = 3 /\ TagCells = 2 /\ Len(cells) \in Nat
  BY DEF HeaderSize, TagCells
<1>2. \A n \in 0..Len(cells) - 2 : SubSeq(cells, n + 1, n + 2) = Tag => Begins(cells, n + 1)
  <2> SUFFICES ASSUME NEW n \in 0..Len(cells) - 2, SubSeq(cells, n + 1, n + 2) = Tag
               PROVE  Begins(cells, n + 1)
    OBVIOUS
  <2>1. SubSeq(cells, n + 1, n + 2)[1] = cells[n + 1] /\ SubSeq(cells, n + 1, n + 2)[2] = cells[n + 2]
    BY <1>1
  <2>2. Tag[1] = <<"S", 0>> /\ Tag[2] = <<"U", 0>> /\ n + 1 + 1 = n + 2
    BY DEF Tag
  <2> QED
    BY <2>1, <2>2 DEF Begins
<1>3. tag => Len(cells) >= 2 /\ Begins(cells, 1)
  BY <1>1, <1>2, SMTT(20)
<1>4. tag \in BOOLEAN
  OBVIOUS
<1> HIDE DEF tag
<1>5. pop =
        CASE ~tag /\ Len(cells) < TagCells -> [result |-> "wait", tag |-> FALSE]
          [] ~tag /\ Len(cells) >= TagCells -> [result |-> "error"]
          [] tag /\ Len(cells) < HeaderSize + TagCells -> [result |-> "wait", tag |-> TRUE]
          [] tag /\ Len(cells) >= HeaderSize + TagCells ->
               CASE newer \/ head[1] # "head" -> [result |-> "error"]
                 [] ~newer /\ head[1] = "head" /\ Len(cells) < whole ->
                      [result |-> "wait", tag |-> TRUE]
                 [] OTHER ->
                      IF SubSeq(cells, whole - TagCells + 1, whole) = Tag
                        THEN [result |-> "packet", packet |-> WithData(cells), size |-> whole]
                        ELSE [result |-> "error"]
  BY Zenon DEF Popped, tag
<1> HIDE DEF pop
<1>6. CASE ~tag /\ Len(cells) < 2
  <2>1. pop = [result |-> "wait", tag |-> FALSE]
    BY <1>1, <1>5, <1>6
  <2> QED
    BY <2>1 DEF pop
<1>7. CASE ~tag /\ Len(cells) >= 2
  <2>1. pop = [result |-> "error"]
    BY <1>1, <1>5, <1>7
  <2> QED
    BY <2>1 DEF pop
<1>8. CASE tag /\ Len(cells) < 5
  <2>1. pop = [result |-> "wait", tag |-> TRUE]
    BY <1>1, <1>5, <1>8
  <2> QED
    BY <1>3, <1>8, <2>1 DEF pop
<1>9. CASE tag /\ Len(cells) >= 5
  <2>1. CASE newer \/ head[1] # "head"
    <3>1. pop = [result |-> "error"]
      BY <1>1, <1>5, <1>9, <2>1
    <3> QED
      BY <3>1 DEF pop
  <2>2. CASE ~newer /\ head[1] = "head"
    <3>1. cells[3] \in LinkCell
      BY <1>1, <1>9
    <3>2. p \in Packet /\ cells[3] = <<"head", p>>
      BY <1>1, <2>2, <3>1, KindsLemma
    <3>3. p.size \in Nat /\ whole = p.size + 5
      BY <1>1, <3>2, PacketSize
    <3>4. CASE Len(cells) < whole
      <4>1. pop = [result |-> "wait", tag |-> TRUE]
        BY <1>1, <1>5, <1>9, <2>2, <3>4
      <4> QED
        BY <1>3, <1>9, <4>1 DEF pop
    <3>5. CASE Len(cells) >= whole
      <4> DEFINE end == SubSeq(cells, whole - TagCells + 1, whole)
      <4>1. pop = IF end = Tag
                    THEN [result |-> "packet", packet |-> WithData(cells), size |-> whole]
                    ELSE [result |-> "error"]
        BY <1>1, <1>5, <1>9, <2>2, <3>3, <3>5, SMTT(20)
      <4>2. CASE end = Tag
        <5>1. pop = [result |-> "packet", packet |-> WithData(cells), size |-> whole]
          BY <4>1, <4>2
        <5>2. Begins(cells, p.size + 4)
          <6>1. p.size + 3 \in 0..Len(cells) - 2 /\ p.size + 3 + 1 = p.size + 4
            BY <1>1, <3>3, <3>5
          <6>2. end = SubSeq(cells, p.size + 3 + 1, p.size + 3 + 2)
            <7>1. whole - TagCells + 1 = p.size + 3 + 1 /\ whole = p.size + 3 + 2
              BY <1>1, <3>3
            <7> QED
              BY <7>1, Zenon
          <6> QED
            BY <1>2, <4>2, <6>1, <6>2
        <5> QED
          BY <1>1, <1>3, <1>9, <3>2, <3>3, <3>5, <5>1, <5>2 DEF pop
      <4>3. CASE end # Tag
        <5>1. pop = [result |-> "error"]
          BY <4>1, <4>3
        <5> QED
          BY <5>1 DEF pop
      <4> QED
        BY <4>2, <4>3
    <3> QED
      BY <1>1, <3>3, <3>4, <3>5
  <2> QED
    BY <2>1, <2>2
<1> QED
  BY <1>1, <1>4, <1>6, <1>7, <1>8, <1>9
-----------------------------------------------------------------------------
\* What was sent: whole packets, numbered in the order of the n calls.
Sends(sends, n) ==
  /\ sends \in Seq(Packet)
  /\ \A j \in 1..Len(sends) : sends[j].whole /\ sends[j].id <= n
  /\ \A i, j \in 1..Len(sends) : i < j => sends[i].id < sends[j].id

\* What was taken, what is in the stream and what waits to be written follow each other.
TakenFrom(took, a, sends) ==
  /\ took \in Seq(Packet)
  /\ \A k \in 1..Len(took) :
       took[k].id <= a /\ \E j \in 1..Len(sends) : [took[k] EXCEPT !.whole = TRUE] = sends[j]
  /\ \A i, j \in 1..Len(took) : i < j => took[i].id < took[j].id
Waiting(out, b, sends) ==
  /\ out \in Seq(Packet)
  /\ \A q \in 1..Len(out) : b < out[q].id /\ \E j \in 1..Len(sends) : out[q] = sends[j]
  /\ \A i, j \in 1..Len(out) : i < j => out[i].id < out[j].id
InLine(took, s, out, sends, n) ==
  \E a, b \in 0..n : a <= b /\ TakenFrom(took, a, sends) /\ HeadsAre(s, a, b, sends) /\ Waiting(out, b, sends)

\* None of what was sent is missing.
AllThere(took, s, out, sends) ==
  \A j \in 1..Len(sends) : j > Len(took) =>
    \/ \E i \in 1..Len(s) : s[i] = <<"head", sends[j]>>
    \/ \E q \in 1..Len(out) : out[q] = sends[j]
Begun(took, sends) ==
  Len(took) <= Len(sends) /\ \A k \in 1..Len(took) : took[k] = sends[k]

\* One packet behind others.
LEMMA OneMore ==
  ASSUME NEW s \in Seq(Packet), NEW p \in Packet
  PROVE  /\ Append(s, p) \in Seq(Packet) /\ Len(Append(s, p)) = Len(s) + 1
         /\ \A i \in 1..Len(s) : Append(s, p)[i] = s[i]
         /\ Append(s, p)[Len(s) + 1] = p
         /\ \A i \in 1..Len(Append(s, p)) : i \in 1..Len(s) \/ i = Len(s) + 1
OBVIOUS

\* A call that sends.
LEMMA SendLemma ==
  ASSUME NEW sends, NEW n \in Nat, Sends(sends, n), NEW p \in Packet, p.id = n + 1, p.whole
  PROVE  /\ Sends(Append(sends, p), n + 1)
         /\ \A took : \A a : TakenFrom(took, a, sends) => TakenFrom(took, a, Append(sends, p))
         /\ \A s, a, b : HeadsAre(s, a, b, sends) => HeadsAre(s, a, b, Append(sends, p))
         /\ \A out : \A b \in 0..n : Waiting(out, b, sends) => Waiting(out, b, Append(sends, p))
<1> DEFINE more == Append(sends, p)
<1>1. sends \in Seq(Packet) /\ Len(sends) \in Nat
  BY DEF Sends
<1>2. /\ more \in Seq(Packet) /\ Len(more) = Len(sends) + 1
      /\ \A i \in 1..Len(sends) : more[i] = sends[i]
      /\ more[Len(sends) + 1] = p
      /\ \A i \in 1..Len(more) : i \in 1..Len(sends) \/ i = Len(sends) + 1
  BY <1>1, OneMore
<1> HIDE DEF more
<1>3. \A j \in 1..Len(sends) : j \in 1..Len(more) /\ more[j] = sends[j]
  BY <1>1, <1>2
<1>4. \A j \in 1..Len(sends) : sends[j].id \in Int /\ sends[j].id <= n /\ sends[j].whole
  <2>1. \A j \in 1..Len(sends) : sends[j] \in Packet
    BY <1>1
  <2> QED
    BY <2>1, PacketSize, Zenon DEF Sends
<1>5. Sends(more, n + 1)
  <2>1. ASSUME NEW j \in 1..Len(more) PROVE more[j].whole /\ more[j].id <= n + 1
    <3>1. \A x \in Int : x <= n => x <= n + 1
      OBVIOUS
    <3>2. CASE j \in 1..Len(sends)
      BY <1>2, <1>4, <3>1, <3>2
    <3>3. CASE j = Len(sends) + 1
      BY <1>2, <3>3
    <3> QED
      BY <1>2, <3>2, <3>3
  <2>2. ASSUME NEW i \in 1..Len(more), NEW j \in 1..Len(more), i < j PROVE more[i].id < more[j].id
    <3>1. i \in 1..Len(sends)
      BY <1>1, <1>2, <2>2
    <3>2. CASE j \in 1..Len(sends)
      BY <1>3, <2>2, <3>1, <3>2 DEF Sends
    <3>3. CASE j = Len(sends) + 1
      <4>1. \A x \in Int : x <= n => x < n + 1
        OBVIOUS
      <4> QED
        BY <1>2, <1>3, <1>4, <3>1, <3>3, <4>1
    <3> QED
      BY <1>2, <3>2, <3>3
  <2> QED
    BY <1>2, <2>1, <2>2 DEF Sends
<1>6. ASSUME NEW took, NEW a, TakenFrom(took, a, sends) PROVE TakenFrom(took, a, more)
  BY <1>3, <1>6 DEF TakenFrom
<1>7. ASSUME NEW s, NEW a, NEW b, HeadsAre(s, a, b, sends) PROVE HeadsAre(s, a, b, more)
  BY <1>3, <1>7 DEF HeadsAre
<1>8. ASSUME NEW out, NEW b \in 0..n, Waiting(out, b, sends) PROVE Waiting(out, b, more)
  BY <1>3, <1>8 DEF Waiting
<1> QED
  BY <1>5, <1>6, <1>7, <1>8 DEF more

\* A call that is put into the queue.
LEMMA QueueLemma ==
  ASSUME NEW out, NEW b \in Nat, NEW n \in Nat, NEW sends, Waiting(out, b, sends), b <= n,
         Sends(sends, n), NEW p \in Packet, p.id = n + 1, p.whole
  PROVE  Waiting(Append(out, p), b, Append(sends, p))
<1> DEFINE more == Append(out, p)
           all == Append(sends, p)
<1>1. out \in Seq(Packet) /\ Len(out) \in Nat /\ sends \in Seq(Packet) /\ Len(sends) \in Nat
  BY DEF Waiting, Sends
<1>2. /\ more \in Seq(Packet) /\ Len(more) = Len(out) + 1
      /\ \A i \in 1..Len(out) : more[i] = out[i]
      /\ more[Len(out) + 1] = p
      /\ \A i \in 1..Len(more) : i \in 1..Len(out) \/ i = Len(out) + 1
  BY <1>1, OneMore
<1>3. Waiting(out, b, all)
  BY SendLemma
<1>4. Len(all) = Len(sends) + 1 /\ all[Len(sends) + 1] = p /\ Len(sends) + 1 \in 1..Len(all)
  BY <1>1, OneMore
<1> HIDE DEF more, all
<1>5. \A q \in 1..Len(out) : out[q].id \in Int /\ out[q].id <= n
  <2> SUFFICES ASSUME NEW q \in 1..Len(out) PROVE out[q].id \in Int /\ out[q].id <= n
    OBVIOUS
  <2>1. PICK j \in 1..Len(sends) : out[q] = sends[j]
    BY DEF Waiting
  <2>2. sends[j] \in Packet
    BY <1>1
  <2> QED
    BY <2>1, <2>2, PacketSize, Zenon DEF Sends
<1>6. ASSUME NEW q \in 1..Len(more)
      PROVE  b < more[q].id /\ \E j \in 1..Len(all) : more[q] = all[j]
  <2>1. CASE q \in 1..Len(out)
    BY <1>2, <1>3, <2>1 DEF Waiting
  <2>2. CASE q = Len(out) + 1
    BY <1>2, <1>4, <2>2
  <2> QED
    BY <1>2, <2>1, <2>2
<1>7. ASSUME NEW i \in 1..Len(more), NEW j \in 1..Len(more), i < j PROVE more[i].id < more[j].id
  <2>1. i \in 1..Len(out)
    BY <1>1, <1>2, <1>7
  <2>2. CASE j \in 1..Len(out)
    BY <1>2, <1>3, <1>7, <2>1, <2>2 DEF Waiting
  <2>3. CASE j = Len(out) + 1
    <3>1. \A x \in Int : x <= n => x < n + 1
      OBVIOUS
    <3> QED
      BY <1>2, <1>5, <2>1, <2>3, <3>1
  <2> QED
    BY <1>2, <2>2, <2>3
<1> QED
  BY <1>2, <1>6, <1>7 DEF Waiting, more, all

\* A packet that is taken: its header is behind those that were taken, and before the others.
LEMMA TakenLemma ==
  ASSUME NEW took, NEW a \in Int, NEW sends \in Seq(Packet), TakenFrom(took, a, sends), NEW p \in Packet,
         a < p.id, \E j \in 1..Len(sends) : [p EXCEPT !.whole = TRUE] = sends[j]
  PROVE  TakenFrom(Append(took, p), p.id, sends)
<1> DEFINE more == Append(took, p)
<1>1. took \in Seq(Packet) /\ Len(took) \in Nat /\ p.id \in Int
  BY DEF TakenFrom, Packet
<1>2. /\ more \in Seq(Packet) /\ Len(more) = Len(took) + 1
      /\ \A i \in 1..Len(took) : more[i] = took[i]
      /\ more[Len(took) + 1] = p
      /\ \A i \in 1..Len(more) : i \in 1..Len(took) \/ i = Len(took) + 1
  BY <1>1, OneMore
<1> HIDE DEF more
<1>3. \A x \in Int : x <= a => x < p.id /\ x <= p.id
  BY <1>1
<1>4. \A k \in 1..Len(took) : took[k].id \in Int
  <2>1. \A k \in 1..Len(took) : took[k] \in Packet
    BY <1>1
  <2> QED
    BY <2>1, PacketSize, Zenon
<1>5. ASSUME NEW k \in 1..Len(more)
      PROVE  more[k].id <= p.id /\ \E j \in 1..Len(sends) : [more[k] EXCEPT !.whole = TRUE] = sends[j]
  <2>1. CASE k \in 1..Len(took)
    BY <1>2, <1>3, <1>4, <2>1 DEF TakenFrom
  <2>2. CASE k = Len(took) + 1
    <3>1. more[k] = p /\ p.id <= p.id
      BY <1>1, <1>2, <2>2
    <3> QED
      BY <3>1, Zenon
  <2> QED
    BY <1>2, <2>1, <2>2
<1>6. ASSUME NEW i \in 1..Len(more), NEW j \in 1..Len(more), i < j PROVE more[i].id < more[j].id
  <2>1. i \in 1..Len(took)
    BY <1>1, <1>2, <1>6
  <2>2. CASE j \in 1..Len(took)
    BY <1>2, <1>6, <2>1, <2>2 DEF TakenFrom
  <2>3. CASE j = Len(took) + 1
    BY <1>2, <1>3, <1>4, <2>1, <2>3 DEF TakenFrom
  <2> QED
    BY <1>2, <2>2, <2>3
<1> QED
  BY <1>2, <1>5, <1>6 DEF TakenFrom, more

\* Without a fault it is the first that is missing, and no other one leaves the stream with it.
LEMMA NextLemma ==
  ASSUME NEW sends, NEW n \in Nat, Sends(sends, n), NEW took, NEW a \in Int, TakenFrom(took, a, sends),
         NEW s \in Seq(LinkCell), NEW b \in Int, HeadsAre(s, a, b, sends),
         NEW out, Waiting(out, b, sends), Begun(took, sends), AllThere(took, s, out, sends),
         CutAt(s, -1), NEW p \in Packet, Begins(s, 1), s[3] = <<"head", p>>, p.size + 5 <= Len(s),
         NEW t \in Seq(LinkCell), Len(t) = Len(s) - (p.size + 5),
         \A i \in 1..Len(t) : t[i] = s[i + (p.size + 5)]
  PROVE  Begun(Append(took, p), sends) /\ AllThere(Append(took, p), t, out, sends) /\ p.whole
<1>1. /\ p.size \in Nat /\ Len(s) \in Nat /\ p.id \in Int /\ 3 \in 1..Len(s)
      /\ s[3][1] = "head" /\ s[3][2] = p
  BY PacketSize, SMTT(20)
<1>2. /\ took \in Seq(Packet) /\ Len(took) \in Nat /\ sends \in Seq(Packet) /\ Len(sends) \in Nat
      /\ out \in Seq(Packet)
  BY DEF TakenFrom, Sends, Waiting
<1>3. PICK m \in 1..Len(sends) : p = sends[m]
  BY <1>1 DEF HeadsAre
<1>4. a < p.id /\ p.id <= b
  BY <1>1 DEF HeadsAre
<1>5. \A j \in 1..Len(sends) : sends[j] \in Packet /\ sends[j].id \in Int
  <2>1. \A j \in 1..Len(sends) : sends[j] \in Packet
    BY <1>2
  <2> QED
    BY <2>1, PacketSize, Zenon
<1>6. m > Len(took)
  <2> SUFFICES ASSUME m <= Len(took) PROVE FALSE
    BY <1>2
  <2>1. m \in 1..Len(took) /\ took[m] = p
    BY <1>2, <1>3 DEF Begun
  <2>2. p.id <= a
    BY <2>1 DEF TakenFrom
  <2> QED
    BY <1>1, <1>4, <2>2
<1>7. ASSUME NEW i \in 1..Len(s), s[i][1] = "head", i <= 3 PROVE i = 3
  <2>1. s[1][1] = "S" /\ s[2][1] = "U"
    BY DEF Begins
  <2> QED
    BY <1>7, <2>1, SMTT(20)
<1>8. m = Len(took) + 1
  <2> SUFFICES ASSUME m > Len(took) + 1 PROVE FALSE
    BY <1>2, <1>6, SMTT(20)
  <2> DEFINE j == Len(took) + 1
  <2>1. j \in 1..Len(sends) /\ j < m /\ j > Len(took)
    BY <1>2, SMTT(20)
  <2> HIDE DEF j
  <2>2. sends[j].id < p.id
    BY <1>3, <2>1 DEF Sends
  <2>3. CASE \E i \in 1..Len(s) : s[i] = <<"head", sends[j]>>
    <3>1. PICK i \in 1..Len(s) : s[i] = <<"head", sends[j]>>
      BY <2>3
    <3>2. s[i][1] = "head" /\ s[i][2] = sends[j]
      BY <3>1
    <3>3. CASE i = 3
      <4>1. sends[j] = p
        BY <1>1, <3>2, <3>3
      <4> QED
        BY <1>1, <2>2, <4>1
    <3>4. CASE i > 3
      <4>1. p.id < sends[j].id
        BY <1>1, <3>2, <3>4 DEF HeadsAre
      <4> QED
        BY <1>1, <1>5, <2>1, <2>2, <4>1, SMTT(20)
    <3> QED
      BY <1>7, <3>2, <3>3, <3>4
  <2>4. CASE \E q \in 1..Len(out) : out[q] = sends[j]
    <3>1. b < sends[j].id
      BY <2>4 DEF Waiting
    <3> QED
      BY <1>1, <1>4, <1>5, <2>1, <2>2, <3>1, SMTT(20)
  <2> QED
    BY <2>1, <2>3, <2>4 DEF AllThere
<1> DEFINE more == Append(took, p)
<1>9. /\ Len(more) = Len(took) + 1
      /\ \A i \in 1..Len(took) : more[i] = took[i]
      /\ more[Len(took) + 1] = p
      /\ \A i \in 1..Len(more) : i \in 1..Len(took) \/ i = Len(took) + 1
  BY <1>2, OneMore
<1> HIDE DEF more
<1>10. Begun(more, sends)
  <2>1. Len(more) <= Len(sends)
    BY <1>2, <1>8, <1>9
  <2>2. ASSUME NEW k \in 1..Len(more) PROVE more[k] = sends[k]
    BY <1>3, <1>8, <1>9 DEF Begun
  <2> QED
    BY <2>1, <2>2 DEF Begun
<1>11. ASSUME NEW i \in 1..Len(s), s[i][1] = "head", i > 3 PROVE i > p.size + 5
  <2> SUFFICES ASSUME i <= p.size + 5 PROVE FALSE
    BY <1>1, SMTT(20)
  <2>1. i - 3 \in 1..p.size + 2 /\ 3 + (i - 3) = i
    <3>1. \A x \in Nat : i <= x + 5 => i - 3 \in 1..x + 2 /\ 3 + (i - 3) = i
      BY <1>1, <1>11
    <3> QED
      BY <1>1, <3>1, Zenon
  <2>3. \A k \in 1..p.size + 2 : 3 <= -1 \/ s[3 + k] = Follow(p, k)
    BY <1>1, Zenon DEF CutAt, KeptButCut
  <2>4. \A k \in 1..p.size + 2 : s[3 + k] = Follow(p, k)
    BY <2>3, SMTT(20)
  <2>2. s[i] = Follow(p, i - 3)
    BY <2>1, <2>4, Zenon
  <2> QED
    BY <1>11, <2>2 DEF Follow
<1>12. ASSUME NEW j \in 1..Len(sends), j > Len(more)
       PROVE  \/ \E i \in 1..Len(t) : t[i] = <<"head", sends[j]>>
              \/ \E q \in 1..Len(out) : out[q] = sends[j]
  <2>1. j > Len(took) /\ m < j
    BY <1>2, <1>8, <1>9, <1>12
  <2>2. CASE \E i \in 1..Len(s) : s[i] = <<"head", sends[j]>>
    <3>1. PICK i \in 1..Len(s) : s[i] = <<"head", sends[j]>>
      BY <2>2
    <3>2. s[i][1] = "head" /\ s[i][2] = sends[j]
      BY <3>1
    <3>3. i # 3
      <4>1. p.id < sends[j].id
        BY <1>3, <2>1 DEF Sends
      <4> QED
        BY <1>1, <3>2, <4>1
    <3>4. i > p.size + 5
      BY <1>7, <1>11, <3>2, <3>3
    <3>5. i - (p.size + 5) \in 1..Len(t) /\ i - (p.size + 5) + (p.size + 5) = i
      <4>1. \A x \in Nat : i > x + 5 /\ x + 5 <= Len(s) =>
              i - (x + 5) \in 1..(Len(s) - (x + 5)) /\ i - (x + 5) + (x + 5) = i
        BY <1>1
      <4> QED
        BY <1>1, <3>4, <4>1, Zenon
    <3> QED
      BY <3>1, <3>5
  <2>3. CASE \E q \in 1..Len(out) : out[q] = sends[j]
    BY <2>3
  <2> QED
    BY <2>1, <2>2, <2>3 DEF AllThere
<1>13. p.whole
  BY <1>3 DEF Sends
<1> QED
  BY <1>10, <1>12, <1>13 DEF AllThere, more
-----------------------------------------------------------------------------
\* The invariant.
Stream == inBuffer \o wire
Took == got \o inQueue

LinkTypeInv ==
  /\ LinkTypeOK
  /\ inBuffer \in Seq(LinkCell) /\ wire \in Seq(LinkCell)
  /\ IF toDevice THEN inQueue = << >> ELSE outQueue = << >>
  /\ beginTag => Len(inBuffer) >= 2 /\ Begins(inBuffer, 1)
CutInv ==
  /\ faults = 0 /\ open => CutAt(Stream, -1)
  /\ faults = 1 /\ open => \E c \in Int : CutAt(Stream, c)
  /\ faults = 0 => CutAt(inBuffer, Len(inBuffer))
LineInv == Sends(sent, called) /\ InLine(Took, Stream, outQueue, sent, called)
FaultInv ==
  /\ \A k \in 1..Len(Took) : Took[k].whole \/ faults > 1 \/ Took[k].size >= 3
  /\ faults = 0 => Begun(Took, sent)
  /\ faults = 0 /\ open => AllThere(Took, Stream, outQueue, sent)
LinkInv == LinkTypeInv /\ CutInv /\ LineInv /\ FaultInv

\* It holds at the start.
LEMMA LinkStarts == LinkInit => LinkInv
<1> SUFFICES ASSUME LinkInit PROVE LinkInv
  OBVIOUS
<1>1. /\ wire = << >> /\ inBuffer = << >> /\ got = << >> /\ inQueue = << >> /\ outQueue = << >>
      /\ sent = << >> /\ called = 0 /\ faults = 0 /\ open = TRUE /\ beginTag = FALSE
      /\ toDevice \in BOOLEAN /\ newer \in BOOLEAN /\ rrId = RrIds - 2
  BY DEF LinkInit
<1>2. /\ << >> \in Seq(LinkCell) /\ << >> \in Seq(Packet) /\ Len(<< >>) = 0
      /\ << >> \o << >> = << >>
  OBVIOUS
<1>3. Stream = << >> /\ Took = << >>
  BY <1>1, <1>2 DEF Stream, Took
<1>4. LinkTypeInv
  <2>1. LinkTypeOK
    <3>1. /\ RrIds - 2 \in 0..RrIds - 1 /\ 0 \in 0..MostCalls /\ 0 \in 0..MostFaults
          /\ 0 <= QueueSize /\ 0 < BufferMax
      BY LinkAssumption DEF HeaderSize, TagCells
    <3>2. {toDevice, newer, open, beginTag} \subseteq BOOLEAN
      BY <1>1
    <3> QED
      BY <1>1, <1>2, <3>1, <3>2 DEF LinkTypeOK
  <2> QED
    BY <1>1, <1>2, <2>1 DEF LinkTypeInv
<1>5. CutAt(<< >>, -1) /\ CutAt(<< >>, 0)
  BY <1>2 DEF CutAt, KeptButCut, Resumes
<1>6. CutInv
  BY <1>1, <1>2, <1>3, <1>5 DEF CutInv
<1>7. Sends(<< >>, 0)
  BY <1>2 DEF Sends
<1>8. 0 \in 0..0 /\ 0 <= 0 /\ TakenFrom(<< >>, 0, << >>) /\ HeadsAre(<< >>, 0, 0, << >>) /\ Waiting(<< >>, 0, << >>)
  BY <1>2 DEF TakenFrom, HeadsAre, Waiting
<1>9. LineInv
  BY <1>1, <1>3, <1>7, <1>8 DEF LineInv, InLine
<1>10. FaultInv
  BY <1>1, <1>2, <1>3 DEF FaultInv, Begun, AllThere
<1> QED
  BY <1>4, <1>6, <1>9, <1>10 DEF LinkInv

\* What waits in the buffer and on the wire, and behind it a packet or a part of it.
LEMMA WireLemma ==
  ASSUME LinkTypeInv, NEW p \in Packet, PutOnWire(CellsOf(p))
  PROVE  \E m \in 0..p.size + 5 :
           /\ \/ faults' = faults /\ m = p.size + 5
              \/ faults < MostFaults /\ faults' = faults + 1
           /\ wire' \in Seq(LinkCell)
           /\ LET t == inBuffer \o wire'
              IN  /\ t \in Seq(LinkCell) /\ Len(t) = Len(Stream) + m
                  /\ \A i \in 1..Len(Stream) : t[i] = Stream[i]
                  /\ \A i \in 1..m : t[Len(Stream) + i] = CellsOf(p)[i]
<1> DEFINE cells == CellsOf(p)
<1>1. cells \in Seq(LinkCell) /\ Len(cells) = p.size + 5 /\ p.size \in Nat
  BY CellsOfLemma, PacketSize, Zenon
<1>2. inBuffer \in Seq(LinkCell) /\ wire \in Seq(LinkCell) /\ Stream \in Seq(LinkCell)
  BY JoinLemma DEF LinkTypeInv, Stream
<1>3. PICK m \in 0..p.size + 5 :
        /\ \/ faults' = faults /\ m = p.size + 5
           \/ faults < MostFaults /\ faults' = faults + 1
        /\ wire' = wire \o SubSeq(cells, 1, m)
  <2> HIDE DEF cells
  <2>1. CASE wire' = wire \o cells /\ UNCHANGED faults
    <3>1. cells = SubSeq(cells, 1, p.size + 5)
      BY <1>1
    <3>2. p.size + 5 \in 0..p.size + 5
      BY <1>1
    <3>3. faults' = faults /\ wire' = wire \o SubSeq(cells, 1, p.size + 5)
      BY <2>1, <3>1
    <3> QED
      BY <3>2, <3>3
  <2>2. CASE /\ faults < MostFaults /\ faults' = faults + 1
             /\ \E n \in 0..Len(cells) - 1 : wire' = wire \o SubSeq(cells, 1, n)
    <3>1. PICK n \in 0..Len(cells) - 1 : wire' = wire \o SubSeq(cells, 1, n)
      BY <2>2
    <3>2. n \in 0..p.size + 5
      BY <1>1
    <3> QED
      BY <2>2, <3>1, <3>2
  <2> QED
    BY <2>1, <2>2 DEF PutOnWire, cells
<1> DEFINE part == SubSeq(cells, 1, m)
<1>4. part \in Seq(LinkCell) /\ Len(part) = m /\ \A i \in 1..m : part[i] = cells[i]
  <2> HIDE DEF cells
  <2> QED
    BY <1>1
<1>5. inBuffer \o (wire \o part) = Stream \o part
  <2> HIDE DEF part
  <2> QED
    BY <1>2, <1>4, ConcatAssociative, SMTT(20) DEF Stream
<1>6. wire' \in Seq(LinkCell) /\ inBuffer \o wire' = Stream \o part
  <2> HIDE DEF part
  <2>1. wire' = wire \o part
    BY <1>3 DEF part
  <2> QED
    BY <1>2, <1>4, <1>5, <2>1, JoinLemma
<1>7. /\ Stream \o part \in Seq(LinkCell) /\ Len(Stream \o part) = Len(Stream) + Len(part)
      /\ \A i \in 1..Len(Stream) : (Stream \o part)[i] = Stream[i]
      /\ \A i \in 1..Len(part) : (Stream \o part)[Len(Stream) + i] = part[i]
  <2> HIDE DEF part
  <2> QED
    BY <1>2, <1>4, JoinLemma, Zenon
<1> DEFINE t == inBuffer \o wire'
<1>8. /\ t \in Seq(LinkCell) /\ Len(t) = Len(Stream) + m
      /\ \A i \in 1..Len(Stream) : t[i] = Stream[i]
      /\ \A i \in 1..m : t[Len(Stream) + i] = part[i]
  <2> HIDE DEF part
  <2>1. t = Stream \o part
    BY <1>6
  <2> HIDE DEF t
  <2> QED
    BY <1>4, <1>7, <2>1
<1>9. \A i \in 1..m : t[Len(Stream) + i] = cells[i]
  <2> HIDE DEF part, t, cells
  <2> QED
    BY <1>4, <1>8
<1> HIDE DEF part
<1> WITNESS m \in 0..p.size + 5
<1> QED
  BY <1>3, <1>6, <1>8, <1>9, Zenon

\* Where the stream is cut after a packet was written, or a part of it.
LEMMA WriteKeepsCut ==
  ASSUME LinkInv, open, NEW p \in Packet, PutOnWire(CellsOf(p)), inBuffer' = inBuffer, open' = open
  PROVE  CutInv'
<1>1. faults \in Nat /\ Stream \in Seq(LinkCell)
  BY LinkAssumption, JoinLemma DEF LinkInv, LinkTypeInv, LinkTypeOK, Stream
<1>2. PICK m \in 0..p.size + 5 :
        /\ \/ faults' = faults /\ m = p.size + 5
           \/ faults < MostFaults /\ faults' = faults + 1
        /\ wire' \in Seq(LinkCell)
        /\ LET t == inBuffer \o wire'
           IN  /\ t \in Seq(LinkCell) /\ Len(t) = Len(Stream) + m
               /\ \A i \in 1..Len(Stream) : t[i] = Stream[i]
               /\ \A i \in 1..m : t[Len(Stream) + i] = CellsOf(p)[i]
  BY WireLemma DEF LinkInv
<1> DEFINE t == inBuffer \o wire'
<1>3. Stream' = t
  BY DEF Stream
<1>4. /\ t \in Seq(LinkCell) /\ Len(t) = Len(Stream) + m /\ Len(t) \in Int
      /\ \A i \in 1..Len(Stream) : t[i] = Stream[i]
      /\ \A i \in 1..m : t[Len(Stream) + i] = CellsOf(p)[i]
  BY <1>2
<1>5. p.size \in Nat /\ Len(Stream) \in Nat
  BY <1>1, PacketSize
<1> HIDE DEF t
<1>6. ASSUME faults' = faults, m = p.size + 5, NEW c, CutAt(Stream, c) PROVE CutAt(t, c)
  <2>1. Len(t) = Len(Stream) + p.size + 5
    BY <1>4, <1>5, <1>6
  <2>2. \A i \in 1..p.size + 5 : t[Len(Stream) + i] = CellsOf(p)[i]
    BY <1>4, <1>6
  <2> QED
    BY <1>1, <1>4, <1>6, <2>1, <2>2, WholeBehind
<1>7. ASSUME CutAt(Stream, -1) PROVE CutAt(t, Len(t))
  BY <1>1, <1>4, <1>7, PartBehind
<1>8. ASSUME faults' = 0 PROVE faults = 0 /\ CutAt(t, -1) /\ CutAt(inBuffer, Len(inBuffer))
  <2>1. faults = 0 /\ faults' = faults /\ m = p.size + 5
    BY <1>1, <1>2, <1>8
  <2>2. CutAt(Stream, -1) /\ CutAt(inBuffer, Len(inBuffer))
    BY <2>1 DEF LinkInv, CutInv
  <2> QED
    BY <1>6, <2>1, <2>2
<1>9. ASSUME faults' = 1 PROVE \E c \in Int : CutAt(t, c)
  <2>1. CASE faults = 0
    <3>1. CutAt(Stream, -1)
      BY <2>1 DEF LinkInv, CutInv
    <3> QED
      BY <1>4, <1>7, <3>1
  <2>2. CASE faults = 1
    <3>1. faults' = faults /\ m = p.size + 5
      BY <1>1, <1>2, <1>9, <2>2
    <3>2. PICK c \in Int : CutAt(Stream, c)
      BY <2>2 DEF LinkInv, CutInv
    <3> QED
      BY <1>6, <3>1, <3>2
  <2> QED
    BY <1>1, <1>2, <1>9, <2>1, <2>2
<1> QED
  BY <1>3, <1>8, <1>9 DEF CutInv

\* srpc_iterate writes the packet that waits first.
LEMMA OutKeeps ==
  ASSUME LinkInv, IterateOut PROVE LinkInv'
<1> DEFINE p == Head(outQueue)
<1>1. /\ open /\ toDevice /\ outQueue # << >> /\ PutOnWire(CellsOf(p)) /\ outQueue' = Tail(outQueue)
      /\ UNCHANGED <<toDevice, newer, rrId, inBuffer, beginTag, inQueue, got, open, called, sent>>
  BY DEF IterateOut, receiverVars
<1>2. outQueue \in Seq(Packet) /\ Len(outQueue) <= QueueSize /\ QueueSize \in Nat
  BY LinkAssumption DEF LinkInv, LinkTypeInv, LinkTypeOK
<1>3. /\ p \in Packet /\ p = outQueue[1] /\ Len(outQueue) \in Nat /\ Len(outQueue) > 0
      /\ Tail(outQueue) \in Seq(Packet) /\ Len(Tail(outQueue)) = Len(outQueue) - 1
      /\ \A i \in 1..Len(outQueue) - 1 : Tail(outQueue)[i] = outQueue[i + 1]
  BY <1>1, <1>2
<1> HIDE DEF p
<1>4. faults \in 0..MostFaults /\ MostFaults \in Nat /\ Stream \in Seq(LinkCell)
  BY LinkAssumption, JoinLemma DEF LinkInv, LinkTypeInv, LinkTypeOK, Stream
<1>5. PICK m \in 0..p.size + 5 :
        /\ \/ faults' = faults /\ m = p.size + 5
           \/ faults < MostFaults /\ faults' = faults + 1
        /\ wire' \in Seq(LinkCell)
        /\ LET t == inBuffer \o wire'
           IN  /\ t \in Seq(LinkCell) /\ Len(t) = Len(Stream) + m
               /\ \A i \in 1..Len(Stream) : t[i] = Stream[i]
               /\ \A i \in 1..m : t[Len(Stream) + i] = CellsOf(p)[i]
  BY <1>1, <1>3, WireLemma DEF LinkInv
<1> DEFINE t == inBuffer \o wire'
<1>6. Stream' = t /\ Took' = Took
  BY <1>1 DEF Stream, Took
<1>7. /\ t \in Seq(LinkCell) /\ Len(t) = Len(Stream) + m
      /\ \A i \in 1..Len(Stream) : t[i] = Stream[i]
      /\ \A i \in 1..m : t[Len(Stream) + i] = CellsOf(p)[i]
  BY <1>5
<1> HIDE DEF t
<1>8. LinkTypeInv'
  <2>1. faults' \in 0..MostFaults
    BY <1>4, <1>5
  <2>2. Len(outQueue') <= QueueSize /\ outQueue' \in Seq(Packet)
    BY <1>1, <1>2, <1>3
  <2>3. LinkTypeOK'
    BY <1>1, <2>1, <2>2 DEF LinkInv, LinkTypeInv, LinkTypeOK
  <2> QED
    BY <1>1, <1>5, <2>3 DEF LinkInv, LinkTypeInv
<1>9. CutInv'
  BY <1>1, <1>3, WriteKeepsCut
<1>10. PICK a \in 0..called, b \in 0..called :
         /\ a <= b /\ TakenFrom(Took, a, sent) /\ HeadsAre(Stream, a, b, sent)
         /\ Waiting(outQueue, b, sent)
  BY DEF LinkInv, LineInv, InLine
<1>11. /\ called \in Nat /\ Sends(sent, called) /\ sent \in Seq(Packet) /\ Len(sent) \in Nat
  BY LinkAssumption DEF LinkInv, LineInv, LinkTypeInv, LinkTypeOK
<1>12. /\ b < p.id /\ p.id \in Nat
       /\ \E j \in 1..Len(sent) : p = sent[j]
  BY <1>3, <1>10, PacketSize DEF Waiting
<1>13. p.id \in 0..called
  <2>1. PICK j \in 1..Len(sent) : p = sent[j]
    BY <1>12
  <2>2. p.id <= called
    BY <1>11, <2>1 DEF Sends
  <2> QED
    BY <1>11, <1>12, <2>2
<1>14. HeadsAre(t, a, p.id, sent)
  <2>1. a \in Int /\ b \in Int /\ a <= b /\ HeadsAre(Stream, a, b, sent)
    BY <1>10
  <2>2. Len(sent) <= Len(sent) /\ \A j \in 1..Len(sent) : sent[j] = sent[j]
    BY <1>11
  <2> QED
    BY <1>3, <1>4, <1>7, <1>11, <1>12, <2>1, <2>2, HeadsBehind, ZenonT(30)
<1>15. Waiting(Tail(outQueue), p.id, sent)
  <2>1. ASSUME NEW q \in 1..Len(Tail(outQueue))
        PROVE  /\ q + 1 \in 1..Len(outQueue) /\ Tail(outQueue)[q] = outQueue[q + 1] /\ 1 < q + 1
               /\ 1 \in 1..Len(outQueue)
    BY <1>3
  <2>2. ASSUME NEW q \in 1..Len(Tail(outQueue))
        PROVE  p.id < Tail(outQueue)[q].id /\ \E j \in 1..Len(sent) : Tail(outQueue)[q] = sent[j]
    BY <1>3, <1>10, <2>1 DEF Waiting
  <2>3. ASSUME NEW i \in 1..Len(Tail(outQueue)), NEW j \in 1..Len(Tail(outQueue)), i < j
        PROVE  Tail(outQueue)[i].id < Tail(outQueue)[j].id
    <3>1. i + 1 < j + 1
      BY <2>3
    <3> QED
      BY <1>10, <2>1, <3>1 DEF Waiting
  <2> QED
    BY <1>3, <2>2, <2>3 DEF Waiting
<1>16. LineInv'
  <2>1. a <= p.id
    BY <1>10, <1>12
  <2>2. InLine(Took, t, Tail(outQueue), sent, called)
    BY <1>10, <1>13, <1>14, <1>15, <2>1 DEF InLine
  <2> QED
    BY <1>1, <1>6, <1>11, <2>2 DEF LineInv
<1>17. FaultInv'
  <2>1. faults' = 0 => faults = 0 /\ m = p.size + 5
    BY <1>4, <1>5
  <2>2. faults > 1 => faults' > 1
    BY <1>4, <1>5
  <2>3. ASSUME faults' = 0 PROVE AllThere(Took, t, Tail(outQueue), sent)
    <3>1. AllThere(Took, Stream, outQueue, sent)
      BY <1>1, <2>1, <2>3 DEF LinkInv, FaultInv
    <3>2. Len(Stream) + 3 \in 1..Len(t) /\ t[Len(Stream) + 3] = <<"head", p>>
      <4>1. p.size \in Nat /\ Len(Stream) \in Nat /\ m = p.size + 5
        BY <1>3, <1>4, <2>1, <2>3, PacketSize
      <4>2. 3 \in 1..m /\ Len(Stream) + 3 \in 1..Len(t)
        <5>1. \A x \in Nat : m = x + 5 => 3 \in 1..m /\ Len(Stream) + 3 \in 1..Len(Stream) + m
          BY <4>1
        <5> QED
          BY <1>7, <4>1, <5>1
      <4> QED
        BY <1>3, <1>7, <4>2, CellsOfLemma
    <3>3. ASSUME NEW j \in 1..Len(sent), j > Len(Took)
          PROVE  \/ \E i \in 1..Len(t) : t[i] = <<"head", sent[j]>>
                 \/ \E q \in 1..Len(Tail(outQueue)) : Tail(outQueue)[q] = sent[j]
      <4>1. CASE \E i \in 1..Len(Stream) : Stream[i] = <<"head", sent[j]>>
        <5>1. \A i \in 1..Len(Stream) : i \in 1..Len(t) /\ t[i] = Stream[i]
          BY <1>4, <1>7
        <5> QED
          BY <4>1, <5>1
      <4>2. CASE \E q \in 1..Len(outQueue) : outQueue[q] = sent[j]
        <5>1. PICK q \in 1..Len(outQueue) : outQueue[q] = sent[j]
          BY <4>2
        <5>2. CASE q = 1
          BY <1>3, <3>2, <5>1, <5>2
        <5>3. CASE q # 1
          <6>1. q - 1 \in 1..Len(outQueue) - 1 /\ q - 1 + 1 = q
            BY <1>3, <5>3
          <6>2. q - 1 \in 1..Len(Tail(outQueue)) /\ Tail(outQueue)[q - 1] = outQueue[q]
            BY <1>3, <6>1
          <6> QED
            BY <5>1, <6>2
        <5> QED
          BY <5>2, <5>3
      <4> QED
        BY <3>1, <3>3, <4>1, <4>2 DEF AllThere
    <3> QED
      BY <3>3 DEF AllThere
  <2> QED
    BY <1>1, <1>6, <2>1, <2>2, <2>3 DEF LinkInv, FaultInv
<1> QED
  BY <1>8, <1>9, <1>16, <1>17 DEF LinkInv

\* srpc_async__call numbers a packet, and writes it or puts it into the queue.
LEMMA CallKeeps ==
  ASSUME LinkInv, NEW size \in DataSizes, AsyncCall(size) PROVE LinkInv'
<1> DEFINE p == [id |-> called + 1, rrId |-> rrId', size |-> size, whole |-> TRUE]
           refused == size > LongestData \/ (toDevice /\ Len(outQueue) >= QueueSize)
<1>1. /\ open /\ called < MostCalls /\ called' = called + 1 /\ rrId' = NextRrId(rrId)
      /\ sent' = IF refused \/ rrId' = 0 THEN sent ELSE Append(sent, p)
      /\ outQueue' = IF toDevice /\ ~refused THEN Append(outQueue, p) ELSE outQueue
      /\ IF toDevice \/ refused THEN UNCHANGED <<wire, faults>> ELSE PutOnWire(CellsOf(p))
      /\ UNCHANGED <<toDevice, newer, inBuffer, beginTag, inQueue, got, open>>
  BY DEF AsyncCall, receiverVars
<1>2. /\ called \in 0..MostCalls /\ rrId \in 0..RrIds - 1 /\ MostCalls \in Nat
      /\ RrIds \in Nat /\ RrIds > 2 /\ LongestData \in Nat /\ size \in Nat /\ QueueSize \in Nat
      /\ faults \in 0..MostFaults /\ MostFaults \in Nat /\ toDevice \in BOOLEAN
  BY LinkAssumption DEF LinkInv, LinkTypeInv, LinkTypeOK
<1>3. rrId' \in 1..RrIds - 1
  BY <1>1, <1>2 DEF NextRrId
<1>4. called \in Nat /\ called' \in 0..MostCalls /\ called + 1 \in 1..MostCalls
  BY <1>1, <1>2
<1>5. ~refused => p \in Packet
  <2>1. size <= LongestData => size \in 0..LongestData
    BY <1>2
  <2>2. ~refused => size <= LongestData
    BY <1>2
  <2> QED
    BY <1>3, <1>4, <2>1, <2>2 DEF Packet
<1>6. p.id = called + 1 /\ p.whole
  OBVIOUS
<1>7. rrId' # 0
  BY <1>2, <1>3
<1> HIDE DEF p
<1>8. Took' = Took
  BY <1>1 DEF Took
<1>9. /\ Sends(sent, called) /\ sent \in Seq(Packet) /\ Len(sent) \in Nat
      /\ outQueue \in Seq(Packet) /\ Len(outQueue) <= QueueSize
      /\ Stream \in Seq(LinkCell) /\ Len(Stream) \in Nat /\ wire \in Seq(LinkCell)
      /\ (~toDevice => outQueue = << >>)
  <2>1. /\ inBuffer \in Seq(LinkCell) /\ wire \in Seq(LinkCell)
        /\ outQueue \in Seq(Packet) /\ Len(outQueue) <= QueueSize
        /\ (~toDevice => outQueue = << >>)
    BY DEF LinkInv, LinkTypeInv, LinkTypeOK
  <2>2. Sends(sent, called)
    BY DEF LinkInv, LineInv
  <2>3. sent \in Seq(Packet) /\ Len(sent) \in Nat
    BY <2>2 DEF Sends
  <2>4. Stream \in Seq(LinkCell) /\ Len(Stream) \in Nat
    BY <2>1, JoinLemma DEF Stream
  <2> QED
    BY <2>1, <2>2, <2>3, <2>4
<1>10. PICK a \in 0..called, b \in 0..called :
         /\ a <= b /\ TakenFrom(Took, a, sent) /\ HeadsAre(Stream, a, b, sent)
         /\ Waiting(outQueue, b, sent)
  BY DEF LinkInv, LineInv, InLine
<1>11. /\ a \in 0..called + 1 /\ b \in 0..called + 1 /\ a \in Int /\ b \in Int /\ b \in Nat
       /\ a <= b /\ b <= called /\ called + 1 \in 0..called + 1
  BY <1>4, <1>10
<1>12. CASE refused
  <2>1. UNCHANGED <<sent, outQueue, wire, faults>> /\ Stream' = Stream
    BY <1>1, <1>12 DEF Stream
  <2>2. Sends(sent, called + 1)
    <3>1. \A x \in Nat : x <= called => x <= called + 1
      BY <1>4
    <3>2. \A j \in 1..Len(sent) : sent[j] \in Packet
      BY <1>9
    <3> QED
      BY <1>9, <3>1, <3>2, PacketSize, Zenon DEF Sends
  <2>3. LineInv'
    <3>1. InLine(Took, Stream, outQueue, sent, called + 1)
      BY <1>10, <1>11, Zenon DEF InLine
    <3> QED
      BY <1>1, <1>8, <2>1, <2>2, <3>1 DEF LineInv
  <2>4. CutInv' /\ FaultInv'
    BY <1>1, <1>8, <2>1 DEF LinkInv, CutInv, FaultInv
  <2>5. LinkTypeInv'
    <3>1. rrId' \in 0..RrIds - 1
      BY <1>2, <1>3
    <3> QED
      BY <1>1, <1>4, <2>1, <3>1 DEF LinkInv, LinkTypeInv, LinkTypeOK
  <2> QED
    BY <2>3, <2>4, <2>5 DEF LinkInv
<1>13. CASE ~refused
  <2> DEFINE all == Append(sent, p)
  <2>1. p \in Packet /\ sent' = all
    BY <1>1, <1>5, <1>7, <1>13
  <2>2. /\ Sends(all, called + 1)
        /\ \A took : \A x : TakenFrom(took, x, sent) => TakenFrom(took, x, all)
        /\ \A s, x, y : HeadsAre(s, x, y, sent) => HeadsAre(s, x, y, all)
        /\ \A out : \A y \in 0..called : Waiting(out, y, sent) => Waiting(out, y, all)
    BY <1>4, <1>6, <1>9, <2>1, SendLemma
  <2>3. /\ all \in Seq(Packet) /\ Len(all) = Len(sent) + 1
        /\ \A i \in 1..Len(sent) : all[i] = sent[i]
        /\ all[Len(sent) + 1] = p
        /\ \A i \in 1..Len(all) : i \in 1..Len(sent) \/ i = Len(sent) + 1
    BY <1>9, <2>1, OneMore
  <2> HIDE DEF all
  <2>4. rrId' \in 0..RrIds - 1
    BY <1>2, <1>3
  <2>5. Begun(Took, sent) => Begun(Took, all)
    <3> SUFFICES ASSUME Begun(Took, sent) PROVE Begun(Took, all)
      OBVIOUS
    <3>1. Took \in Seq(Packet) /\ Len(Took) \in Nat
      BY <1>10 DEF TakenFrom
    <3>2. Len(Took) <= Len(all) /\ \A k \in 1..Len(Took) : k \in 1..Len(sent)
      BY <1>9, <2>3, <3>1 DEF Begun
    <3> QED
      BY <2>3, <3>2 DEF Begun
  <2>6. CASE toDevice
    <3>1. UNCHANGED <<wire, faults>> /\ Stream' = Stream /\ outQueue' = Append(outQueue, p)
      BY <1>1, <1>13, <2>6 DEF Stream
    <3>2. Waiting(Append(outQueue, p), b, all)
      BY <1>4, <1>6, <1>9, <1>10, <1>11, <2>1, QueueLemma DEF all
    <3>3. LineInv'
      <4>1. TakenFrom(Took, a, all) /\ HeadsAre(Stream, a, b, all)
        BY <1>10, <2>2
      <4>2. InLine(Took, Stream, Append(outQueue, p), all, called + 1)
        BY <1>11, <3>2, <4>1, Zenon DEF InLine
      <4> QED
        BY <1>1, <1>8, <2>1, <2>2, <3>1, <4>2 DEF LineInv
    <3>4. /\ Append(outQueue, p) \in Seq(Packet) /\ Len(Append(outQueue, p)) = Len(outQueue) + 1
          /\ \A i \in 1..Len(outQueue) : Append(outQueue, p)[i] = outQueue[i]
          /\ Append(outQueue, p)[Len(outQueue) + 1] = p
      BY <1>9, <2>1, OneMore
    <3>5. Len(outQueue) < QueueSize /\ Len(outQueue) \in Nat
      BY <1>2, <1>9, <1>13, <2>6
    <3>6. AllThere(Took, Stream, outQueue, sent) => AllThere(Took, Stream, Append(outQueue, p), all)
      <4> SUFFICES ASSUME AllThere(Took, Stream, outQueue, sent), NEW j \in 1..Len(all), j > Len(Took)
                   PROVE  \/ \E i \in 1..Len(Stream) : Stream[i] = <<"head", all[j]>>
                          \/ \E q \in 1..Len(Append(outQueue, p)) : Append(outQueue, p)[q] = all[j]
        BY Zenon DEF AllThere
      <4>1. CASE j = Len(sent) + 1
        <5>1. Len(outQueue) + 1 \in 1..Len(Append(outQueue, p))
          BY <3>4, <3>5
        <5> QED
          BY <2>3, <3>4, <4>1, <5>1
      <4>2. CASE j \in 1..Len(sent)
        <5>1. \A q \in 1..Len(outQueue) : q \in 1..Len(Append(outQueue, p))
          BY <3>4, <3>5
        <5> QED
          BY <2>3, <3>4, <4>2, <5>1 DEF AllThere
      <4> QED
        BY <2>3, <4>1, <4>2
    <3>7. FaultInv'
      BY <1>1, <1>8, <2>1, <2>5, <3>1, <3>6 DEF LinkInv, FaultInv
    <3>8. CutInv'
      BY <1>1, <3>1 DEF LinkInv, CutInv
    <3>9. LinkTypeInv'
      <4>1. Len(outQueue') <= QueueSize
        BY <1>2, <3>1, <3>4, <3>5
      <4> QED
        BY <1>1, <1>4, <2>1, <2>3, <2>4, <2>6, <3>1, <3>4, <4>1 DEF LinkInv, LinkTypeInv, LinkTypeOK
    <3> QED
      BY <3>3, <3>7, <3>8, <3>9 DEF LinkInv
  <2>7. CASE ~toDevice
    <3>1. PutOnWire(CellsOf(p)) /\ outQueue' = << >> /\ outQueue = << >>
      BY <1>1, <1>9, <1>13, <2>7
    <3>2. PICK m \in 0..p.size + 5 :
            /\ \/ faults' = faults /\ m = p.size + 5
               \/ faults < MostFaults /\ faults' = faults + 1
            /\ wire' \in Seq(LinkCell)
            /\ LET t == inBuffer \o wire'
               IN  /\ t \in Seq(LinkCell) /\ Len(t) = Len(Stream) + m
                   /\ \A i \in 1..Len(Stream) : t[i] = Stream[i]
                   /\ \A i \in 1..m : t[Len(Stream) + i] = CellsOf(p)[i]
      BY <2>1, <3>1, WireLemma DEF LinkInv
    <3> DEFINE t == inBuffer \o wire'
    <3>3. Stream' = t
      BY <1>1 DEF Stream
    <3>4. /\ t \in Seq(LinkCell) /\ Len(t) = Len(Stream) + m
          /\ \A i \in 1..Len(Stream) : t[i] = Stream[i]
          /\ \A i \in 1..m : t[Len(Stream) + i] = CellsOf(p)[i]
      BY <3>2
    <3> HIDE DEF t
    <3>5. CutInv'
      BY <1>1, <2>1, <3>1, WriteKeepsCut
    <3>6. LinkTypeInv'
      <4>1. faults' \in 0..MostFaults
        BY <1>2, <3>2, SMTT(20)
      <4> QED
        BY <1>1, <1>4, <2>1, <2>3, <2>4, <2>7, <3>1, <3>2, <4>1 DEF LinkInv, LinkTypeInv, LinkTypeOK
    <3>7. HeadsAre(t, a, p.id, all)
      <4>1. HeadsAre(Stream, a, b, sent)
        BY <1>10
      <4>3. Len(sent) <= Len(all) /\ Len(all) \in Nat
        BY <1>9, <2>3
      <4>6. /\ Stream \in Seq(LinkCell) /\ Len(sent) \in Nat /\ p \in Packet
            /\ a \in Int /\ b \in Int /\ a <= b /\ \A j \in 1..Len(sent) : all[j] = sent[j]
        BY <1>9, <1>11, <2>1, <2>3
      <4>5. b < p.id
        BY <1>4, <1>6, <1>11
      <4>2. \E j \in 1..Len(all) : p = all[j]
        <5>1. Len(sent) + 1 \in 1..Len(all)
          BY <1>9, <2>3
        <5> QED
          BY <2>3, <5>1
      <4> QED
        BY <3>4, <4>1, <4>2, <4>3, <4>5, <4>6, HeadsBehind, Zenon
    <3>8. LineInv'
      <4>1. TakenFrom(Took, a, all)
        BY <1>10, <2>2
      <4>2. Waiting(<< >>, p.id, all)
        BY DEF Waiting
      <4>3. a <= p.id /\ p.id \in 0..called + 1
        BY <1>4, <1>6, <1>11
      <4>4. InLine(Took, t, << >>, all, called + 1)
        BY <1>11, <3>7, <4>1, <4>2, <4>3, Zenon DEF InLine
      <4> QED
        BY <1>1, <1>8, <2>1, <2>2, <3>1, <3>3, <4>4 DEF LineInv
    <3>9. faults' = 0 => faults = 0 /\ m = p.size + 5
      BY <1>2, <3>2
    <3>10. faults > 1 => faults' > 1
      BY <1>2, <3>2
    <3>11. ASSUME faults' = 0 PROVE AllThere(Took, t, << >>, all)
      <4>1. AllThere(Took, Stream, << >>, sent)
        BY <1>1, <3>1, <3>9, <3>11 DEF LinkInv, FaultInv
      <4>2. Len(Stream) + 3 \in 1..Len(t) /\ t[Len(Stream) + 3] = <<"head", p>>
        <5>1. p.size \in Nat /\ m = p.size + 5
          BY <2>1, <3>9, <3>11, PacketSize
        <5>2. \A x \in Nat : m = x + 5 => 3 \in 1..m /\ Len(Stream) + 3 \in 1..Len(Stream) + m
          BY <1>9
        <5>3. 3 \in 1..m /\ Len(Stream) + 3 \in 1..Len(t)
          BY <3>4, <5>1, <5>2
        <5> QED
          BY <2>1, <3>4, <5>3, CellsOfLemma
      <4> SUFFICES ASSUME NEW j \in 1..Len(all), j > Len(Took)
                   PROVE  \E i \in 1..Len(t) : t[i] = <<"head", all[j]>>
        BY DEF AllThere
      <4>3. CASE j = Len(sent) + 1
        BY <2>3, <4>2, <4>3
      <4>4. CASE j \in 1..Len(sent)
        <5>3. ~(\E q \in 1..Len(<< >>) : << >>[q] = sent[j])
          OBVIOUS
        <5>1. PICK i \in 1..Len(Stream) : Stream[i] = <<"head", sent[j]>>
          BY <4>1, <4>4, <5>3, Zenon DEF AllThere
        <5>2. i \in 1..Len(t) /\ t[i] = Stream[i]
          BY <1>9, <3>4
        <5> QED
          BY <2>3, <4>4, <5>1, <5>2
      <4> QED
        BY <2>3, <4>3, <4>4
    <3>12. FaultInv'
      BY <1>1, <1>8, <2>1, <2>5, <3>1, <3>3, <3>9, <3>10, <3>11 DEF LinkInv, FaultInv
    <3> QED
      BY <3>5, <3>6, <3>8, <3>12 DEF LinkInv
  <2> QED
    BY <2>6, <2>7
<1> QED
  BY <1>12, <1>13

\* A connection is lost and made again.
LEMMA ReconnectKeeps ==
  ASSUME LinkInv, Reconnect PROVE LinkInv'
<1>1. /\ faults < MostFaults /\ faults' = faults + 1 /\ open' = TRUE /\ wire' = << >> /\ outQueue' = << >>
      /\ IF toDevice THEN UNCHANGED <<inBuffer, beginTag, inQueue>>
           ELSE inBuffer' = << >> /\ beginTag' = FALSE /\ inQueue' = << >>
      /\ UNCHANGED <<toDevice, newer, rrId, called, sent, got>>
  BY DEF Reconnect
<1>2. /\ faults \in 0..MostFaults /\ MostFaults \in Nat /\ toDevice \in BOOLEAN
      /\ inBuffer \in Seq(LinkCell) /\ wire \in Seq(LinkCell) /\ got \in Seq(Packet)
      /\ QueueSize \in Nat /\ BufferMax \in Nat /\ 0 < BufferMax
  BY LinkAssumption, SMTT(20) DEF LinkInv, LinkTypeInv, LinkTypeOK, HeaderSize, TagCells
<1>3. faults \in Nat /\ faults' \in 0..MostFaults /\ faults' # 0 /\ (faults' = 1 => faults = 0)
      /\ (faults > 1 => faults' > 1)
  BY <1>1, <1>2
<1>4. PICK a \in 0..called, b \in 0..called :
         /\ a <= b /\ TakenFrom(Took, a, sent) /\ HeadsAre(Stream, a, b, sent)
         /\ Waiting(outQueue, b, sent)
  BY DEF LinkInv, LineInv, InLine
<1>5. /\ << >> \in Seq(LinkCell) /\ << >> \in Seq(Packet) /\ Len(<< >>) = 0
      /\ << >> \o << >> = << >> /\ inBuffer \o << >> = inBuffer /\ got \o << >> = got
  BY <1>2
<1>6. Waiting(<< >>, b, sent)
  BY <1>5 DEF Waiting
<1>7. CASE toDevice
  <2>1. UNCHANGED <<inBuffer, beginTag, inQueue>> /\ Stream' = inBuffer /\ Took' = Took
    BY <1>1, <1>5, <1>7 DEF Stream, Took
  <2>2. HeadsAre(inBuffer, a, b, sent)
    <3>1. /\ Stream \in Seq(LinkCell) /\ Len(Stream) \in Nat /\ Len(inBuffer) \in Nat
          /\ Len(inBuffer) <= Len(Stream) /\ \A i \in 1..Len(inBuffer) : Stream[i] = inBuffer[i]
      BY <1>2, JoinLemma DEF Stream
    <3> DEFINE f == [i \in 1..Len(inBuffer) |-> i]
    <3>2. /\ f \in [1..Len(inBuffer) -> 1..Len(Stream)]
          /\ \A i \in 1..Len(inBuffer) : f[i] = i
      BY <3>1
    <3> HIDE DEF f
    <3>3. \A i \in 1..Len(inBuffer) : inBuffer[i] = Stream[f[i]]
      BY <3>1, <3>2
    <3>4. \A i, j \in 1..Len(inBuffer) : i < j => f[i] < f[j]
      BY <3>2
    <3> QED
      BY <1>2, <1>4, <3>1, <3>2, <3>3, <3>4, HeadsLeft, Zenon
  <2>3. LineInv'
    <3>1. InLine(Took, inBuffer, << >>, sent, called)
      BY <1>4, <1>6, <2>2, Zenon DEF InLine
    <3> QED
      BY <1>1, <2>1, <3>1 DEF LinkInv, LineInv
  <2>4. CutInv'
    <3>1. faults' = 1 => CutAt(inBuffer, Len(inBuffer)) /\ Len(inBuffer) \in Int
      BY <1>2, <1>3 DEF LinkInv, CutInv
    <3> QED
      BY <1>3, <2>1, <3>1 DEF CutInv
  <2>5. FaultInv'
    <3>1. \A k \in 1..Len(Took) : Took[k].whole \/ faults' > 1 \/ Took[k].size >= 3
      BY <1>3 DEF LinkInv, FaultInv
    <3> QED
      BY <1>1, <1>3, <2>1, <3>1 DEF FaultInv
  <2>6. LinkTypeInv'
    <3>1. Len(outQueue') <= QueueSize /\ outQueue' \in Seq(Packet)
      BY <1>1, <1>2, <1>5
    <3>2. {toDevice, newer, open, beginTag}' \subseteq BOOLEAN
      BY <1>1, <2>1 DEF LinkInv, LinkTypeInv, LinkTypeOK
    <3> QED
      BY <1>1, <1>3, <1>5, <1>7, <2>1, <3>1, <3>2 DEF LinkInv, LinkTypeInv, LinkTypeOK
  <2> QED
    BY <2>3, <2>4, <2>5, <2>6 DEF LinkInv
<1>8. CASE ~toDevice
  <2>1. inBuffer' = << >> /\ beginTag' = FALSE /\ inQueue' = << >> /\ Stream' = << >> /\ Took' = got
    BY <1>1, <1>5, <1>8 DEF Stream, Took
  <2>2. /\ Took \in Seq(Packet) /\ Len(got) \in Nat /\ Len(got) <= Len(Took)
        /\ \A i \in 1..Len(got) : i \in 1..Len(Took) /\ Took[i] = got[i]
    <3>1. inQueue \in Seq(Packet)
      BY DEF LinkInv, LinkTypeInv, LinkTypeOK
    <3> QED
      BY <1>2, <3>1 DEF Took
  <2>3. TakenFrom(got, a, sent)
    <3>1. ASSUME NEW g \in 1..Len(got)
          PROVE  got[g].id <= a /\ \E j \in 1..Len(sent) : [got[g] EXCEPT !.whole = TRUE] = sent[j]
      <4>1. g \in 1..Len(Took) /\ Took[g] = got[g]
        BY <2>2
      <4>2. Took[g].id <= a /\ \E j \in 1..Len(sent) : [Took[g] EXCEPT !.whole = TRUE] = sent[j]
        BY <1>4, <4>1, Zenon DEF TakenFrom
      <4> QED
        BY <4>1, <4>2
    <3>2. ASSUME NEW i \in 1..Len(got), NEW j \in 1..Len(got), i < j PROVE got[i].id < got[j].id
      <4>1. i \in 1..Len(Took) /\ Took[i] = got[i] /\ j \in 1..Len(Took) /\ Took[j] = got[j]
        BY <2>2
      <4> QED
        BY <1>4, <3>2, <4>1 DEF TakenFrom
    <3> QED
      BY <1>2, <3>1, <3>2 DEF TakenFrom
  <2>4. HeadsAre(<< >>, a, b, sent)
    BY <1>5 DEF HeadsAre
  <2>5. LineInv'
    <3>1. InLine(got, << >>, << >>, sent, called)
      BY <1>4, <1>6, <2>3, <2>4, Zenon DEF InLine
    <3> QED
      BY <1>1, <2>1, <3>1 DEF LinkInv, LineInv
  <2>6. CutInv'
    <3>1. CutAt(<< >>, 0)
      BY <1>5 DEF CutAt, KeptButCut, Resumes
    <3> QED
      BY <1>3, <2>1, <3>1 DEF CutInv
  <2>7. FaultInv'
    <3>1. \A k \in 1..Len(got) : got[k].whole \/ faults' > 1 \/ got[k].size >= 3
      BY <1>3, <2>2 DEF LinkInv, FaultInv
    <3> QED
      BY <1>3, <2>1, <3>1 DEF FaultInv
  <2>8. LinkTypeInv'
    <3>1. /\ Len(outQueue') <= QueueSize /\ outQueue' \in Seq(Packet)
          /\ Len(inQueue') <= QueueSize /\ inQueue' \in Seq(Packet) /\ Len(inBuffer') < BufferMax
      BY <1>1, <1>2, <1>5, <2>1
    <3>2. {toDevice, newer, open, beginTag}' \subseteq BOOLEAN
      BY <1>1, <2>1 DEF LinkInv, LinkTypeInv, LinkTypeOK
    <3> QED
      BY <1>1, <1>3, <1>5, <1>8, <2>1, <3>1, <3>2 DEF LinkInv, LinkTypeInv, LinkTypeOK
  <2> QED
    BY <2>5, <2>6, <2>7, <2>8 DEF LinkInv
<1> QED
  BY <1>7, <1>8

\* The first packet of the input queue is taken.
LEMMA GetKeeps ==
  ASSUME LinkInv, GetData PROVE LinkInv'
<1>1. /\ inQueue # << >> /\ got' = Append(got, Head(inQueue)) /\ inQueue' = Tail(inQueue)
      /\ UNCHANGED <<toDevice, newer, rrId, outQueue, called, sent, wire, inBuffer, beginTag, open, faults>>
  BY DEF GetData, senderVars
<1>2. got \in Seq(Packet) /\ inQueue \in Seq(Packet) /\ Len(inQueue) <= QueueSize /\ QueueSize \in Nat
  BY LinkAssumption DEF LinkInv, LinkTypeInv, LinkTypeOK
<1>3. /\ Head(inQueue) \in Packet /\ Tail(inQueue) \in Seq(Packet) /\ Len(Tail(inQueue)) <= QueueSize
      /\ Append(got, Head(inQueue)) \in Seq(Packet)
  BY <1>1, <1>2
<1>4. Took' = Took
  <2>1. Append(got, Head(inQueue)) \o Tail(inQueue) = got \o inQueue
    BY <1>1, <1>2, <1>3
  <2> QED
    BY <1>1, <2>1 DEF Took
<1>5. Stream' = Stream
  BY <1>1 DEF Stream
<1>6. LinkTypeInv'
  <2>1. ~toDevice
    BY <1>1 DEF LinkInv, LinkTypeInv
  <2> QED
    BY <1>1, <1>3, <2>1 DEF LinkInv, LinkTypeInv, LinkTypeOK
<1>7. CutInv' /\ LineInv' /\ FaultInv'
  BY <1>1, <1>4, <1>5 DEF LinkInv, CutInv, LineInv, FaultInv
<1> QED
  BY <1>6, <1>7 DEF LinkInv

-----------------------------------------------------------------------------
\* What is in the buffer when n cells have come, and what is left on the wire.
Here(n) == inBuffer \o SubSeq(wire, 1, n)
Ahead(n) == SubSeq(wire, n + 1, Len(wire))

\* Both together are the stream.
LEMMA HereLemma ==
  ASSUME inBuffer \in Seq(LinkCell), wire \in Seq(LinkCell), NEW n \in 0..Len(wire)
  PROVE  /\ Stream \in Seq(LinkCell) /\ Here(n) \in Seq(LinkCell) /\ Ahead(n) \in Seq(LinkCell)
         /\ Len(Here(n)) = Len(inBuffer) + n /\ Len(Ahead(n)) = Len(wire) - n
         /\ Len(Stream) = Len(inBuffer) + Len(wire) /\ Len(Here(n)) <= Len(Stream)
         /\ \A i \in 1..Len(inBuffer) : Here(n)[i] = inBuffer[i] /\ Stream[i] = inBuffer[i]
         /\ \A i \in 1..Len(Here(n)) : Here(n)[i] = Stream[i]
         /\ \A i \in 1..Len(Ahead(n)) : Ahead(n)[i] = Stream[Len(Here(n)) + i]
<1> DEFINE came == SubSeq(wire, 1, n)
<1>1. /\ came \in Seq(LinkCell) /\ Len(came) = n /\ \A i \in 1..n : came[i] = wire[i]
      /\ Ahead(n) \in Seq(LinkCell) /\ Len(Ahead(n)) = Len(wire) - n
      /\ \A i \in 1..Len(wire) - n : Ahead(n)[i] = wire[i + n]
  BY RestLemma DEF Ahead
<1> HIDE DEF came
<1>2. /\ inBuffer \o came \in Seq(LinkCell) /\ Len(inBuffer \o came) = Len(inBuffer) + Len(came)
      /\ \A i \in 1..Len(inBuffer) : (inBuffer \o came)[i] = inBuffer[i]
      /\ \A i \in 1..Len(came) : (inBuffer \o came)[Len(inBuffer) + i] = came[i]
  BY <1>1, JoinLemma, Zenon
<1>3. /\ Stream \in Seq(LinkCell) /\ Len(Stream) = Len(inBuffer) + Len(wire)
      /\ \A i \in 1..Len(inBuffer) : Stream[i] = inBuffer[i]
      /\ \A i \in 1..Len(wire) : Stream[Len(inBuffer) + i] = wire[i]
  BY JoinLemma, Zenon DEF Stream
<1> DEFINE here == inBuffer \o came
<1>4. here = Here(n)
  BY DEF Here, came
<1>5. /\ here \in Seq(LinkCell) /\ Len(here) = Len(inBuffer) + n
      /\ \A i \in 1..Len(inBuffer) : here[i] = inBuffer[i]
      /\ \A i \in 1..n : here[Len(inBuffer) + i] = wire[i]
  BY <1>1, <1>2
<1> HIDE DEF here
<1>6. Len(inBuffer) \in Nat /\ Len(wire) \in Nat /\ n \in Nat /\ n <= Len(wire)
  OBVIOUS
<1>7. ASSUME NEW i \in 1..Len(here) PROVE here[i] = Stream[i]
  <2>1. CASE i \in 1..Len(inBuffer)
    BY <1>3, <1>5, <2>1
  <2>2. CASE i \notin 1..Len(inBuffer)
    <3>1. i - Len(inBuffer) \in 1..n /\ Len(inBuffer) + (i - Len(inBuffer)) = i
          /\ i - Len(inBuffer) \in 1..Len(wire)
      BY <1>5, <1>6, <2>2
    <3>2. here[i] = wire[i - Len(inBuffer)]
      BY <1>5, <3>1
    <3>3. Stream[i] = wire[i - Len(inBuffer)]
      BY <1>3, <3>1
    <3> QED
      BY <3>2, <3>3
  <2> QED
    BY <2>1, <2>2
<1>8. ASSUME NEW i \in 1..Len(Ahead(n)) PROVE Ahead(n)[i] = Stream[Len(here) + i]
  <2>1. i \in 1..Len(wire) - n
    BY <1>1, <1>8
  <2>2. i + n \in 1..Len(wire) /\ Len(here) + i = Len(inBuffer) + (i + n)
    BY <1>5, <1>6, <2>1
  <2>3. Ahead(n)[i] = wire[i + n]
    BY <1>1, <2>1
  <2> QED
    BY <1>3, <2>2, <2>3
<1>9. Len(here) <= Len(Stream)
  BY <1>3, <1>5, <1>6
<1> QED
  BY <1>1, <1>3, <1>4, <1>5, <1>7, <1>8, <1>9

\* Where a stream without a cut is cut is anywhere before it.
LEMMA NoCut ==
  ASSUME NEW s \in Seq(LinkCell), NEW c, CutAt(s, c), c < 0 PROVE CutAt(s, -1)
<1>1. c \in Int /\ KeptButCut(s, c) /\ Len(s) \in Nat /\ \A i \in 1..Len(s) : ~(i <= c) /\ ~(i <= -1)
  BY DEF CutAt
<1>2. KeptButCut(s, -1)
  BY <1>1, Zenon DEF KeptButCut
<1>3. -1 <= Len(s) /\ ~(0 <= -1) /\ -1 \in Int
  BY <1>1
<1> QED
  BY <1>2, <1>3 DEF CutAt, Resumes

\* A packet, with what is said of its data.
LEMMA SaidLemma ==
  \A p \in Packet : \A w \in BOOLEAN :
    LET q == [p EXCEPT !.whole = w]
    IN  /\ q \in Packet /\ q.id = p.id /\ q.size = p.size /\ q.whole = w
        /\ [q EXCEPT !.whole = TRUE] = [p EXCEPT !.whole = TRUE]
        /\ p.whole => [p EXCEPT !.whole = TRUE] = p
<1> SUFFICES ASSUME NEW p \in Packet, NEW w \in BOOLEAN
             PROVE  LET q == [p EXCEPT !.whole = w]
                    IN  /\ q \in Packet /\ q.id = p.id /\ q.size = p.size /\ q.whole = w
                        /\ [q EXCEPT !.whole = TRUE] = [p EXCEPT !.whole = TRUE]
                        /\ p.whole => [p EXCEPT !.whole = TRUE] = p
  OBVIOUS
<1> DEFINE q == [p EXCEPT !.whole = w]
<1>1. p = [id |-> p.id, rrId |-> p.rrId, size |-> p.size, whole |-> p.whole]
      /\ p.id \in 1..MostCalls /\ p.rrId \in 1..RrIds - 1 /\ p.size \in 0..LongestData /\ p.whole \in BOOLEAN
  BY DEF Packet
<1>8. \A x \in Packet : \A v \in BOOLEAN :
        [x EXCEPT !.whole = v] = [id |-> x.id, rrId |-> x.rrId, size |-> x.size, whole |-> v]
  BY DEF Packet
<1>2. q = [id |-> p.id, rrId |-> p.rrId, size |-> p.size, whole |-> w]
  BY <1>1
<1>3. [p EXCEPT !.whole = TRUE] = [id |-> p.id, rrId |-> p.rrId, size |-> p.size, whole |-> TRUE]
  <2>1. TRUE \in BOOLEAN
    OBVIOUS
  <2> QED
    BY <1>8, <2>1, Zenon
<1>4. [q EXCEPT !.whole = TRUE] = [id |-> p.id, rrId |-> p.rrId, size |-> p.size, whole |-> TRUE]
  <2>1. TRUE \in BOOLEAN /\ q \in Packet
    BY <1>1, <1>2 DEF Packet
  <2>2. q.id = p.id /\ q.size = p.size /\ q.rrId = p.rrId
    BY <1>2
  <2> HIDE DEF q
  <2>3. [q EXCEPT !.whole = TRUE] = [id |-> q.id, rrId |-> q.rrId, size |-> q.size, whole |-> TRUE]
    BY <1>8, <2>1, Zenon
  <2> QED
    BY <2>2, <2>3
<1>5. p.whole => p = [id |-> p.id, rrId |-> p.rrId, size |-> p.size, whole |-> TRUE]
  BY <1>1
<1>6. q \in Packet
  BY <1>1, <1>2 DEF Packet
<1>7. q.id = p.id /\ q.size = p.size /\ q.whole = w
  BY <1>2
<1> HIDE DEF q
<1> QED
  BY <1>3, <1>4, <1>5, <1>6, <1>7 DEF q

\* Behind a header come those of later calls.
LEMMA HeadsAfter ==
  ASSUME NEW s \in Seq(LinkCell), NEW a, NEW b, NEW sends, HeadsAre(s, a, b, sends),
         NEW p \in Packet, s[3] = <<"head", p>>, p.size + 5 <= Len(s),
         NEW t \in Seq(LinkCell), Len(t) = Len(s) - (p.size + 5),
         \A i \in 1..Len(t) : t[i] = s[i + (p.size + 5)]
  PROVE  HeadsAre(t, a, b, sends) /\ HeadsAre(t, p.id, b, sends)
<1>1. /\ p.size \in Nat /\ Len(s) \in Nat /\ p.id \in Int /\ 3 \in 1..Len(s)
      /\ s[3][1] = "head" /\ s[3][2] = p
  BY PacketSize
<1>2. ASSUME NEW i \in 1..Len(t)
      PROVE  i + (p.size + 5) \in 1..Len(s) /\ 3 < i + (p.size + 5)
  <2>1. \A x \in Nat : Len(t) = Len(s) - (x + 5) => i + (x + 5) \in 1..Len(s) /\ 3 < i + (x + 5)
    BY <1>1
  <2> QED
    BY <1>1, <2>1, Zenon
<1> DEFINE f == [i \in 1..Len(t) |-> i + (p.size + 5)]
<1>3. f \in [1..Len(t) -> 1..Len(s)] /\ \A i \in 1..Len(t) : f[i] = i + (p.size + 5)
  BY <1>2
<1> HIDE DEF f
<1>4. \A i, j \in 1..Len(t) : i < j => f[i] < f[j]
  <2>1. \A x \in Nat : \A i, j \in 1..Len(t) : i < j => i + (x + 5) < j + (x + 5)
    OBVIOUS
  <2>2. \A i, j \in 1..Len(t) : i < j => i + (p.size + 5) < j + (p.size + 5)
    BY <1>1, <2>1, Zenon
  <2> QED
    BY <1>3, <2>2
<1>5. HeadsAre(t, a, b, sends)
  <2>1. \A i \in 1..Len(t) : t[i] = s[f[i]]
    BY <1>3
  <2> QED
    BY <1>3, <1>4, <2>1, HeadsLeft, Zenon
<1>6. ASSUME NEW i \in 1..Len(t), t[i][1] = "head" PROVE p.id < t[i][2].id
  <2>1. s[i + (p.size + 5)] = t[i]
    BY <1>2
  <2> QED
    BY <1>1, <1>2, <1>6, <2>1 DEF HeadsAre
<1> QED
  BY <1>5, <1>6 DEF HeadsAre

\* What srpc_iterate may make of n cells that have come.
LEMMA ReadCases ==
  ASSUME LinkInv, NEW n \in 0..ChunkSize, IterateIn(n)
  PROVE  LET pop == Popped(Here(n), beginTag)
         IN  /\ open /\ n \in 0..Len(wire) /\ wire' = Ahead(n)
             /\ UNCHANGED <<toDevice, newer, rrId, outQueue, called, sent, faults>>
             /\ \/ open' = FALSE /\ UNCHANGED <<inBuffer, beginTag, inQueue, got>>
                \/ /\ pop.result = "wait" /\ Len(Here(n)) < BufferMax
                   /\ inBuffer' = Here(n) /\ beginTag' = pop.tag /\ UNCHANGED <<open, inQueue, got>>
                \/ /\ inBuffer' = << >> /\ beginTag' = FALSE /\ open' = FALSE
                   /\ UNCHANGED <<inQueue, got>>
                \/ /\ pop.result = "packet" /\ Len(Here(n)) < BufferMax
                   /\ inBuffer' = SubSeq(Here(n), pop.size + 1, Len(Here(n))) /\ beginTag' = FALSE
                   /\ \/ toDevice /\ got' = Append(got, pop.packet) /\ UNCHANGED <<open, inQueue>>
                      \/ /\ ~toDevice /\ Len(inQueue) < QueueSize
                         /\ inQueue' = Append(inQueue, pop.packet) /\ UNCHANGED <<open, got>>
                      \/ open' = FALSE /\ UNCHANGED <<inQueue, got>>
<1> DEFINE pop == Popped(Here(n), beginTag)
<1>1. /\ inBuffer \in Seq(LinkCell) /\ wire \in Seq(LinkCell) /\ Len(inBuffer) < BufferMax
      /\ BufferMax \in Nat /\ ChunkSize \in Nat
  BY LinkAssumption DEF LinkInv, LinkTypeInv, LinkTypeOK
<1>2. open /\ n \in 0..Len(wire) /\ ReadAndPop(n)
  BY <1>1 DEF IterateIn
<1>3. beginTag \in BOOLEAN /\ (beginTag => Len(inBuffer) >= 2 /\ Begins(inBuffer, 1))
  BY DEF LinkInv, LinkTypeInv, LinkTypeOK
<1>4. /\ Here(n) \in Seq(LinkCell) /\ Len(Here(n)) = Len(inBuffer) + n
      /\ \A i \in 1..Len(inBuffer) : Here(n)[i] = inBuffer[i]
  BY <1>1, <1>2, HereLemma
<1>5. beginTag => Len(Here(n)) >= 2 /\ Begins(Here(n), 1)
  <2> SUFFICES ASSUME beginTag PROVE Len(Here(n)) >= 2 /\ Begins(Here(n), 1)
    OBVIOUS
  <2>1. Len(inBuffer) >= 2 /\ Begins(inBuffer, 1)
    BY <1>3
  <2>2. 1 \in 1..Len(inBuffer) /\ 1 + 1 \in 1..Len(inBuffer) /\ Len(Here(n)) >= 2
    BY <1>1, <1>4, <2>1
  <2> QED
    BY <1>4, <2>1, <2>2 DEF Begins
<1>6. pop.result \in {"wait", "error", "packet"}
  BY <1>3, <1>4, <1>5, PopLemma
<1>7. Len(Here(n)) < BufferMax \/ n > 0
  BY <1>1, <1>2, <1>4
<1> HIDE DEF pop
<1>8. /\ wire' = Ahead(n)
      /\ CASE n > 0 /\ Len(Here(n)) >= BufferMax ->
                   open' = FALSE /\ UNCHANGED receiverVars
              [] (n = 0 \/ Len(Here(n)) < BufferMax) /\ pop.result = "wait" ->
                   /\ inBuffer' = Here(n) /\ beginTag' = pop.tag
                   /\ UNCHANGED <<open, inQueue, got>>
              [] (n = 0 \/ Len(Here(n)) < BufferMax) /\ pop.result = "error" ->
                   /\ inBuffer' = << >> /\ beginTag' = FALSE /\ open' = FALSE
                   /\ UNCHANGED <<inQueue, got>>
              [] OTHER ->
                   /\ inBuffer' = SubSeq(Here(n), pop.size + 1, Len(Here(n))) /\ beginTag' = FALSE
                   /\ IF toDevice
                        THEN got' = Append(got, pop.packet) /\ UNCHANGED <<open, inQueue>>
                        ELSE IF Len(inQueue) < QueueSize
                          THEN inQueue' = Append(inQueue, pop.packet) /\ UNCHANGED <<open, got>>
                          ELSE open' = FALSE /\ UNCHANGED <<inQueue, got>>
      /\ UNCHANGED <<toDevice, newer, senderVars, faults>>
  BY <1>2 DEF ReadAndPop, Here, Ahead, pop
<1>9. UNCHANGED <<toDevice, newer, rrId, outQueue, called, sent, faults>>
  BY <1>8 DEF senderVars
<1>10. CASE n > 0 /\ Len(Here(n)) >= BufferMax
  <2>1. open' = FALSE /\ UNCHANGED <<inBuffer, beginTag, inQueue, got>>
    <3>1. ~(n = 0 \/ Len(Here(n)) < BufferMax)
      BY <1>1, <1>4, <1>10
    <3>2. open' = FALSE /\ UNCHANGED receiverVars
      BY <1>8, <1>10, <3>1
    <3> QED
      BY <3>2 DEF receiverVars
  <2> QED
    BY <1>2, <1>8, <1>9, <2>1
<1>11. CASE ~(n > 0 /\ Len(Here(n)) >= BufferMax)
  <2>1. Len(Here(n)) < BufferMax
    BY <1>1, <1>4, <1>7, <1>11
  <2>2. CASE pop.result = "wait"
    <3>1. inBuffer' = Here(n) /\ beginTag' = pop.tag /\ UNCHANGED <<open, inQueue, got>>
      BY <1>8, <1>11, <2>1, <2>2
    <3> QED
      BY <1>2, <1>8, <1>9, <2>1, <2>2, <3>1 DEF pop
  <2>3. CASE pop.result = "error"
    <3>1. inBuffer' = << >> /\ beginTag' = FALSE /\ open' = FALSE /\ UNCHANGED <<inQueue, got>>
      BY <1>8, <1>11, <2>1, <2>3
    <3> QED
      BY <1>2, <1>8, <1>9, <3>1
  <2>4. CASE pop.result = "packet"
    <3>1. /\ inBuffer' = SubSeq(Here(n), pop.size + 1, Len(Here(n))) /\ beginTag' = FALSE
          /\ \/ toDevice /\ got' = Append(got, pop.packet) /\ UNCHANGED <<open, inQueue>>
             \/ /\ ~toDevice /\ Len(inQueue) < QueueSize
                /\ inQueue' = Append(inQueue, pop.packet) /\ UNCHANGED <<open, got>>
             \/ open' = FALSE /\ UNCHANGED <<inQueue, got>>
      BY <1>8, <1>11, <2>1, <2>4
    <3> QED
      BY <1>2, <1>8, <1>9, <2>1, <2>4, <3>1 DEF pop
  <2> QED
    BY <1>6, <2>2, <2>3, <2>4
<1> QED
  BY <1>10, <1>11

\* What leaves the headers in their order, and takes nothing, keeps what follows what.
LEMMA ReadLine ==
  ASSUME LinkInv, UNCHANGED <<outQueue, called, sent>>, Took' = Took, Stream' \in Seq(LinkCell),
         NEW f \in [1..Len(Stream') -> 1..Len(Stream)],
         \A i \in 1..Len(Stream') : Stream'[i] = Stream[f[i]],
         \A i, j \in 1..Len(Stream') : i < j => f[i] < f[j]
  PROVE  LineInv'
<1>1. PICK a \in 0..called, b \in 0..called :
         /\ a <= b /\ TakenFrom(Took, a, sent) /\ HeadsAre(Stream, a, b, sent)
         /\ Waiting(outQueue, b, sent)
  BY DEF LinkInv, LineInv, InLine
<1> DEFINE t == Stream'
<1>2. Stream \in Seq(LinkCell)
  BY JoinLemma DEF LinkInv, LinkTypeInv, Stream
<1>3. /\ t \in Seq(LinkCell) /\ f \in [1..Len(t) -> 1..Len(Stream)]
      /\ \A i \in 1..Len(t) : t[i] = Stream[f[i]]
      /\ \A i, j \in 1..Len(t) : i < j => f[i] < f[j]
  OBVIOUS
<1> HIDE DEF t
<1>4. HeadsAre(t, a, b, sent)
  BY <1>1, <1>2, <1>3, HeadsLeft, Zenon
<1>5. InLine(Took, t, outQueue, sent, called)
  BY <1>1, <1>4, Zenon DEF InLine
<1>6. Sends(sent, called)
  BY DEF LinkInv, LineInv
<1> QED
  BY <1>5, <1>6 DEF LineInv, t

\* What srpc_iterate reads without taking a packet: the cells do not fit, there are too few of
\* them, or they are none.
LEMMA ReadNothing ==
  ASSUME LinkInv, NEW n \in 0..Len(wire), open, wire' = Ahead(n),
         UNCHANGED <<toDevice, newer, rrId, outQueue, called, sent, faults, inQueue, got>>,
         \/ open' = FALSE /\ UNCHANGED <<inBuffer, beginTag>>
         \/ /\ inBuffer' = Here(n) /\ Len(Here(n)) < BufferMax /\ UNCHANGED open
            /\ beginTag' \in BOOLEAN /\ (beginTag' => Len(Here(n)) >= 2 /\ Begins(Here(n), 1))
         \/ inBuffer' = << >> /\ beginTag' = FALSE /\ open' = FALSE
  PROVE  LinkInv'
<1>1. /\ inBuffer \in Seq(LinkCell) /\ wire \in Seq(LinkCell) /\ Len(inBuffer) < BufferMax
      /\ BufferMax \in Nat /\ n \in Nat /\ n <= Len(wire) /\ Len(inBuffer) \in Nat /\ 0 < BufferMax
  <2>1. inBuffer \in Seq(LinkCell) /\ wire \in Seq(LinkCell) /\ Len(inBuffer) < BufferMax
    BY DEF LinkInv, LinkTypeInv, LinkTypeOK
  <2>2. BufferMax \in Nat
    BY LinkAssumption
  <2> QED
    BY <2>1, <2>2
<1>2. /\ Stream \in Seq(LinkCell) /\ Here(n) \in Seq(LinkCell) /\ Ahead(n) \in Seq(LinkCell)
      /\ Len(Here(n)) = Len(inBuffer) + n /\ Len(Ahead(n)) = Len(wire) - n
      /\ Len(Stream) = Len(inBuffer) + Len(wire) /\ Len(Here(n)) <= Len(Stream)
      /\ \A i \in 1..Len(inBuffer) : Here(n)[i] = inBuffer[i] /\ Stream[i] = inBuffer[i]
      /\ \A i \in 1..Len(Here(n)) : Here(n)[i] = Stream[i]
      /\ \A i \in 1..Len(Ahead(n)) : Ahead(n)[i] = Stream[Len(Here(n)) + i]
  BY <1>1, HereLemma
<1>3. Took' = Took
  BY DEF Took
<1>4. << >> \in Seq(LinkCell) /\ Len(<< >>) = 0 /\ << >> \o Ahead(n) = Ahead(n)
  BY <1>2
<1>5. LinkTypeInv'
  <2>1. /\ inBuffer' \in Seq(LinkCell) /\ Len(inBuffer') < BufferMax /\ wire' \in Seq(LinkCell)
    BY <1>1, <1>2, <1>4
  <2>2. {toDevice, newer, open, beginTag}' \subseteq BOOLEAN
    BY DEF LinkInv, LinkTypeInv, LinkTypeOK
  <2>3. beginTag' => Len(inBuffer') >= 2 /\ Begins(inBuffer', 1)
    <3>1. CASE open' = FALSE /\ UNCHANGED <<inBuffer, beginTag>>
      BY <3>1 DEF LinkInv, LinkTypeInv
    <3>2. CASE inBuffer' = Here(n)
      BY <3>2 DEF LinkInv, LinkTypeInv
    <3>3. CASE inBuffer' = << >> /\ beginTag' = FALSE
      BY <3>3
    <3> QED
      BY <3>1, <3>2, <3>3
  <2> QED
    BY <2>1, <2>2, <2>3 DEF LinkInv, LinkTypeInv, LinkTypeOK
<1>6. faults = 0 => CutAt(inBuffer', Len(inBuffer'))
  <2> SUFFICES ASSUME faults = 0 PROVE CutAt(inBuffer', Len(inBuffer'))
    OBVIOUS
  <2>1. CASE inBuffer' = inBuffer
    BY <2>1 DEF LinkInv, CutInv
  <2>2. CASE inBuffer' = Here(n)
    <3>1. KeptButCut(Stream, -1)
      BY DEF LinkInv, CutInv, CutAt
    <3> QED
      BY <1>2, <2>2, <3>1, KeptBegun
  <2>3. CASE inBuffer' = << >>
    BY <1>4, <2>3 DEF CutAt, KeptButCut, Resumes
  <2> QED
    BY <2>1, <2>2, <2>3
<1>7. CASE inBuffer' = Here(n) /\ UNCHANGED open
  <2>1. Stream' = Stream
    <3>1. Stream' = Here(n) \o Ahead(n)
      BY <1>7 DEF Stream
    <3>2. /\ Here(n) \o Ahead(n) \in Seq(LinkCell)
          /\ Len(Here(n) \o Ahead(n)) = Len(Here(n)) + Len(Ahead(n))
          /\ \A i \in 1..Len(Here(n)) : (Here(n) \o Ahead(n))[i] = Here(n)[i]
          /\ \A i \in 1..Len(Ahead(n)) : (Here(n) \o Ahead(n))[Len(Here(n)) + i] = Ahead(n)[i]
      BY <1>2, JoinLemma, Zenon
    <3> DEFINE all == Here(n) \o Ahead(n)
    <3>3. /\ all \in Seq(LinkCell) /\ Len(all) = Len(Here(n)) + Len(Ahead(n))
          /\ \A i \in 1..Len(Here(n)) : all[i] = Here(n)[i]
          /\ \A i \in 1..Len(Ahead(n)) : all[Len(Here(n)) + i] = Ahead(n)[i]
      BY <3>2
    <3> HIDE DEF all
    <3>4. Len(all) = Len(Stream) /\ Len(Stream) \in Nat
      BY <1>1, <1>2, <3>3
    <3>5. ASSUME NEW i \in 1..Len(Stream) PROVE all[i] = Stream[i]
      <4>1. CASE i \in 1..Len(Here(n))
        BY <1>2, <3>3, <4>1
      <4>2. CASE i \notin 1..Len(Here(n))
        <5>1. i - Len(Here(n)) \in 1..Len(Ahead(n)) /\ Len(Here(n)) + (i - Len(Here(n))) = i
          BY <1>1, <1>2, <4>2
        <5>2. PICK x \in 1..Len(Ahead(n)) : Len(Here(n)) + x = i
          BY <5>1
        <5>3. all[Len(Here(n)) + x] = Ahead(n)[x]
          BY <3>3
        <5>4. Ahead(n)[x] = Stream[Len(Here(n)) + x]
          BY <1>2
        <5> QED
          BY <5>2, <5>3, <5>4
      <4> QED
        BY <4>1, <4>2
    <3>6. all = Stream
      BY <1>2, <3>3, <3>4, <3>5, SeqEqual, Zenon
    <3> QED
      BY <3>1, <3>6 DEF all
  <2>2. CutInv' /\ LineInv' /\ FaultInv'
    BY <1>3, <1>6, <1>7, <2>1 DEF LinkInv, CutInv, LineInv, FaultInv
  <2> QED
    BY <1>5, <2>2 DEF LinkInv
<1>8. CASE open' = FALSE /\ (inBuffer' = inBuffer \/ inBuffer' = << >>)
  <2>1. CutInv'
    BY <1>6, <1>8 DEF CutInv
  <2>2. FaultInv'
    BY <1>3, <1>8 DEF LinkInv, FaultInv
  <2>3. CASE inBuffer' = << >>
    <3>1. Stream' = Ahead(n)
      BY <1>4, <2>3 DEF Stream
    <3> DEFINE f == [i \in 1..Len(Ahead(n)) |-> Len(Here(n)) + i]
    <3>2. /\ f \in [1..Len(Ahead(n)) -> 1..Len(Stream)]
          /\ \A i \in 1..Len(Ahead(n)) : f[i] = Len(Here(n)) + i
      BY <1>1, <1>2
    <3> HIDE DEF f
    <3>3. \A i, j \in 1..Len(Ahead(n)) : i < j => f[i] < f[j]
      BY <1>1, <1>2, <3>2
    <3>4. \A i \in 1..Len(Ahead(n)) : Ahead(n)[i] = Stream[f[i]]
      BY <1>2, <3>2
    <3>5. LineInv'
      BY <1>2, <1>3, <3>1, <3>2, <3>3, <3>4, ReadLine
    <3> QED
      BY <1>5, <2>1, <2>2, <3>5 DEF LinkInv
  <2>4. CASE inBuffer' = inBuffer
    <3> DEFINE t == inBuffer \o Ahead(n)
    <3>1. Stream' = t
      BY <2>4 DEF Stream
    <3>2. /\ t \in Seq(LinkCell) /\ Len(t) = Len(inBuffer) + Len(Ahead(n))
          /\ \A i \in 1..Len(inBuffer) : t[i] = inBuffer[i]
          /\ \A i \in 1..Len(Ahead(n)) : t[Len(inBuffer) + i] = Ahead(n)[i]
      BY <1>1, <1>2, JoinLemma, Zenon
    <3> HIDE DEF t
    <3> DEFINE f == [i \in 1..Len(t) |-> IF i <= Len(inBuffer) THEN i ELSE n + i]
    <3>3. /\ f \in [1..Len(t) -> 1..Len(Stream)]
          /\ \A i \in 1..Len(t) : f[i] = IF i <= Len(inBuffer) THEN i ELSE n + i
      BY <1>1, <1>2, <3>2, SMTT(20)
    <3> HIDE DEF f
    <3>4. \A i, j \in 1..Len(t) : i < j => f[i] < f[j]
      BY <1>1, <3>3
    <3>5. ASSUME NEW i \in 1..Len(t) PROVE t[i] = Stream[f[i]]
      <4>1. CASE i \in 1..Len(inBuffer)
        <5>1. f[i] = i
          BY <1>1, <3>3, <4>1
        <5> QED
          BY <1>2, <3>2, <4>1, <5>1
      <4>2. CASE i \notin 1..Len(inBuffer)
        <5>1. /\ i - Len(inBuffer) \in 1..Len(Ahead(n)) /\ Len(inBuffer) + (i - Len(inBuffer)) = i
              /\ f[i] = n + i /\ Len(Here(n)) + (i - Len(inBuffer)) = n + i
          BY <1>1, <1>2, <3>2, <3>3, <4>2
        <5>2. t[i] = Ahead(n)[i - Len(inBuffer)]
          BY <3>2, <5>1
        <5> QED
          BY <1>2, <5>1, <5>2
      <4> QED
        BY <4>1, <4>2
    <3>6. LineInv'
      BY <1>3, <3>1, <3>2, <3>3, <3>4, <3>5, ReadLine
    <3> QED
      BY <1>5, <2>1, <2>2, <3>6 DEF LinkInv
  <2> QED
    BY <1>8, <2>3, <2>4
<1> QED
  BY <1>7, <1>8

\* One packet behind two sequences of them.
LEMMA JoinOneMore ==
  \A q, s \in Seq(Packet) : \A x \in Packet : q \o Append(s, x) = Append(q \o s, x)
<1> SUFFICES ASSUME NEW q \in Seq(Packet), NEW s \in Seq(Packet), NEW x \in Packet
             PROVE  q \o Append(s, x) = Append(q \o s, x)
  OBVIOUS
<1> DEFINE all == q \o s
<1>1. Append(s, x) = s \o <<x>>
  BY AppendIsConcat
<1>2. all \in Seq(Packet) /\ <<x>> \in Seq(Packet)
  OBVIOUS
<1> HIDE DEF all
<1>3. Append(all, x) = all \o <<x>>
  BY <1>2, AppendIsConcat
<1>4. q \o (s \o <<x>>) = (q \o s) \o <<x>>
  BY <1>2, ConcatAssociative
<1> QED
  BY <1>1, <1>3, <1>4 DEF all

\* srpc_iterate takes a packet, and puts it into the queue if there is one and it has room.
LEMMA ReadPacket ==
  ASSUME LinkInv, NEW n \in 0..Len(wire), open, wire' = Ahead(n),
         UNCHANGED <<toDevice, newer, rrId, outQueue, called, sent, faults>>,
         NEW p \in Packet, Here(n)[3] = <<"head", p>>, p.size + 5 <= Len(Here(n)),
         Begins(Here(n), 1), Begins(Here(n), p.size + 4), Len(Here(n)) < BufferMax,
         inBuffer' = SubSeq(Here(n), p.size + 5 + 1, Len(Here(n))), beginTag' = FALSE,
         \/ toDevice /\ got' = Append(got, WithData(Here(n))) /\ UNCHANGED <<open, inQueue>>
         \/ /\ ~toDevice /\ Len(inQueue) < QueueSize
            /\ inQueue' = Append(inQueue, WithData(Here(n))) /\ UNCHANGED <<open, got>>
         \/ open' = FALSE /\ UNCHANGED <<inQueue, got>>
  PROVE  LinkInv'
<1>1. /\ inBuffer \in Seq(LinkCell) /\ wire \in Seq(LinkCell)
      /\ got \in Seq(Packet) /\ inQueue \in Seq(Packet) /\ Len(inQueue) <= QueueSize
      /\ faults \in 0..MostFaults
  BY DEF LinkInv, LinkTypeInv, LinkTypeOK
<1>2. BufferMax \in Nat /\ QueueSize \in Nat /\ MostFaults \in Nat /\ faults \in Nat
  BY <1>1, LinkAssumption
<1>3. n \in Nat /\ n <= Len(wire) /\ Len(inBuffer) \in Nat /\ Len(wire) \in Nat
  BY <1>1
<1>4. /\ Stream \in Seq(LinkCell) /\ Here(n) \in Seq(LinkCell) /\ Ahead(n) \in Seq(LinkCell)
      /\ Len(Here(n)) = Len(inBuffer) + n /\ Len(Ahead(n)) = Len(wire) - n
      /\ Len(Stream) = Len(inBuffer) + Len(wire) /\ Len(Here(n)) <= Len(Stream)
      /\ \A i \in 1..Len(Here(n)) : Here(n)[i] = Stream[i]
      /\ \A i \in 1..Len(Ahead(n)) : Ahead(n)[i] = Stream[Len(Here(n)) + i]
  BY <1>1, HereLemma
<1>32. PICK y \in Nat : y = p.size
  BY PacketSize
<1>5. PICK z \in Nat : z = p.size + 5 /\ z = y + 5
  BY <1>32
<1>33. PICK h \in Nat : h = Len(Here(n))
  BY <1>4
<1>34. PICK l \in Nat : l = Len(Stream)
  BY <1>4
<1>35. z <= h /\ h <= l
  <2>1. z <= Len(Here(n))
    BY <1>5
  <2> QED
    BY <1>4, <1>33, <1>34, <2>1
<1>6. /\ z \in 0..h /\ z >= 5 /\ z <= l /\ z \in 0..l /\ p.id \in Int
  <2>1. p.id \in Int
    BY PacketSize
  <2> QED
    BY <1>5, <1>35, <2>1, SMTT(20)
<1> DEFINE left == SubSeq(Here(n), z + 1, Len(Here(n)))
<1>7. /\ left \in Seq(LinkCell) /\ Len(left) = Len(Here(n)) - z
      /\ \A i \in 1..Len(Here(n)) - z : left[i] = Here(n)[i + z]
  BY <1>4, <1>6, <1>33, RestLemma
<1>36. PICK k \in Nat : k = Len(left) /\ k = h - z
  BY <1>6, <1>7, <1>33
<1>38. PICK r \in Nat : r = Len(Ahead(n))
  <2>1. Ahead(n) \in Seq(LinkCell)
    BY <1>4
  <2>2. Len(Ahead(n)) \in Nat
    BY <2>1
  <2> QED
    BY <2>2
<1>37. r = Len(Ahead(n)) /\ l = h + r
  <2>1. h = Len(inBuffer) + n /\ r = Len(wire) - n /\ l = Len(inBuffer) + Len(wire)
    BY <1>4, <1>33, <1>34, <1>38
  <2> QED
    BY <1>3, <1>38, <2>1
<1>8. inBuffer' = left
  BY <1>5
<1> HIDE DEF left
<1> DEFINE t == left \o Ahead(n)
<1>9. Stream' = t
  BY <1>8 DEF Stream
<1>10. /\ t \in Seq(LinkCell) /\ Len(t) = Len(left) + Len(Ahead(n))
       /\ \A i \in 1..Len(left) : t[i] = left[i]
       /\ \A i \in 1..Len(Ahead(n)) : t[Len(left) + i] = Ahead(n)[i]
  BY <1>4, <1>7, JoinLemma, Zenon
<1> HIDE DEF t
<1>11. Len(t) = Len(Stream) - z
  <2>1. Len(t) = k + r
    BY <1>10, <1>36, <1>37
  <2> QED
    BY <1>34, <1>36, <1>37, <2>1
<1>12. ASSUME NEW i \in 1..Len(t) PROVE t[i] = Stream[i + z]
  <2>1. CASE i \in 1..Len(left)
    <3>1. i \in 1..Len(Here(n)) - z /\ i + z \in 1..Len(Here(n))
      <4>1. i \in 1..k
        BY <1>36, <2>1
      <4>2. i \in 1..h - z /\ i + z \in 1..h
        BY <1>36, <4>1
      <4> QED
        BY <1>33, <4>2
    <3> QED
      BY <1>4, <1>7, <1>10, <2>1, <3>1
  <2>2. CASE i \notin 1..Len(left)
    <3>1. PICK x \in 1..Len(Ahead(n)) : Len(left) + x = i /\ Len(Here(n)) + x = i + z
      <4>1. i \in 1..k + r /\ i \notin 1..k
        BY <1>10, <1>36, <1>37, <2>2
      <4>2. i - k \in 1..r /\ k + (i - k) = i /\ h + (i - k) = i + z
        BY <1>36, <4>1
      <4> QED
        BY <1>33, <1>36, <1>37, <4>2
    <3>2. t[Len(left) + x] = Ahead(n)[x]
      BY <1>10
    <3>3. Ahead(n)[x] = Stream[Len(Here(n)) + x]
      BY <1>4
    <3> QED
      BY <3>1, <3>2, <3>3
  <2> QED
    BY <2>1, <2>2
<1>13. /\ Stream[3] = <<"head", p>> /\ Begins(Stream, 1) /\ Begins(Stream, p.size + 4)
       /\ p.size + 5 <= Len(Stream)
  <2>1. 1 \in 1..h /\ 1 + 1 \in 1..h /\ 3 \in 1..h /\ y + 4 \in 1..h /\ y + 4 + 1 \in 1..h
    BY <1>5, <1>6
  <2>2. \A i \in 1..h : Here(n)[i] = Stream[i]
    BY <1>4, <1>33
  <2>3. Begins(Stream, 1) /\ Stream[3] = <<"head", p>>
    BY <2>1, <2>2 DEF Begins
  <2>4. Begins(Here(n), y + 4)
    BY <1>32
  <2>5. Begins(Stream, y + 4)
    BY <2>1, <2>2, <2>4 DEF Begins
  <2>6. p.size + 5 <= Len(Stream)
    BY <1>5, <1>6, <1>34
  <2> QED
    BY <1>32, <2>3, <2>5, <2>6
<1>14. PICK a \in 0..called, b \in 0..called :
         /\ a <= b /\ TakenFrom(Took, a, sent) /\ HeadsAre(Stream, a, b, sent)
         /\ Waiting(outQueue, b, sent)
  BY DEF LinkInv, LineInv, InLine
<1>15. Len(t) = Len(Stream) - (p.size + 5) /\ \A i \in 1..Len(t) : t[i] = Stream[i + (p.size + 5)]
  BY <1>5, <1>11, <1>12
<1>16. HeadsAre(t, a, b, sent) /\ HeadsAre(t, p.id, b, sent)
  BY <1>4, <1>10, <1>13, <1>14, <1>15, HeadsAfter
<1>17. /\ 3 \in 1..Len(Stream) /\ Stream[3][1] = "head" /\ Stream[3][2] = p
  <2>1. 3 \in 1..l
    BY <1>6
  <2> QED
    BY <1>13, <1>34, <2>1
<1>18. a < p.id /\ p.id <= b /\ \E j \in 1..Len(sent) : p = sent[j]
  BY <1>14, <1>17 DEF HeadsAre
<1>19. Sends(sent, called) /\ sent \in Seq(Packet)
  BY DEF LinkInv, LineInv, Sends
<1> DEFINE w == \A i \in 1..p.size : Here(n)[3 + i] = <<"data", p.id>>
           pk == [p EXCEPT !.whole = w]
<1>20. WithData(Here(n)) = pk
  BY DEF WithData, HeaderSize
<1>21. /\ pk \in Packet /\ pk.id = p.id /\ pk.size = p.size /\ pk.whole = w
       /\ [pk EXCEPT !.whole = TRUE] = [p EXCEPT !.whole = TRUE]
       /\ p.whole => [p EXCEPT !.whole = TRUE] = p
  <2>1. w \in BOOLEAN
    OBVIOUS
  <2> HIDE DEF w
  <2>2. \A v \in BOOLEAN :
          LET q == [p EXCEPT !.whole = v]
          IN  /\ q \in Packet /\ q.id = p.id /\ q.size = p.size /\ q.whole = v
              /\ [q EXCEPT !.whole = TRUE] = [p EXCEPT !.whole = TRUE]
              /\ p.whole => [p EXCEPT !.whole = TRUE] = p
    BY SaidLemma
  <2> QED
    BY <2>1, <2>2
<1>22. p.whole
  BY <1>18, <1>19 DEF Sends
<1>23. ASSUME NEW c, CutAt(Stream, c), p.size < 3 \/ c < 0 PROVE w
  <2>1. \A g \in 1..p.size : Stream[3 + g] = <<"data", p.id>>
    BY <1>4, <1>13, <1>23, SmallLemma
  <2>2. ASSUME NEW g \in 1..p.size PROVE Here(n)[3 + g] = Stream[3 + g]
    <3>1. 3 + g \in 1..Len(Here(n))
      <4>1. g \in 1..y
        BY <1>32
      <4>2. 3 + g \in 1..h
        BY <1>5, <1>6, <4>1
      <4> QED
        BY <1>33, <4>2
    <3> QED
      BY <1>4, <3>1
  <2> QED
    BY <2>1, <2>2
<1>24. faults = 0 => pk = p
  <2> SUFFICES ASSUME faults = 0 PROVE pk = p
    OBVIOUS
  <2>1. CutAt(Stream, -1) /\ -1 < 0
    BY DEF LinkInv, CutInv
  <2>2. w
    BY <1>23, <2>1
  <2>3. w = TRUE
    BY <2>2
  <2>4. pk = [p EXCEPT !.whole = TRUE]
    BY <2>3
  <2> QED
    BY <1>21, <1>22, <2>4
<1> HIDE DEF w
<1>25. pk.whole \/ faults > 1 \/ pk.size >= 3
  <2> SUFFICES ASSUME ~(faults > 1), ~(p.size >= 3) PROVE w
    BY <1>21
  <2>1. p.size < 3
    BY <1>32
  <2>2. CASE faults = 0
    <3>1. CutAt(Stream, -1)
      BY <2>2 DEF LinkInv, CutInv
    <3> QED
      BY <1>23, <2>1, <3>1
  <2>3. CASE faults = 1
    <3>1. PICK c \in Int : CutAt(Stream, c)
      BY <2>3 DEF LinkInv, CutInv
    <3> QED
      BY <1>23, <2>1, <3>1
  <2> QED
    BY <1>2, <2>2, <2>3
<1> HIDE DEF pk
<1>26. CutInv'
  <2>1. ASSUME NEW c, CutAt(Stream, c) PROVE CutAt(t, c - z)
    <3>1. z \in 0..Len(Stream)
      BY <1>6, <1>34
    <3> QED
      BY <1>4, <1>10, <1>11, <1>12, <2>1, <3>1, KeptLeft
  <2>2. faults = 0 => CutAt(t, -1)
    <3> SUFFICES ASSUME faults = 0 PROVE CutAt(t, -1)
      OBVIOUS
    <3>1. CutAt(Stream, -1)
      BY DEF LinkInv, CutInv
    <3>2. CutAt(t, -1 - z) /\ -1 - z < 0
      BY <1>6, <2>1, <3>1
    <3> QED
      BY <1>10, <3>2, NoCut
  <2>3. faults = 1 => \E c \in Int : CutAt(t, c)
    <3> SUFFICES ASSUME faults = 1 PROVE \E c \in Int : CutAt(t, c)
      OBVIOUS
    <3>1. PICK c \in Int : CutAt(Stream, c)
      BY DEF LinkInv, CutInv
    <3>2. CutAt(t, c - z) /\ c - z \in Int
      BY <2>1, <3>1
    <3> QED
      BY <3>2
  <2>4. faults = 0 => CutAt(left, Len(left))
    <3> SUFFICES ASSUME faults = 0 PROVE CutAt(left, Len(left))
      OBVIOUS
    <3>1. KeptButCut(t, -1)
      BY <2>2 DEF CutAt
    <3>2. Len(left) <= Len(t) /\ \A i \in 1..Len(left) : left[i] = t[i]
      <4>1. k <= k + r
        OBVIOUS
      <4> QED
        BY <1>10, <1>36, <1>37, <4>1
    <3> QED
      BY <1>7, <1>10, <3>1, <3>2, KeptBegun
  <2> QED
    BY <1>8, <1>9, <2>2, <2>3, <2>4 DEF CutInv
<1>27. /\ left \in Seq(LinkCell) /\ Len(left) < BufferMax
  BY <1>2, <1>6, <1>7, <1>33, <1>36
<1>28. ASSUME Took' = Append(Took, pk), UNCHANGED open PROVE LineInv' /\ FaultInv'
  <2> DEFINE more == Append(Took, pk)
  <2>1. Took \in Seq(Packet) /\ a \in Int /\ b \in Int /\ p.id \in 0..called
    <3>1. called \in 0..MostCalls /\ MostCalls \in Nat
      BY LinkAssumption DEF LinkInv, LinkTypeInv, LinkTypeOK
    <3> QED
      <4>1. Took \in Seq(Packet)
        BY <1>14 DEF TakenFrom
      <4>2. p.id \in Nat
        BY PacketSize
      <4>3. a \in Int /\ b \in Int /\ b <= called
        BY <3>1
      <4> QED
        BY <1>18, <3>1, <4>1, <4>2, <4>3
  <2>2. TakenFrom(more, p.id, sent)
    <3>1. TakenFrom(more, pk.id, sent)
      <4>1. \E j \in 1..Len(sent) : [pk EXCEPT !.whole = TRUE] = sent[j]
        BY <1>18, <1>21, <1>22
      <4> QED
        BY <1>14, <1>18, <1>19, <1>21, <2>1, <4>1, TakenLemma
    <3> QED
      BY <1>21, <3>1
  <2>3. /\ Len(more) = Len(Took) + 1 /\ more \in Seq(Packet)
        /\ \A i \in 1..Len(Took) : more[i] = Took[i]
        /\ more[Len(Took) + 1] = pk
        /\ \A i \in 1..Len(more) : i \in 1..Len(Took) \/ i = Len(Took) + 1
    BY <1>21, <2>1, OneMore
  <2>4. faults = 0 => Begun(more, sent) /\ AllThere(more, t, outQueue, sent)
    <3> SUFFICES ASSUME faults = 0 PROVE Begun(more, sent) /\ AllThere(more, t, outQueue, sent)
      OBVIOUS
    <3>1. /\ Begun(Took, sent) /\ AllThere(Took, Stream, outQueue, sent) /\ CutAt(Stream, -1)
      BY DEF LinkInv, FaultInv, CutInv
    <3>2. called \in Nat
      BY LinkAssumption DEF LinkInv, LinkTypeInv, LinkTypeOK
    <3>3. Begun(Append(Took, p), sent) /\ AllThere(Append(Took, p), t, outQueue, sent)
      <4>1. /\ Sends(sent, called) /\ TakenFrom(Took, a, sent) /\ HeadsAre(Stream, a, b, sent)
            /\ Waiting(outQueue, b, sent)
        BY <1>14, <1>19
      <4>2. Stream \in Seq(LinkCell) /\ t \in Seq(LinkCell)
        BY <1>4, <1>10
      <4> QED
        BY <1>13, <1>15, <2>1, <3>1, <3>2, <4>1, <4>2, NextLemma, Zenon
    <3> QED
      BY <1>24, <3>3
  <2> HIDE DEF more
  <2>5. LineInv'
    <3>1. InLine(more, t, outQueue, sent, called)
      BY <1>14, <1>16, <1>18, <2>1, <2>2, Zenon DEF InLine
    <3> QED
      BY <1>9, <1>19, <1>28, <3>1 DEF LineInv, more
  <2>6. FaultInv'
    <3>1. \A g \in 1..Len(more) : more[g].whole \/ faults > 1 \/ more[g].size >= 3
      BY <1>25, <2>3 DEF LinkInv, FaultInv
    <3> QED
      BY <1>9, <1>28, <2>4, <3>1 DEF FaultInv, more
  <2> QED
    BY <2>5, <2>6
<1>29. CASE toDevice /\ got' = Append(got, WithData(Here(n))) /\ UNCHANGED <<open, inQueue>>
  <2>1. inQueue = << >>
    BY <1>29 DEF LinkInv, LinkTypeInv
  <2>2. got' = Append(got, pk) /\ Append(got, pk) \in Seq(Packet)
    BY <1>1, <1>20, <1>21, <1>29
  <2>3. Took' = Append(Took, pk)
    <3>1. got \o << >> = got /\ Append(got, pk) \o << >> = Append(got, pk)
      BY <1>1, <2>2
    <3> QED
      BY <1>29, <2>1, <2>2, <3>1 DEF Took
  <2>4. LinkTypeInv'
    <3>1. {toDevice, newer, open, beginTag}' \subseteq BOOLEAN
      BY <1>29 DEF LinkInv, LinkTypeInv, LinkTypeOK
    <3> QED
      BY <1>4, <1>8, <1>27, <1>29, <2>1, <2>2, <3>1 DEF LinkInv, LinkTypeInv, LinkTypeOK
  <2> QED
    BY <1>26, <1>28, <1>29, <2>3, <2>4 DEF LinkInv
<1>30. CASE /\ ~toDevice /\ Len(inQueue) < QueueSize
            /\ inQueue' = Append(inQueue, WithData(Here(n))) /\ UNCHANGED <<open, got>>
  <2>1. /\ inQueue' = Append(inQueue, pk) /\ Append(inQueue, pk) \in Seq(Packet)
        /\ Len(Append(inQueue, pk)) <= QueueSize
    <3>1. /\ Append(inQueue, pk) \in Seq(Packet)
          /\ Len(Append(inQueue, pk)) = Len(inQueue) + 1
      BY <1>1, <1>21, OneMore
    <3>2. Len(inQueue) + 1 <= QueueSize
      BY <1>1, <1>2, <1>30
    <3> QED
      BY <1>20, <1>30, <3>1, <3>2
  <2>2. Took' = Append(Took, pk)
    <3>2. got \o Append(inQueue, pk) = Append(got \o inQueue, pk)
      BY <1>1, <1>21, JoinOneMore, Zenon
    <3> QED
      BY <1>30, <2>1, <3>2 DEF Took
  <2>3. LinkTypeInv'
    <3>1. {toDevice, newer, open, beginTag}' \subseteq BOOLEAN
      BY <1>30 DEF LinkInv, LinkTypeInv, LinkTypeOK
    <3> QED
      BY <1>4, <1>8, <1>27, <1>30, <2>1, <3>1 DEF LinkInv, LinkTypeInv, LinkTypeOK
  <2> QED
    BY <1>26, <1>28, <1>30, <2>2, <2>3 DEF LinkInv
<1>31. CASE open' = FALSE /\ UNCHANGED <<inQueue, got>>
  <2>1. Took' = Took
    BY <1>31 DEF Took
  <2>2. LineInv'
    <3>1. InLine(Took, t, outQueue, sent, called)
      BY <1>14, <1>16, Zenon DEF InLine
    <3> QED
      BY <1>9, <1>19, <2>1, <3>1 DEF LineInv
  <2>3. FaultInv'
    BY <1>31, <2>1 DEF LinkInv, FaultInv
  <2>4. LinkTypeInv'
    <3>1. {toDevice, newer, open, beginTag}' \subseteq BOOLEAN
      BY <1>31 DEF LinkInv, LinkTypeInv, LinkTypeOK
    <3> QED
      BY <1>4, <1>8, <1>27, <1>31, <3>1 DEF LinkInv, LinkTypeInv, LinkTypeOK
  <2> QED
    BY <1>26, <2>2, <2>3, <2>4 DEF LinkInv
<1> QED
  BY <1>29, <1>30, <1>31

\* One pass of srpc_iterate over what has come.
LEMMA ReadKeeps ==
  ASSUME LinkInv, NEW n \in 0..ChunkSize, IterateIn(n) PROVE LinkInv'
<1> DEFINE pop == Popped(Here(n), beginTag)
<1>1. /\ inBuffer \in Seq(LinkCell) /\ wire \in Seq(LinkCell)
      /\ beginTag \in BOOLEAN /\ (beginTag => Len(inBuffer) >= 2 /\ Begins(inBuffer, 1))
  BY DEF LinkInv, LinkTypeInv, LinkTypeOK
<1>2. /\ open /\ n \in 0..Len(wire) /\ wire' = Ahead(n)
      /\ UNCHANGED <<toDevice, newer, rrId, outQueue, called, sent, faults>>
      /\ \/ open' = FALSE /\ UNCHANGED <<inBuffer, beginTag, inQueue, got>>
         \/ /\ pop.result = "wait" /\ Len(Here(n)) < BufferMax
            /\ inBuffer' = Here(n) /\ beginTag' = pop.tag /\ UNCHANGED <<open, inQueue, got>>
         \/ /\ inBuffer' = << >> /\ beginTag' = FALSE /\ open' = FALSE
            /\ UNCHANGED <<inQueue, got>>
         \/ /\ pop.result = "packet" /\ Len(Here(n)) < BufferMax
            /\ inBuffer' = SubSeq(Here(n), pop.size + 1, Len(Here(n))) /\ beginTag' = FALSE
            /\ \/ toDevice /\ got' = Append(got, pop.packet) /\ UNCHANGED <<open, inQueue>>
               \/ /\ ~toDevice /\ Len(inQueue) < QueueSize
                  /\ inQueue' = Append(inQueue, pop.packet) /\ UNCHANGED <<open, got>>
               \/ open' = FALSE /\ UNCHANGED <<inQueue, got>>
  BY ReadCases
<1>3. /\ Here(n) \in Seq(LinkCell) /\ Len(Here(n)) = Len(inBuffer) + n
      /\ \A i \in 1..Len(inBuffer) : Here(n)[i] = inBuffer[i]
  BY <1>1, <1>2, HereLemma
<1>4. beginTag => Len(Here(n)) >= 2 /\ Begins(Here(n), 1)
  <2> SUFFICES ASSUME beginTag PROVE Len(Here(n)) >= 2 /\ Begins(Here(n), 1)
    OBVIOUS
  <2>1. Len(inBuffer) >= 2 /\ Begins(inBuffer, 1)
    BY <1>1
  <2>2. 1 \in 1..Len(inBuffer) /\ 1 + 1 \in 1..Len(inBuffer) /\ Len(Here(n)) >= 2
    BY <1>1, <1>3, <2>1
  <2> QED
    BY <1>3, <2>1, <2>2 DEF Begins
<1> DEFINE p == Here(n)[3][2]
<1>5. \/ /\ pop.result = "wait" /\ pop.tag \in BOOLEAN
         /\ pop.tag => Len(Here(n)) >= 2 /\ Begins(Here(n), 1)
      \/ pop.result = "error"
      \/ /\ pop.result = "packet" /\ p \in Packet /\ Here(n)[3] = <<"head", p>>
         /\ pop.size = p.size + 5 /\ p.size + 5 <= Len(Here(n))
         /\ Begins(Here(n), 1) /\ Begins(Here(n), p.size + 4)
         /\ pop.packet = WithData(Here(n))
  BY <1>1, <1>3, <1>4, PopLemma
<1> HIDE DEF pop, p
<1>6. CASE open' = FALSE /\ UNCHANGED <<inBuffer, beginTag, inQueue, got>>
  BY <1>2, <1>6, ReadNothing
<1>7. CASE /\ inBuffer' = << >> /\ beginTag' = FALSE /\ open' = FALSE
           /\ UNCHANGED <<inQueue, got>>
  BY <1>2, <1>7, ReadNothing
<1>8. CASE /\ pop.result = "wait" /\ Len(Here(n)) < BufferMax
           /\ inBuffer' = Here(n) /\ beginTag' = pop.tag /\ UNCHANGED <<open, inQueue, got>>
  <2>1. beginTag' \in BOOLEAN /\ (beginTag' => Len(Here(n)) >= 2 /\ Begins(Here(n), 1))
    BY <1>5, <1>8
  <2> QED
    BY <1>2, <1>8, <2>1, ReadNothing
<1>9. CASE /\ pop.result = "packet" /\ Len(Here(n)) < BufferMax
           /\ inBuffer' = SubSeq(Here(n), pop.size + 1, Len(Here(n))) /\ beginTag' = FALSE
           /\ \/ toDevice /\ got' = Append(got, pop.packet) /\ UNCHANGED <<open, inQueue>>
              \/ /\ ~toDevice /\ Len(inQueue) < QueueSize
                 /\ inQueue' = Append(inQueue, pop.packet) /\ UNCHANGED <<open, got>>
              \/ open' = FALSE /\ UNCHANGED <<inQueue, got>>
  <2>1. /\ p \in Packet /\ Here(n)[3] = <<"head", p>>
        /\ pop.size = p.size + 5 /\ p.size + 5 <= Len(Here(n))
        /\ Begins(Here(n), 1) /\ Begins(Here(n), p.size + 4)
        /\ pop.packet = WithData(Here(n))
    BY <1>5, <1>9
  <2>2. inBuffer' = SubSeq(Here(n), p.size + 5 + 1, Len(Here(n)))
    BY <1>9, <2>1
  <2>3. \/ toDevice /\ got' = Append(got, WithData(Here(n))) /\ UNCHANGED <<open, inQueue>>
        \/ /\ ~toDevice /\ Len(inQueue) < QueueSize
           /\ inQueue' = Append(inQueue, WithData(Here(n))) /\ UNCHANGED <<open, got>>
        \/ open' = FALSE /\ UNCHANGED <<inQueue, got>>
    BY <1>9, <2>1
  <2> QED
    BY <1>2, <1>9, <2>1, <2>2, <2>3, ReadPacket
<1> QED
  BY <1>2, <1>6, <1>7, <1>8, <1>9

\* Each step keeps the invariant.
LEMMA LinkSteps == LinkInv /\ [LinkNext]_linkVars => LinkInv'
<1> SUFFICES ASSUME LinkInv, [LinkNext]_linkVars PROVE LinkInv'
  OBVIOUS
<1>1. ASSUME NEW size \in DataSizes, AsyncCall(size) PROVE LinkInv'
  BY <1>1, CallKeeps
<1>2. ASSUME NEW n \in 0..ChunkSize, IterateIn(n) PROVE LinkInv'
  BY <1>2, ReadKeeps
<1>3. CASE UNCHANGED linkVars
  BY <1>3 DEF linkVars, LinkInv, LinkTypeInv, LinkTypeOK, CutInv, LineInv, FaultInv, Stream, Took
<1> QED
  BY <1>1, <1>2, <1>3, OutKeeps, GetKeeps, ReconnectKeeps DEF LinkNext

\* What it says of the packets that the other end took.
LEMMA LinkImplies == LinkInv => TakenInOrder
<1> SUFFICES ASSUME LinkInv PROVE TakenInOrder
  OBVIOUS
<1>1. got \in Seq(Packet) /\ inQueue \in Seq(Packet) /\ sent \in Seq(Packet)
  BY DEF LinkInv, LinkTypeInv, LinkTypeOK
<1>2. PICK a \in 0..called : TakenFrom(Took, a, sent)
  BY DEF LinkInv, LineInv, InLine
<1>3. /\ Took \in Seq(Packet) /\ DOMAIN got = 1..Len(got) /\ DOMAIN sent = 1..Len(sent)
      /\ \A i \in 1..Len(got) : i \in 1..Len(Took) /\ Took[i] = got[i]
  BY <1>1 DEF Took
<1>4. \A i \in DOMAIN got : \E j \in DOMAIN sent : [got[i] EXCEPT !.whole = TRUE] = sent[j]
  <2> SUFFICES ASSUME NEW i \in 1..Len(got)
               PROVE  \E j \in 1..Len(sent) : [got[i] EXCEPT !.whole = TRUE] = sent[j]
    BY <1>3
  <2>1. \E j \in 1..Len(sent) : [Took[i] EXCEPT !.whole = TRUE] = sent[j]
    BY <1>2, <1>3 DEF TakenFrom
  <2> QED
    BY <1>3, <2>1
<1>5. \A i, j \in DOMAIN got : i < j => got[i].id < got[j].id
  BY <1>2, <1>3 DEF TakenFrom
<1>6. \A i \in DOMAIN got : got[i].whole \/ faults > 1 \/ got[i].size >= HeaderSize
  BY <1>3 DEF LinkInv, FaultInv, HeaderSize
<1>7. faults = 0 => Took = SubSeq(sent, 1, Len(Took))
  <2> SUFFICES ASSUME faults = 0 PROVE Took = SubSeq(sent, 1, Len(Took))
    OBVIOUS
  <2>1. Len(Took) <= Len(sent) /\ \A k \in 1..Len(Took) : Took[k] = sent[k]
    BY DEF LinkInv, FaultInv, Begun
  <2> HIDE DEF Took
  <2>2. Len(Took) \in 0..Len(sent)
    BY <1>1, <1>3, <2>1
  <2> DEFINE n == Len(Took)
             front == SubSeq(sent, 1, n)
  <2>3. front \in Seq(Packet) /\ Len(front) = n /\ \A k \in 1..n : front[k] = sent[k]
    BY <1>1, <2>2
  <2> HIDE DEF front
  <2>4. Took = front
    BY <1>3, <2>1, <2>3, SeqEqual, Zenon
  <2> QED
    BY <2>4 DEF front
<1> QED
  BY <1>4, <1>5, <1>6, <1>7 DEF TakenInOrder, Took

\* What one end takes was sent by the other, in the order of the calls and once, whatever the
\* network made of the stream; and with nothing lost it is all of it (srpc.c, proto.c).
THEOREM PacketsInOrder == LinkSpec => []TakenInOrder
<1>1. LinkInit => LinkInv
  BY LinkStarts
<1>2. LinkInv /\ [LinkNext]_linkVars => LinkInv'
  BY LinkSteps
<1>3. LinkInv => TakenInOrder
  BY LinkImplies
<1> QED
  BY <1>1, <1>2, <1>3, PTL DEF LinkSpec

-----------------------------------------------------------------------------
(***************************************************************************)
(* Network                                                                 *)
(***************************************************************************)
USE TimesAssumption, TimeoutsAssumption, SpeedAssumption, AgeCapAssumption

\* The division by 1000 in ping() compares as the multiplied-out times do.
LEMMA SecondsLemma ==
  ASSUME NEW d \in Nat, NEW k \in Int
  PROVE  Seconds(d) >= k <=> d >= k * Second
<1> DEFINE q == d \div Second  r == d % Second
<1>1. q \in Int /\ r \in 0 .. (Second - 1) /\ d = Second * q + r
  BY SMT
<1> HIDE DEF q, r
<1>2. CASE q >= k
  <2>1. Second * q >= Second * k
    BY <1>1, <1>2, SMT
  <2> QED
    BY <1>1, <1>2, <2>1, SMT DEF Seconds, q
<1>3. CASE q < k
  <2>1. Second * (q + 1) <= Second * k
    BY <1>1, <1>3, SMT
  <2> QED
    BY <1>1, <1>3, <2>1, SMT DEF Seconds, q
<1> QED
  BY <1>1, <1>2, <1>3
-----------------------------------------------------------------------------
(***************************************************************************)
(* The inductive invariant.                                                *)
(***************************************************************************)

\* ping() runs on registered links only, and at least once per LoopBound.
LoopInv ==
  /\ granted # 0 => registered
  /\ registered => link # "down" /\ loopAge <= LoopBound
  /\ registered /\ granted = 0 => turn = "ping"

\* Everything written stamps lastSentMs, and ping() writes.
SentInv ==
  link = "up" =>
    /\ sentAge <= pingAge
    /\ granted # 0 => sentAge - loopAge < (granted - Margin) * Second

\* At most one ping is unanswered; an answer is a response after the last ping.
ReplyInv ==
  /\ replyAge >= 0 => /\ link = "up" /\ granted # 0
                      /\ replyAge = pingAge /\ replyAge <= Latency
  /\ link = "up" /\ replyAge = -1 => responseAge <= pingAge

\* How long the server can have been silent.
ResponseInv ==
  /\ link = "up" =>
       /\ registered /\ granted = 0 => responseAge <= loopAge
       /\ granted # 0 /\ granted # serverActivityTimeoutS => responseAge <= loopAge
       /\ granted # 0 /\ replyAge = -1 =>
            responseAge - loopAge < (granted - Margin) * Second
       /\ granted # 0 /\ replyAge >= 0 =>
            responseAge - replyAge < (serverActivityTimeoutS - Margin) * Second + LoopBound
  /\ link # "down" /\ granted # 0 =>
       responseAge - loopAge < (granted + Grace) * Second

IInv == TypeOK /\ LoopInv /\ SentInv /\ ReplyInv /\ ResponseInv
-----------------------------------------------------------------------------
\* The products of the invariant, linear in the time constants.
LEMMA ProductsLemma ==
  ASSUME NEW t \in Timeouts
  PROVE  /\ t \in Nat /\ t # 0
         /\ t * Second \in Nat /\ Margin * Second \in Nat /\ Grace * Second \in Nat
         /\ (t - Margin) * Second = t * Second - Margin * Second
         /\ (t + Grace) * Second = t * Second + Grace * Second
         /\ (Margin + Grace) * Second = Margin * Second + Grace * Second
         /\ t * Second >= 2 * (Margin * Second)
         /\ Margin * Second > 0 /\ Grace * Second > 0
<1>1. t \in Nat /\ t >= 2 * Margin
  OBVIOUS
<1>2. t * Second >= (2 * Margin) * Second
  BY <1>1, SMT
<1> QED
  BY <1>1, <1>2, SMT

\* A device that is not connected yet satisfies the invariant: all stamps are old.
LEMMA InitIInv == Init => IInv
<1> SUFFICES ASSUME Init PROVE IInv
  OBVIOUS
<1>1. TypeOK
  BY DEF Init, TypeOK
<1>2. link = "down" /\ ~registered /\ granted = 0 /\ ~(replyAge >= 0)
  BY DEF Init
<1> QED
  BY <1>1, <1>2 DEF IInv, LoopInv, SentInv, ReplyInv, ResponseInv

\* Every ping, message, send, connect, disconnect and tick of time preserves it.
LEMMA NextIInv == IInv /\ [Next]_vars => IInv'
<1> SUFFICES ASSUME IInv, [Next]_vars PROVE IInv'
  OBVIOUS
<1> USE DEF IInv, TypeOK, LoopInv, SentInv, ReplyInv, ResponseInv
<1> DEFINE S == serverActivityTimeoutS * Second  G == granted * Second
           M == Margin * Second  R == Grace * Second
<1>p. /\ serverActivityTimeoutS \in Nat /\ granted \in Nat
      /\ S \in Nat /\ G \in Nat /\ M \in Nat /\ R \in Nat
      /\ (serverActivityTimeoutS - Margin) * Second = S - M
      /\ (serverActivityTimeoutS + Grace) * Second = S + R
      /\ (granted - Margin) * Second = G - M
      /\ (granted + Grace) * Second = G + R
      /\ S >= 2 * M /\ M > 0 /\ R > 0 /\ LoopBound < M /\ PingGap <= M
      /\ granted # 0 => G >= 2 * M
      /\ LoopBound + Latency <= M + R
  BY ProductsLemma, SMT
<1>d. ASSUME Disconnected, UNCHANGED <<sentAge, responseAge, pingAge, serverActivityTimeoutS>>
      PROVE  IInv'
  <2>1. TypeOK'
    BY <1>d DEF Disconnected
  <2>2. link' = "down" /\ ~registered' /\ granted' = 0 /\ ~(replyAge' >= 0)
    BY <1>d DEF Disconnected
  <2> QED
    BY <2>1, <2>2
<1>1. CASE Connect
  BY <1>1, <1>p DEF Connect
<1>2. ASSUME NEW timeout \in Timeouts, OnRegisterResult(timeout) PROVE IInv'
  BY <1>2, <1>p, ProductsLemma DEF OnRegisterResult, DataWrite
<1>3. ASSUME NEW timeout \in Timeouts, SetActivityTimeoutResult(timeout) PROVE IInv'
  BY <1>3, <1>p, ProductsLemma DEF SetActivityTimeoutResult
<1>4. CASE PingServerResult
  BY <1>4, <1>p DEF PingServerResult
<1>5. CASE OtherMessage
  BY <1>5, <1>p DEF OtherMessage, DataWrite
<1>6. CASE NoMessage
  BY <1>6, <1>p DEF NoMessage
<1>7. CASE Ping
  <2>1. CASE ServerSilent
    <3>1. Disconnected /\ UNCHANGED <<sentAge, responseAge, pingAge, serverActivityTimeoutS>>
      BY <1>7, <2>1 DEF Ping
    <3> QED
      BY <1>d, <3>1
  <2>2. CASE ~ServerSilent /\ PingDue
    <3>1. responseAge < S + R
      BY <1>p, <2>2, SecondsLemma DEF ServerSilent
    <3>2. pingAge >= PingGap
      BY <2>2 DEF PingDue
    <3> QED
      BY <1>7, <1>p, <2>2, <3>1, <3>2 DEF Ping, DataWrite
  <2>3. CASE ~ServerSilent /\ ~PingDue
    <3>1. responseAge < S + R
      BY <1>p, <2>3, SecondsLemma DEF ServerSilent
    <3>c. serverActivityTimeoutS - Margin \in Int
      BY <1>p
    <3>a. Seconds(responseAge) >= serverActivityTimeoutS - Margin <=> responseAge >= S - M
      BY <1>p, <3>c, SecondsLemma
    <3>b. Seconds(sentAge) >= serverActivityTimeoutS - Margin <=> sentAge >= S - M
      BY <1>p, <3>c, SecondsLemma
    <3>2. \/ pingAge < PingGap
          \/ responseAge < S - M /\ sentAge < S - M
      BY <1>p, <2>3, <3>a, <3>b DEF PingDue
    <3> QED
      BY <1>7, <1>p, <2>3, <3>1, <3>2 DEF Ping
  <2> QED
    BY <2>1, <2>2, <2>3
<1>8. CASE ElementSends
  BY <1>8, <1>p DEF ElementSends, DataWrite
<1>9. CASE LinkBreaks
  BY <1>9, <1>p DEF LinkBreaks
<1>10. CASE LinkCloses
  BY <1>10, <1>d DEF LinkCloses
<1>11. CASE Tick
  BY <1>11, <1>p DEF Tick, Older
<1>12. CASE UNCHANGED vars
  BY <1>12, <1>p DEF vars
<1> QED
  BY <1>1, <1>2, <1>3, <1>4, <1>5, <1>6, <1>7, <1>8, <1>9, <1>10, <1>11, <1>12
     DEF Next, Message

\* The inductive invariant of the keep-alive holds in every state the device can reach.
THEOREM Invariance == Spec => []IInv
<1> QED
  BY InitIInv, NextIInv, PTL DEF Spec

\* Every variable of the keep-alive keeps its type.
THEOREM TypeCorrect == Spec => []TypeOK
<1>1. IInv => TypeOK
  BY DEF IInv
<1> QED
  BY <1>1, Invariance, PTL

\* On a live link a registered device is never silent for the activity timeout that its
\* last ping() worked with: Network::ping sends a ping before the server may give up.
THEOREM DeviceKeepsAlive == Spec => []KeepAlive
<1>1. IInv => KeepAlive
  <2> SUFFICES ASSUME IInv, link = "up", granted # 0 PROVE sentAge < granted * Second
    BY DEF KeepAlive
  <2>1. granted \in Timeouts
    BY DEF IInv, TypeOK
  <2> QED
    BY <2>1, ProductsLemma DEF IInv, TypeOK, LoopInv, SentInv
<1> QED
  BY <1>1, Invariance, PTL

\* Network::ping never returns false on a link whose server answers within Latency.
THEOREM LiveServerIsKept == Spec => []NoFalseTimeout
<1>1. IInv => NoFalseTimeout
  <2> SUFFICES ASSUME IInv, link = "up", granted # 0
               PROVE  responseAge < (serverActivityTimeoutS + Grace) * Second
    BY DEF NoFalseTimeout
  <2>1. granted \in Timeouts /\ serverActivityTimeoutS \in Timeouts
    BY DEF IInv, TypeOK
  <2>2. CASE replyAge = -1
    BY <2>1, <2>2, ProductsLemma DEF IInv, TypeOK, LoopInv, ResponseInv
  <2>3. CASE replyAge >= 0
    BY <2>1, <2>3, ProductsLemma DEF IInv, TypeOK, LoopInv, ReplyInv, ResponseInv
  <2> QED
    BY <2>2, <2>3 DEF IInv, TypeOK
<1> QED
  BY <1>1, Invariance, PTL

\* A registered device leaves a dead link one loop after the grace period at the latest.
THEOREM DeadLinkIsLeft == Spec => []DeadLinkDetected
<1>1. IInv => DeadLinkDetected
  <2> SUFFICES ASSUME IInv, link # "down", granted # 0
               PROVE  responseAge < (granted + Grace) * Second + LoopBound
    BY DEF DeadLinkDetected
  <2>1. granted \in Timeouts
    BY DEF IInv, TypeOK
  <2> QED
    BY <2>1, ProductsLemma DEF IInv, TypeOK, LoopInv, ResponseInv
<1> QED
  BY <1>1, Invariance, PTL

\* Both together: what ping() takes for a dead link is one, and it takes every dead link for one.
THEOREM SilenceIsJudgedRightly == Spec => []SilenceIsJudged
<1>1. NoFalseTimeout /\ DeadLinkDetected => SilenceIsJudged
  BY DEF SilenceIsJudged
<1> QED
  BY <1>1, LiveServerIsKept, DeadLinkIsLeft, PTL
=============================================================================
