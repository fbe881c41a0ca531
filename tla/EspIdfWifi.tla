----------------------------- MODULE EspIdfWifi -----------------------------
(***************************************************************************)
(* The Wi-Fi driver for ESP-IDF, shared by two tasks: the main loop, which *)
(* sets it up, connects, reads, writes and disconnects, and the event      *)
(* task, which is told what became of the association and of the address.  *)
(* One mutex guards the TLS client.  An AutoLock releases the mutex when   *)
(* it goes out of scope, also where it was unlocked before; the system     *)
(* aborts when a task gives back a mutex that another one holds.           *)
(***************************************************************************)
EXTENDS Naturals, Sequences

CONSTANT MostEvents   \* bound: events waiting for the event task
ASSUME WifiAssumption == MostEvents \in Nat \ {0}

VARIABLES
  radio,      \* "off", "idle", "trying", "associated"
  leased,     \* the station has an address
  events,     \* posted, not yet handled
  apMode,     \* DEVICE_MODE_CONFIG
  initDone,
  isWifiConnected, isIpReady, isServerConnected,
  client,     \* a TLS client exists
  holder,     \* of the mutex: "none", "main", "event"
  mainAt,     \* where the main loop is
  after,      \* what follows disconnect(): "drop" when an AutoLock is still to be destroyed
  eventAt     \* where the event task is

flagVars == <<isWifiConnected, isIpReady>>
radioVars == <<radio, leased, apMode, initDone>>
clientVars == <<isServerConnected, client>>
wifiVars == <<radioVars, events, flagVars, clientVars, holder, mainAt, after, eventAt>>

WifiInit ==
  /\ radio = "off" /\ leased = FALSE /\ events = << >> /\ apMode = FALSE /\ initDone = FALSE
  /\ isWifiConnected = FALSE /\ isIpReady = FALSE /\ isServerConnected = FALSE
  /\ client = FALSE /\ holder = "none" /\ mainAt = "idle" /\ after = "idle" /\ eventAt = "idle"

-----------------------------------------------------------------------------
\* The radio and the network.
Happens(event) == Len(events) < MostEvents /\ events' = Append(events, event)

Associates ==
  /\ radio = "trying" /\ radio' = "associated" /\ Happens("connected")
  /\ UNCHANGED <<leased, apMode, initDone, flagVars, clientVars, holder, mainAt, after, eventAt>>

GetsAddress ==
  /\ radio = "associated" /\ ~leased /\ leased' = TRUE /\ Happens("got_ip")
  /\ UNCHANGED <<radio, apMode, initDone, flagVars, clientVars, holder, mainAt, after, eventAt>>

LosesAddress ==
  /\ leased /\ leased' = FALSE /\ Happens("lost_ip")
  /\ UNCHANGED <<radio, apMode, initDone, flagVars, clientVars, holder, mainAt, after, eventAt>>

Drops ==
  /\ radio \in {"trying", "associated"} /\ radio' = "idle" /\ leased' = FALSE
  /\ Happens("disconnected")
  /\ UNCHANGED <<apMode, initDone, flagVars, clientVars, holder, mainAt, after, eventAt>>

-----------------------------------------------------------------------------
(***************************************************************************)
(* The event task: eventHandler.                                           *)
(***************************************************************************)
\* esp_wifi_connect: nothing when the radio is off or busy.
Connecting == radio' = IF radio = "idle" THEN "trying" ELSE radio

\* mutant: the association is forgotten, the address is not
OnlyAssociationLost == isWifiConnected' = FALSE /\ UNCHANGED isIpReady
FlagsLost == isWifiConnected' = FALSE /\ isIpReady' = FALSE

HandleEvent ==
  /\ eventAt = "idle" /\ events # << >>
  /\ CASE Head(events) = "start" -> Connecting /\ UNCHANGED flagVars
       [] Head(events) = "connected" -> isWifiConnected' = TRUE /\ UNCHANGED <<radio, isIpReady>>
       [] Head(events) = "got_ip" -> isIpReady' = TRUE /\ UNCHANGED <<radio, isWifiConnected>>
       [] Head(events) = "lost_ip" -> isIpReady' = FALSE /\ UNCHANGED <<radio, isWifiConnected>>
       [] Head(events) = "disconnected" -> FlagsLost /\ UNCHANGED radio
  /\ eventAt' = IF Head(events) = "disconnected" THEN "close" ELSE "idle"
  /\ events' = Tail(events)
  /\ UNCHANGED <<leased, apMode, initDone, clientVars, holder, mainAt, after>>

\* disconnect() in the event task, then another attempt.
EventLocks ==
  /\ eventAt = "close" /\ holder = "none" /\ holder' = "event" /\ eventAt' = "closing"
  /\ UNCHANGED <<radioVars, events, flagVars, clientVars, mainAt, after>>

EventCloses ==
  /\ eventAt = "closing" /\ eventAt' = "retry"
  /\ isServerConnected' = FALSE /\ client' = FALSE /\ holder' = "none"
  /\ UNCHANGED <<radioVars, events, flagVars, mainAt, after>>

EventRetries ==
  /\ eventAt = "retry" /\ eventAt' = "idle"
  /\ IF apMode THEN UNCHANGED radio ELSE Connecting
  /\ UNCHANGED <<leased, apMode, initDone, events, flagVars, clientVars, holder, mainAt, after>>

-----------------------------------------------------------------------------
(***************************************************************************)
(* The main loop.  A function waits for the mutex at one place and is      *)
(* inside at the next.                                                     *)
(***************************************************************************)
Inside == [read |-> "reading", avail |-> "counting", take |-> "taking", write |-> "writing",
           connect |-> "connecting", close |-> "closing"]

Calls(place, next) ==
  /\ mainAt = "idle" /\ mainAt' = place /\ after' = next
  /\ UNCHANGED <<radioVars, events, flagVars, clientVars, holder, eventAt>>

ReadCall == isServerConnected /\ Calls("read", "drop")
WriteCall == isServerConnected /\ Calls("write", "idle")
ConnectCall == isWifiConnected /\ isIpReady /\ ~isServerConnected /\ Calls("connect", "drop")
DisconnectCall == Calls("close", "idle")

MainLocks ==
  /\ mainAt \in DOMAIN Inside /\ holder = "none"
  /\ holder' = "main" /\ mainAt' = Inside[mainAt]
  /\ UNCHANGED <<radioVars, events, flagVars, clientVars, after, eventAt>>

\* Out of the mutex and on to the next place; "drop" where the AutoLock that was just unlocked
\* is destroyed next.
Leaves(place, places) ==
  /\ mainAt = place /\ holder' = "none"
  /\ mainAt' \in places
  /\ UNCHANGED <<radioVars, events, flagVars, after, eventAt>>

\* Without a client the function returns, its AutoLock still locked.
NoClient(place) ==
  ~client /\ Leaves(place, {"idle"}) /\ UNCHANGED clientVars

\* esp_tls_conn_read of nothing; esp_tls_get_bytes_avail; esp_tls_conn_read until it does not
\* ask to be called again.
Reads == (NoClient("reading") \/ (client /\ Leaves("reading", {"avail", "close"}))) /\ UNCHANGED clientVars
Counts == (NoClient("counting") \/ (client /\ Leaves("counting", {"take", "close", "drop"}))) /\ UNCHANGED clientVars
Takes == (NoClient("taking") \/ (client /\ Leaves("taking", {"take", "close", "drop"}))) /\ UNCHANGED clientVars

\* A write of 0 bytes leaves the client in place.
Writes ==
  \/ NoClient("writing")
  \/ /\ client /\ Leaves("writing", {"idle"}) /\ UNCHANGED client
     /\ isServerConnected' \in {isServerConnected, FALSE}

\* connect(): a client that is left over makes it fail, and SuplaDevice disconnects then.
ConnectsTo ==
  \/ /\ client /\ mainAt = "connecting" /\ holder' = "none" /\ mainAt' = "close" /\ after' = "idle"
     /\ UNCHANGED <<radioVars, events, flagVars, clientVars, eventAt>>
  \/ /\ ~client /\ Leaves("connecting", {"idle"}) /\ client' = TRUE /\ isServerConnected' = TRUE
  \/ /\ ~client /\ Leaves("connecting", {"close"}) /\ client' = TRUE /\ UNCHANGED isServerConnected

\* disconnect(), also in the middle of read(), connect() and setup().
Closes ==
  /\ Leaves("closing", {after})
  /\ isServerConnected' = FALSE /\ client' = FALSE

\* The AutoLock is destroyed: harmless when nobody has the mutex.
GiveBack ==
  IF holder = "event"
    THEN /\ radio' = "off" /\ leased' = FALSE /\ events' = << >> /\ apMode' = FALSE
         /\ initDone' = FALSE /\ isWifiConnected' = FALSE /\ isIpReady' = FALSE
         /\ isServerConnected' = FALSE /\ client' = FALSE /\ holder' = "none"
         /\ mainAt' = "idle" /\ after' = "idle" /\ eventAt' = "idle"
    ELSE /\ holder' = "none" /\ mainAt' = "idle" /\ after' = "idle"
         /\ UNCHANGED <<radioVars, events, flagVars, clientVars, eventAt>>
DropLock == mainAt = "drop" /\ GiveBack

\* setup() for one of the modes: the flags first, then the session and the radio when it ran
\* already; the radio reports that it lost the association.
Setup(ap) ==
  /\ mainAt = "idle" /\ isWifiConnected' = FALSE /\ isIpReady' = FALSE
  /\ apMode' = ap /\ initDone' = TRUE /\ after' = "stop"
  /\ mainAt' = IF initDone THEN "close" ELSE "start"
  /\ UNCHANGED <<radio, leased, events, clientVars, holder, eventAt>>

StopRadio ==
  /\ mainAt = "stop" /\ mainAt' = "start"
  /\ radio' = "off" /\ leased' = FALSE
  /\ IF radio \in {"trying", "associated"} THEN Happens("disconnected") ELSE UNCHANGED events
  /\ UNCHANGED <<apMode, initDone, flagVars, clientVars, holder, after, eventAt>>

StartRadio ==
  /\ mainAt = "start" /\ mainAt' = "idle" /\ radio' = "idle"
  /\ IF apMode THEN UNCHANGED events ELSE Happens("start")
  /\ UNCHANGED <<leased, apMode, initDone, flagVars, clientVars, holder, after, eventAt>>

\* uninit() unregisters the handlers before the restart.
Uninit ==
  /\ mainAt = "idle" /\ eventAt = "idle" /\ initDone
  /\ radio' = "off" /\ leased' = FALSE /\ events' = << >> /\ apMode' = FALSE /\ initDone' = FALSE
  /\ isWifiConnected' = FALSE /\ isIpReady' = FALSE /\ isServerConnected' = FALSE /\ client' = FALSE
  /\ UNCHANGED <<holder, mainAt, after, eventAt>>

WifiNext ==
  \/ Associates \/ GetsAddress \/ LosesAddress \/ Drops
  \/ HandleEvent \/ EventLocks \/ EventCloses \/ EventRetries
  \/ ReadCall \/ WriteCall \/ ConnectCall \/ DisconnectCall \/ MainLocks
  \/ Reads \/ Counts \/ Takes \/ Writes \/ ConnectsTo \/ Closes \/ DropLock
  \/ \E ap \in BOOLEAN : Setup(ap)
  \/ StopRadio \/ StartRadio \/ Uninit
WifiSpec == WifiInit /\ [][WifiNext]_wifiVars

WifiTypeOK ==
  /\ radio \in {"off", "idle", "trying", "associated"}
  /\ events \in Seq({"start", "connected", "got_ip", "lost_ip", "disconnected"})
  /\ {leased, apMode, initDone, isWifiConnected, isIpReady, isServerConnected, client} \subseteq BOOLEAN
  /\ holder \in {"none", "main", "event"} /\ after \in {"idle", "drop", "stop"}
-----------------------------------------------------------------------------
\* The client is never destroyed by one task while the other works with it, although every
\* function that unlocks early gives the mutex back a second time.
Busy == {Inside[place] : place \in DOMAIN Inside}
ClientExclusive == ~(mainAt \in Busy /\ eventAt = "closing")

\* When both tasks are at rest and no event waits, the flags say what the radio does, and a
\* session has a client: no order of setups, losses and late events leaves the device waiting
\* for a network that it has, or using one that it lost.
WifiFlagsAgree ==
  mainAt = "idle" /\ eventAt = "idle" /\ events = << >> =>
    /\ isWifiConnected = (radio = "associated") /\ isIpReady = leased
    /\ isServerConnected => client

\* The main task and the event task do not break what the other relies on.
WifiTasksAgree == ClientExclusive /\ WifiFlagsAgree
=============================================================================
