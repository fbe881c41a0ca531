# TLA+ models and proofs of supla-device

supla-device (the `src/` of this repository) is the library that turns an
Arduino, ESP or Linux board into a Supla device: it registers with a Supla
server over one TCP connection, reports the values of its channels and executes
what the server, buttons and sensors ask for.  This directory holds TLA+ modules
of it, TLC configurations that check them on small instances, and TLAPS proofs.
`tlc -config X.cfg M` runs a check, `tlapm M.tla` a proof; `PROJECT.json` lists
components, runs, theorems, hazards and, for every definition, the lines it models.

## The system

| Component | State | Operations | Hard to get right |
|---|---|---|---|
| **SuplaDeviceClass** `SuplaDevice.cpp` | registration, wait and time stamp, three failure counters, device mode, restart clock, triggers | `begin`, `iterate` and its parts, `onRegisterResult`, `handleAction`, `scheduleSoftRestart` | every wait shares one variable and one stamp; `_millis` is read once and stamps move meanwhile; timers and the web server call in; failures in any order |
| **Network** `network/network.cpp` | three time stamps, activity timeout | `Connect`, `ping`, `message_received`, `data_read/write` | talk often enough for the server, never leave a live server, leave a dead one |
| **Network drivers** `network/*.h`, `porting/` | client, session, station, flags | `setup`, `connect`, `read`, `write`, `disconnect`; on ESP-IDF an event task | a session may end under the rest of a pass; two tasks and one mutex |
| **srpc / proto** `supla-common/` | input and output buffer, queues | `srpc_async__call`, `srpc_iterate`, `srpc_getdata`, one function for each call | short writes, packets torn over reads, a buffer that outlives its connection; two halves built with different limits |
| **Storage** `storage/storage.cpp` | section offsets and sizes, save timer; the medium | `init`, dry-run validation, load, save, `commit` | power failure between any two writes; another firmware at the next start |
| **Config** `storage/config.cpp`, `key_value.cpp`, `nvs_config.cpp` | typed values under keys | getters, setters, `commit`, factory reset | one buffer for all settings, limits, identity kept |
| **Web server** `network/web_server.cpp`, `html/` | parser of a posted form | `parsePost`, `handleResponse` of each field | keys, values and escapes cut by chunks; what a page shows must be taken back |
| **Software update** `esp_idf_ota.cpp` | partitions, progress | `start`, `iterate` | connection and power lost during minutes of writing |
| **Channel, AtChannel, Element** | value, update flag, action bits; a shared 100 ms throttle | `setNewValue`, `sendUpdate`, `pushAction`, `popAction`, `iterateConnected` | timers set values while the loop sends them |
| **RollerShutter** (+ bistable, three-button) | position, target, direction, calibration, four time stamps | commands, `onTimer`, load/save | commands from the loop, motion in the timer, two relays that must never be on together |
| **Relay**, LightRelay, VirtualRelay, BistableRelay, InternalPinOutput | output, duration and stamp, status | `turnOn/Off`, `toggle`, `iterateAlways`, load/save | timed switching against new commands and restarts |
| **Button, SequenceButton, ActionTrigger** | debounce, click and hold counters; recorded times; enabled handlers | `onTimer`, `onFastTimer`, `handleChannelConfig` | clicks against holds; which handler of a press stays enabled |
| **RGBW, dimmer** | colour, brightness, what the lamp is at | server values, stepwise dimming, `onTimer` | five values that remember each other; fading in the timer |
| **Sensors, meters, inverters** | last value, retries, reply being parsed | `iterateAlways`, `onInit`, `getValue` | silence, fragments and late answers must not become readings |
| **Conditions** | fired or armed | `activateAction` | values that are not available; armed again or not |
| **Linux port** `porting/linux/`, `examples/linux/main.cpp` | YAML, parsers and sources, identity file | `main`, `loadChannels`, `refreshSource`, `saveGuidAuth` | shared parsers and sources; a process killed at its start |
| **LEDs, log, clocks** `device/`, `clock/`, `uptime.cpp` | LED sequence, ring of texts, time | `iterateAlways`, `onTimer`, `log` | a timer and another task in between |
| Cryptography (nettle), examples, server-only helpers | | | not the library's own logic |

Interactions.  The user's program calls `SuplaDevice.iterate()` for ever.  Each
call checks restart and triggers, lets every element run (`iterateAlways`),
then brings up network, connection and registration, reads at most one message
(`srpc_iterate` -> `message_received` -> element or device), pings, and lets
elements send (`iterateConnected`).  A 10 ms timer calls every `onTimer`, a
0.5-1 ms timer every `onFastTimer`; they are interrupts, OS timers, tasks or
threads, depending on the platform, and on device builds the mutexes are
no-ops.  Elements talk to each other and to the device by local actions
(`runAction` -> `handleAction`), in whatever thread they run.  Storage is used
at `begin()` and, between iterations, every save period.

## What each part must guarantee

- *Device*: ends up registered whenever network and server work; holds itself
  registered only where the server does; registers once per connection; stays
  away as long as it meant to; sets the network up again and restarts after the
  configured numbers of failures; is off line in configuration mode; restarts
  when a restart is scheduled.
- *Link*: never silent for the activity timeout; no false and no missed timeout;
  what is taken was sent, whole and in order, and what one half of srpc packs the
  other half unpacks; a driver works on a living session or on none; clocks are right until
  `millis()` ends, and where the system counts the time, always.
- *What is kept*: element states as last saved; settings as last committed; the
  identity for ever; a page saved again changes nothing but texts it cannot show; the image that boots is signed.
- *Channels*: the last value set is the last one sent; no gesture is lost or told
  twice, except where the timer and the loop are at the queue in the same moment; no channel is starved.
- *Controls*: relays of a shutter exclusive and with a pause; the last command wins;
  a timed relay is on no longer than it was told; the channel shows the circuit; a
  lamp remembers its brightness and comes to it; a gesture is what the fingers did.
- *Readings*: what is shown was measured, silence shows; a condition fires once.

## Modules

`Network`, `SuplaDevice`, `RollerShutter` and `StateStore` have a plain `Init` and
`Next`; every other module prefixes its own (`RelayInit`, `RelayNext`,
`RelayTypeOK`), so that `MCControls` and `MCServices` can EXTEND them all.  Those
two compose parts that
share no state: a variable `moving` says which part a behaviour moves, the others stay
in one state of their start, and the state space is the sum of the parts, not
the product.  Where parts do share state they are in one module (button and
trigger, configuration and form, both tasks of the Wi-Fi driver, a driver and the loop).

| Module | Models | How state and actions correspond |
|---|---|---|
| `SuplaDevice` | `iterate()`, one action per function, with srpc/proto input, web server and software update as far as they touch it | see below |
| `Network` | keep-alive of one connection | ages of the three stamps; `Ping` is `Network::ping` with the loop's reaction, each kind of message `message_received` knows for the keep-alive is an action; `granted` remembers the timeout the last `ping()` used, `replyAge` the answer on its way |
| `NetDriver` | Arduino Wi-Fi, Ethernet boards and shield, Linux sockets, under the main loop | a driver is a record and a method a function of it; `used` says what the last read or write worked on |
| `EspIdfWifi` | the ESP-IDF driver: main task and event task | one place for each task; `AutoLock` gives the mutex back at the end of its scope |
| `SrpcLink` | one direction of the link, with queues and both buffers | the stream is cells of packets; a short write, a chunk, a lost connection are actions |
| `SrpcCalls` | every sending function and every case of `srpc_getdata` | tables of sizes: what a call puts into a packet, what the other end accepts, from which version |
| `ExtendedValue` | values of meters, thermostats and counters, several of them in one extended value | cells of a buffer; what was put in is walked through again |
| `StateStore`, `Storage` | abstract and detailed element state storage | see below |
| `ConfigStore` | `KeyValue`, `Config`, LittleFS and NVS | settings with type and limits; `store` in memory, `flash` on the medium, `stored` remembers what each getter may give |
| `WebForm` | the pages and posted forms, extends `ConfigStore` | a form as cells cut into chunks anywhere; ESP-IDF's own parser, Arduino's library; `ReadFromAttribute` is what a browser reads of a text that is put into `value="..."` as it is |
| `Ota` | `EspIdfOta::start` under the update mode of the device | partitions as sequences of blocks; power or connection lost at any step |
| `ChannelSync` | `Channel`, `Element::iterateConnected`, against a timer | a value is two halves, copied one after the other |
| `TriggerChannel` | `AtChannel` and the messages of an `ActionTrigger` | bits and flag; `popAction` and `pushAction` in steps, either in the middle of the other; `collided` remembers when they were |
| `Button`, `ActionTrigger` | debouncing, clicks, holds, enabled handlers | a call of the timer is a step; `runs` and `seen` count in a gesture |
| `SequenceButton` | recording and matching of sequences | `gaps` are the times of the present gesture |
| `Relay` | the five relay classes | commands between any two steps of a pass, also between the look at the clock and `toggle()`; `circuit` is what the relay does, `crossed` that it was turned off in that moment |
| `Rgbw`, `Fade` | brightness and its memory; the timer that fades and the LED classes | `Fade` takes a command assignment by assignment, the timer in between |
| `RollerShutter` | commands of the main loop and the timer, in three classes | see below |
| `Sensor`, `Meter`, `PvMeter` | readers, corrections, conditions; electricity meters; inverters over sockets | an answer is a reading or lost; `good`, `taken` with `heard` and `inverterSaid` are what the device behind said last |
| `LinuxSensors`, `LinuxDaemon` | channels, parsers and sources of a Linux device; its start and identity file | files are choices of a small set; `Killed` ends the process between any two writes |
| `Indicators`, `Clocks` | status LED and last-state log; uptime and clock | timer, loop and web task interleaved; `now` is the time, `millis` what `millis()` returns of it, which begins again on all but Linux |
| `SuplaDevice_proofs`, `RollerShutter_proofs` | theorems about one module | extend their module |
| `Network_proofs`, `Channels_proofs`, `Readings_proofs` | theorems about keep-alive, link, drivers and update; buttons, channels and triggers; sensors, meters and inverters | extend all of them |
| `Controls_proofs` | theorems about relays, lights and sequence buttons, and about a device of many elements | extends `MCControls` and the two before |
| `Settings_proofs` | theorems about the configuration and its pages | extends `MCWebForm` |
| `Storage_proofs` | theorems about element states, the identity file, LED, clocks and log, and about all the services of a device | extends `MCServices`, `Network_proofs` and `Settings_proofs` |
| `MC*` | constants for TLC, compositions | |

### SuplaDevice

`pc` names the next function of `iterate()`.  A stamp is kept as its age.  What
the code computes as `_millis - stamp` is `Since(age)`: the age when `iterate()`
began, or a huge number if the stamp is younger than `_millis` (unsigned wrap).
`IterateBegin`, `CheckIfRestartIsNeeded`, `HandleLocalActionTriggers`, `Gate`
(the waiting test, `enterIterateConnected`, the stamp, the mode switch),
`IterateNetworkSetup`, `AlreadyConnected`/`ConnectOk`/`ConnectFails`,
`SrpcFailure`/`NothingReceived`/`SrpcIterate` (with `MessageReceived` and the
handlers it calls), `Register`/`AwaitRegistration`/`RegistrationTimeout`,
`Ping`/`ActivityTimeout` (`Network::ping` keeps or gives up the link),
`IterateElements`, `StartSwUpdate`/`IterateSwUpdate` follow the code in order.
The environment may move between any two: `HandleAction` and `HandleWebRequest`
(other threads), `ServerSends`, `LinkDrops`, `NetworkChanges`, `Recover`, `Tick`.
A packet is two halves so that a read may end inside one, and half a packet may
be left behind by a connection that breaks.  `regSent`, `reply`, `notReadyAge`,
`owed`, `owedAge`, `session` and `healthy` are history or environment variables.

### Storage

An address is a unit of the medium written as a whole: storage preamble, section
preamble, then the parts of the element states.  A firmware (`Layouts`) is the sequence of
these parts, pairs of an element and a number, in the order in which they are written.  A
datum carries the part it belongs to, so a state assembled from foreign or mixed parts is
seen as `Garbled`.  Each
`updateStorage` is an action; `PowerOff` is possible everywhere and `PowerOn(l)`
may start another firmware `l`.  `writeThrough` is the medium, chosen at the start:
FRAM and AVR EEPROM take each write, the ESP EEPROM emulation takes everything at
`commit()`, which is assumed to be atomic.  `Refines` speaks of the second kind,
`UnchangedSurvives` of both.

### RollerShutter

A command is three steps, because the timer may interrupt it: choosing the target
(`HandleNewValueFromServer`, `HandleAction`), `WriteTarget`, and `AnnounceTarget`
(flag and `lastDirection`).  Two more precede them when the server sends new travel times:
`AskForCalibration` and `ForgetPosition` (`roller_shutter.cpp:116`, `:117`).  A calibration
that ends between the two leaves a shutter of unknown position that asks for none, until the
next command or times do; `missed` remembers it, and `TypeOK` says that there is no other way.
`OnTimer` is one call, with one disjunct per path: a pulse, the pause, a stop or
the operation timeout, calibration, following a movement, a new target.  `variant`
is the class, since the base code calls overridden functions on each path:
`StopPins` and `InMove` gather the overrides.  `motor` is what the pins make the
motor do; on the bistable class a pulse means start when still and stop when
moving.  The limit switches of a motor are not part of it: a motor at its end
counts as running until the code stops it, as in the code.  A tick is long compared
with the 10 ms of the timer, which has followed the movement before the next.


## Runs

| Run | Shows | Bounds |
|---|---|---|
| `device_safety` | `SetupNotStarved`, `ResetThresholdNotSkipped`, `FreshResultAgrees`, `RegistersOnce`, `WaitsAreKept` | waits of 1-2 ticks in the code's order, setup every 2 failures, reset at 3, one tick inside a pass, up to six halves of packets unread: a result can stay behind two requests and outlive its connection |
| `device_recovers` | `Recovers` | waits of 1 tick, counting after one not-ready pass, refusals but no version errors |
| `device_modes` | `ConfigModeIsOffline`, `RestartComes`, `ConfigModeTimesOut` | all waits 1 tick, no time passes inside a pass, failures not counted; boots in every mode |
| `roller_shutter` | `MotorFollows`, `PauseBetween`, `LastCommandWins` | three positions, travel times known (2) or not (0), pause and pulse 1 tick, timeout above the travel time: each reversal, timeout and calibration occurs within any other |
| `controls` | `ServerKnows`, `ServerCatchesUp`, `ChannelShowsCircuit`, `RelayTimes`, `LightsAreRight`, `NoiseFiltered`, `LocalActionOnce`, `ReadingsAreShown`, `CrossingFires`, `ParsedIsSaid` | see below |
| `services` | `KeepAlive`, `SilenceIsJudged`, `TakenInOrder`, `EachIsTaken`, `PackedIsUnpacked`, `SettingsAreKept`, `PageKeepsSettings`, `FormIsStored`, `Refines`, `UnchangedSurvives`, `BootsVerified`, `WifiTasksAgree`, `DriversAgree`, `DeviceTells` | see below |
| `device_refusal` | **violated**: `TimeoutMeansNoReply` | finding 1 |
| `device_stale_result` | **violated**: `ServerAgrees` | finding 2; only requests and accepted registrations |
| `roller_calibration` | **violated**: `CalibrationStarts` | finding 3; relays only |
| `rgbw_dims` | **violated**: `IterationDims` | finding 4; the code's own steps |
| `registration` | **violated**: `RegistrationFits` | finding 5; the code's own sizes |
| `identity` | **violated**: `GuidIsKept` | finding 6 |

Each passing run also checks a type invariant, except the two of liveness, whose
module is typed by `device_safety`.  Only the order of the time constants matters to
the guards, so small numbers in the same order reach the same branches; an age stops
at `AgeCap`, above every limit it is compared with.  In `SuplaDevice`, `FailBound`
stops the failure counter above the reset threshold and `BufferBound` limits requests
under way; registration results are limited by the protocol itself.

Bounds of `controls` (`moving` in brackets):

- `[trigger]` clicks up to 2, one repeated hold, debounce and noise filter 1 tick, hold 3,
  multiclick 4: each of noise, click, double click and hold falls into another's window; five
  configurations of the server (nothing, single, double click, hold, press with click).
- `[actions]` `ClicksTold` 2, three configurations; the timer comes between any two accesses to
  the bits and the flag, and the loop between those of the timer.
- `[sequence]` sequences of at most `SequenceSize` 2, gestures of at most `MostGaps` 3, so one
  longer than what is kept; times up to `LongestGap` 10 over a word of 9.
- `[channels]` two channels, one of them set by the timer, two values of two halves: a torn
  copy is seen.
- `[relay]` every class; durations of nothing and 2 ticks, `Second` 2, a pass up to 2 late,
  `MostLit` 5 and `MostSwitched` 2 bound the lamp's history; commands come at every point of a pass.
- `[rgbw]` `Brightest` 3 with steps of 1 and 2, two hues, server levels 0 and 3.
- `[fade]` `Top` 12 levels of the lamp, `FadeTimes` at once or 5, `Delays` of the timer 1 and 3,
  two shapes of the limits, red at none and full: `red` starts at -1 and has the longest way. The
  lamp has `SettleTime` to get there, twice the fade time (a step is half of what the time
  asks for, rounded up) and the longest delay.
- `[sensor]` two readings, `MostRetries` 3 as in the code, a `char` of `CharRange` 6 values,
  `MostImpulses` 6 and all conditions over 4 and 9: values below, between and above.
- `[meter]` two phases that answer or not, currents below and above the limit of the coarse unit.
- `[inverter]` two reports, `MostTries` 1 and `ReplyTimeout` 1: the third failure is past both.
- `[linux]` fifteen configuration files, right and wrong, two files of values written at most
  `MostWrites` 2 times.

Bounds of `services`:

- `[network]` half-second ticks, timeouts 4 s and 5 s with margin 2 s and grace 3 s: both reasons
  to ping occur, rounding to seconds matters, timeouts change on the way.
- `[link]` three calls of three sizes (one too long, one into which the header of another packet
  fits), two faults, queues of 2, `rr_id` modulo 4, chunks of the length of a packet and not.
- `[calls]` the real sizes; captions and packs at, under and over their limits.
- `[web]` the real limits of texts but for the buffer (`BufferSize` 440, so that one text more
  does not fit); two posts; chunks of one cell and of the real buffer; texts with a quote and with a
  character reference, in fields that are shown and in one that is not.
- `[storage]` two firmwares, with one and with two elements of one or two units (`SizeBound` 3
  parts), two values.  Firmwares of equal total size are excluded (`LayoutsAssumption`): the code
  compares nothing else.
- `[update]` two partitions, seven images (whole, cut, signed for another one, unsigned, empty),
  three updates.
- `[wifi]` four events waiting.  `[driver]` three setups and one session lost.
- `[indicators]` a log of 12 characters with texts of 2, 4 and 12, two log calls and one order
  of the LED.  `[uptime]`, `[clock]` seconds of 2 ms, 16 ms in all; `millis()` begins again after 9,
  numbers of 64 bits have 29 values and an int is below 3: a pass too long for an int, the end of
  `millis()` and counts after it occur, with all three kinds of platform.
- `[values]` a value of 14 cells and three values in it.  `[daemon]` two identities made.

`services` and the two runs of calls and pages turn deadlock detection off: their
environments are finite (calls, posts, updates, events), and stop when used up.

Fairness.  Device (`FairSpec`): the loop makes progress (`WF MainLoop`, the sketch's
`loop()` calls `iterate()` for ever), the clock ticks (`SF Tick`; strong because
a healthy server's answer and the gap between two calls of `iterate()` suspend it),
a healthy server answers a registration, and it does not answer
the pings of a connection on which the device has not registered, so that the
activity timeout ends it (`SF ActivityTimeout`; strong because `registered` is
looked at once in a pass; `Network` shows that the timeout comes).  The roller shutter's
timer and clock go on, and the main loop ends a command it began.  `ChannelFairness`:
the timer and the loop end what they began, 100 ms pass, and the loop registers and
iterates its elements (`SF`: between two passes it may set values as often as it likes).
`LinkFairness`: both ends call `srpc_iterate` again and again, and what is written can be
read.  Nothing is assumed of buttons, pages, links or servers otherwise.  `healthy` is
set once by `Recover` and models "from now on everything works".  `RestartComes` and
`ConfigModeTimesOut` assume `SettlesDown`: a user who presses "restart" again and again
before the delay is over can postpone it for ever.

## Findings

1. `device_refusal`.  After a refused registration or version error
   `lastIterateTime` is younger than `_millis`; in the same pass
   `_millis - lastIterateTime > 10*1000` (`SuplaDevice.cpp:787`) wraps, "No reply
   to registration message" is taken although there was one, and the wait of 10 s
   (15 s) becomes 2 s.
2. `device_stale_result`.  `srpc_iterate` handles one message in a pass and the
   input buffer is not emptied when a connection ends.  If two requests are left
   in it when the link breaks, the result of the next registration queues up
   behind them; if that link breaks too, the result is handled on the third
   connection, before the device registers there.  It takes itself for
   registered ("Device is registered and everything is correct",
   `SuplaDevice.cpp:798`) where the server knows nothing of it, until the
   activity timeout.  `FreshResultAgrees` says that this is the only way.
3. `roller_calibration`.  "If calibrationTime is not set, then it means we should
   start calibration" (`roller_shutter.cpp:334`): it is not started if the motor
   runs the right way already (travel times changed meanwhile), and if the travel time is
   not known the 60 s timeout set with it is reset to 0 (`:338`) by the next timer
   call.  Either way the motor is driven until another command comes.
4. `rgbw_dims`.  "If direction is dim, then brightness step is set to negative"
   (`rgbw_base.cpp:331`), but a step that would go below the lowest brightness is
   replaced by a positive one (`:338`): from 8 with step 5 and lower end 5 the light
   gets brighter while it dims, and never reaches the end where the direction turns.
5. `registration`.  `proto.h:129` reserves room for "128 channels x 21 B"; the
   registration in use needs 25 B a channel and is refused by `srpc_async__call` from
   108 channels on (27 on an Arduino Mega), so that the device never registers.
6. `identity`.  "When config storage is available, GUID will be generated
   automatically" if it is empty (`SuplaDevice.cpp:186`): with MQTT chosen AuthKey is
   not loaded, so `begin()` finds it empty and generates both, replacing a stored GUID.

What properties leave out, and say so.  `LastCommandWins`: a command that arrives while
the operation timeout of the previous one expires is taken for that one and dropped; and
the pulsed classes cannot stop during a pulse and the pause after it, and go past a near
target.  `WaitsAreKept`: `Gate` does not move `lastIterateTime` while `registered` is -1
(`SuplaDevice.cpp:353`), so a wait set then is counted from the last registration, and if
the network goes away during registration the not-ready passes follow each other without
their 100 ms.  `EndsOff`: a bistable relay that was switched off by hand is turned on when
its time is over.  `FormIsStored`: a text too long for the parser's buffer when it is
encoded.  `PageKeepsSettings`: texts with a double quote or a character reference, which
the pages show without escaping (`wifi_parameters.cpp:41` and the other elements), so that
what is saved again is cut at the quote, or has the character instead.

`ActionsAreTold`: two gestures of which the timer pushes one while the loop takes the other
off the queue (`at_channel.cpp:36`: one read, one write).  Either may be lost, told again, or
left without the flag that makes the loop come for it, until it comes again by itself; all
others are told once.  Not on an ESP8266, whose timer runs in the loop's thread, and seldom
elsewhere.  `EndsOff`, too: a relay that is turned off by a timer or an interrupt between the
look at the clock and `toggle()` (`relay.cpp:67-68`) is turned on, and for ever when no
duration is kept.

`ReadingsAreShown`: what the code keeps although the device behind is silent, namely the
distance of an `HC_SR04` after its count of lost echoes (8 bits) has come round, until it has
counted to the limit again (`HC_SR04.cpp:62`, `:107`); a BME280 that answers with something
that is not a number; the currents of a meter that is silent (`PzemV3.h:64`, and
`resetReadParameters` in general) and all that one silent phase among others said last; an
inverter that takes the connection and never answers, and a SolarEdge.  What is shown then
is still the last that was said, and the properties say so.

`DeviceTells`: the uptime of the device and of the connection until `millis()` begins again
(49.7 days on an Arduino or an ESP) or a pass takes longer than an int has seconds; the clock of
an AVR between a count that does not fit and the next answer of the server.  `millis()` is
a number of 32 bits there and is kept in 64 (`time.h:20`, `uptime.cpp:30`,
`clock.cpp:130`): the difference over its end is a number near 2^64, whose seconds, cut to an
int of 32 bits, are 1,267,015,352, some forty years, and in one of 16 bits 7864 or a negative
number, with which the timer counts nothing for up to nine hours.  The clock of an ESP is
kept by its system, so only `localtime`, which nobody shows, jumps, though the timer
counts the forty years second by second (one step here).

Weaknesses met while reading that no run shows, for a maintainer:

- *Threads.*
  `impulse_counter.cpp:69` copies a 64-bit count that the timer writes; the web task and the
  loop share the key-value list (`config.cpp:70`) and the restart clock
  (`SuplaDevice.cpp:1079`: a time stamp younger than `_millis` wraps); `LastStateLogger::log` may unlock
  what it did not lock.
- *Numbers.*  `scheduleSave` with a delay above the save period puts the stamp in the future
  (`storage.cpp:346`); all ages in other places are also differences over the end of `millis()`, which
  end most waits at once after 49.7 days; corrections
  are added to "not available" too (`channel.cpp:54`, `:72`), and the first correction of a
  channel wins over later ones; the factor of reactive power is 10000 in `PzemV2.h:79` and `three_phase_PzemV3.h:105` and
  100000 in `PzemV3.h:94`; `port: -1` is asked of the resolver as a service; a sequence of more than 30
  times is matched by its head, its changes are counted in 8 bits, its times cut at 65535 ms,
  times below 20 ms never match; a fade rises slower than it falls (truncation) and
  `onTimer` reads `millis()` twice.
- *Silence.*  The parsed meter says old values within the refresh time; `solaredge.cpp` gives `atof`
  what `strtok` found, also if it found nothing.
- *Network.*  `linux_network.cpp` loses a socket for each address that does not answer, tries every
  address with the family of the first, ignores the result of `SSL_connect`, and writes to a
  null `ssl` for the rest of a pass in which the session was closed; Ethernet drivers register their
  handlers again at every setup; a server that accepts connections and never answers resets
  the failure counter (`SuplaDevice.cpp:777`); functions of `EspIdfWifi` that unlock early give the
  mutex back a second time when their `AutoLock` goes out of scope.
- *Configuration.*  `removeAll()` and rewriting GUID and AuthKey are separate steps
  (`SuplaDevice.cpp:1030`); `finalizeSaveState` with no element yet writes over the storage
  preamble (`storage.cpp:217`); a state of several writes may be torn on media that take each
  write (`storage.cpp:144`); the body of a form is terminated before it is known whether it
  could be read (`esp_idf_web_server.cpp:134`); on Linux `config["port"]` is
  read at the top level although `extras/examples/linux/README.md:173` puts it under `supla`,
  and the identity file is not synced (a loss of power, as opposed to a kill, may empty it).
- *Controls and indications.*  A `LocalAction` with two handlers deletes its client twice;
  `addBinaryParsed` ignores the multiplier; the LED's own sequence is lost after
  `LED_ALWAYS_OFF`, one of (0, 0) flickers, READY stays while the device registers again;
  the page of last states ends in dots with nothing cut when the log is just full; the Arduino
  clock jumps at the first tick after it was set; `getHour` on Linux shows the host's time zone.

## Proofs

`Network_proofs` proves, for all time constants that satisfy the module's
assumptions, `TypeCorrect`, `DeviceKeepsAlive` and `SilenceIsJudgedRightly` (from
`LiveServerIsKept` and `DeadLinkIsLeft`), the safety invariants of `[network]` in
`services`.  The assumptions: a timeout is at least twice the margin (else pings cannot be in
time), pings may follow each other within the margin, the loop comes round in
less than the margin and a live server answers in less than the ping gap.  The
properties are not inductive: `KeepAlive` is about now, but what keeps it true is
that at the last `ping()` the silence was below `granted - Margin` seconds, or a
ping was sent (`SentInv`); that a live server is kept needs that an unanswered ping is
young, that there is only one, and how old the response could be when it was
sent (`ReplyInv`, `ResponseInv`); `LoopInv` bounds the time since `ping()`.
`IInv` is their conjunction with `TypeOK`; `InitIInv` and `NextIInv` show it
inductive, one step per action.  Two lemmas carry the arithmetic: `SecondsLemma`
(comparing after division by 1000 is comparing with the multiple) and
`ProductsLemma` (the products of constants, so that the solver sees linear
facts).

`RollerShutter_proofs` proves for all times, positions and classes `TypeCorrect`,
`PulsesInStep` and `ReversedAfterRest`.  The invariant `IInv` adds to the types
and `MotorFollows` what the timer relies on: pins are on only while a direct motor
runs or a pulse is active (`PinsInv`), whatever switched a pin off has started the
pause (`RestInv`), and a movement that is followed started from a known position
(`StartInv`).  `StartLemma`, `StopLemma` and `StillLemma` show what each use of the
pins does in each class, `ShareLemma` and `PositionLemma` that rounding keeps the
position in range; the steps follow the disjuncts of `OnTimer`.

`SuplaDevice_proofs` proves what `device_safety` and `device_modes` check of the main loop,
liveness excepted, for all waits, limits and calls.  `SetupComesInTime`: `SetupInv` adds that the
last network setup was at a multiple of `SetupPeriod` and that a device which is a whole
period beyond it neither has counted a not-ready pass nor gets to connecting (not-ready
passes suspend the setup, so both are needed); `PeriodLemma` says that there is no other
multiple in between.  `ThresholdIsMet`: one pass counts at most one failure, after the check
has seen that there is room (`ThresholdInv`).  `OneRegistration`: from connecting to the
registration step `registered = 0` means that nothing was sent on this link
(`RegisterInv`).  `ConfigModeHasNoLink`: no step that connects is reached in configuration
mode, nor with a link after a restart (`ModeInv`).  `TypesAreKept` needs that `_millis` is no
older than one slip within a pass (`TypeInv`).  `FreshResultIsTrue`: `AgreeInv` looks where a result
may wait, in the input buffer and in the socket, and says of each that a fresh acceptance
comes from a server that accepted.  `WaitsAreObserved`: the wait owed is over, or is the one that
`waitForIterate` and `lastIterateTime` hold (`WaitInv`), and `n` not-ready passes took `n` waits but
for the one that runs (`NotReadyInv`).

`Network_proofs` also has the drivers and the update.  `WifiIsShared`, for any number of waiting
events: who holds the mutex is where it is needed (`MutexInv`), and a flag says what the
*last waiting* event about it will say, or what the radio does if none waits
(`JoinedInv`, `AddressInv`); `PostTells` and `TakeTells` carry this over posting and handling.
`DriversKeepTheirClient`: each method gives back a sound driver (`SessionSound`, `ConnectedSound`,
`SetUpSound` and others), and within a pass the Arduino client exists (`DriverInv`).  `UpdatesBoot`,
for two or more partitions and any images: until an update is finished, the
partition that boots is the one that runs, and what is made bootable was verified (`OtaInv`).

`Storage_proofs` proves `SavedIsLoaded` for both kinds of medium and that `Storage` implements
`StateStore` (`StorageImplementsStore`) for all layouts that satisfy `LayoutsAssumption`.  Where
the section is and how far a save has come is `SectionInv`; that what the start has read is still so is
`ReadInv`; `KeptInv` says of each unit of the last complete save that it is there
unless its element has been saved differently since, on the medium and in what is read; `WrittenInv`
what the save in progress has written.  The mapping reads the abstract state out of the medium, so the
refinement also needs that what looks like a section of some firmware is whole
(`WholeInv`) where the medium takes writes together at `commit()`.  `LinuxIdentityIsKept` is about the
identity file of a Linux device: nothing has been seen by the server while an identity is
written, and what was seen is in the file, whole (`IdentityInv`).

`Channels_proofs`: `ValuesReachTheServer` for any number of channels: each half copied so far is the
channel's, or the channel is marked, or the timer is about to mark it (`CopyInv`).
`GesturesReachTheServer`: what `popAction()` or `pushAction()` has read is still what is queued, but for the gestures in
`collided`, which are those both had in hand when they met (`HandsInv`, `PopInv`, `PushInv`).  `NoiseIsFiltered` for all debounce and filter times:
a candidate level is the level of every call since it was proposed (`ProposedInv`); there has to be a
longest time between two calls.  `ActionRunsOnce` for all configurations, in the middle of a gesture
too: which handlers are enabled follows from the configuration (`EnabledInv`), and so
does how often a gesture has run them (`CountInv`, `FlipsLemma`).

`Readings_proofs`: `ConditionsFireOnce` (a condition has fired iff it holds, `FiredInv`) and
`SensorsAreHonest` (`SilenceInv`, `EchoesInv`) for all readings, and the invariants of meters
(`MeterInv`) and inverters (`PvInv`).  The last is the longest: what is in the socket and
still unsent is the rest of a reply, and the parser has understood what comes before it
(`Stage`, `StreamInv`), for each of three protocols.

`Controls_proofs` begins with `ChannelIsTrue` and `TimesAreKept` for all kinds, times and restarts, and
`RelayTimesAreRight`, with commands between any two steps.  A duration that runs is over by no more than the present pass, or, for a bistable
relay that was busy then, by no more than the next (`DurationInv`); only what is on has a duration
(`EndInv`); the seconds counted and the rest are the time lit but for what each switching loses
(`LampInv`).  It is assumed that a pulse is not longer than the shortest duration
(`StatusPulse <= MinDuration`), as the code's constants have it.  Then come the invariants of sequence
buttons (`HeardInv`) and lights (`BrightnessInv`, `FadeInv`), and what the `controls` run checks of a
whole device, for every value of the constants.  `StartsLemma` and `MovesLemma` say that the composition
starts and moves each element as it does alone (`ElementsAreTheirOwn`), so that these theorems follow
from those of the parts: `ServerKnows`, `LightsAreRight`, `ReadingsAreShown`, `ControlsTypeOK`.
`FadeInv` says how far a lamp may be from its target so long after a command.  An earlier bound of
the property, twice the fade time, turned out false in the proof of `NearLemma` for a lamp without
fading and full red, which starts at -1 and needs two calls: the property now has the longest delay in it
(`SettleTime`), and the run has that case.  The types (`ElementsAreTyped`) are not inductive either:
how often a gesture may run the handlers needs the state of the button (`RunsInv`), what a
message tells needs what was queued when it was begun (`HandsType`), an inverter's line needs what is
left of its reply, and the lamp behind a relay that it is looked at in each pass, so that the
switchings and seconds counted stay in their bounds.

`ChannelsShowTheirSource` is `ParsedIsSaid`: whatever the configuration file of a Linux device says, a
channel shows what the source that its entry means said when it was last read.  `LoadInv` says it of the
loading, after each entry of the file: the parser and the source of a channel are those that
its entry, or the latest earlier entry of that name, defined (`SourceStep`, `ParserStep`,
`ChannelStep`).  That is an induction over the entries of any file.  The library's theorems of
induction take an operator, so it is done with sets: the entries at which it fails
have a least one (`LeastLemma`, from `WFMin`), and the step rules it out; `UpToLemma` gives the same for
the recursive function that loads, which exists up to each number.  `ReadInv` then carries
it through polls, writes and refreshes.  Assumed is the form of a file: each entry has its
fields, and a multiplier is an integer.

`Settings_proofs` proves `SettingsSurvive` for any applications, values and limits, forms cut anywhere,
power failures and resets (`SettingsAreStored`).  `ConfigInv`: what each getter gives is what
its setter was told last (`Agree`), and what it would give from the medium was told before the last
commit, but for what the limits of the medium leave out (`Holes`); reading the medium back is
again a recursive function over what was written, followed with `LeastLemma` and `UpToLemma`.
`WebInv` adds the request that is being
parsed, whatever its chunks.

`PacketsInOrder` in `Network_proofs` is `TakenInOrder`: with short writes, reads that end anywhere,
lost connections and an input buffer that outlives them, what the receiver takes are sent calls, in
order, none twice, and all of them up to the first fault.  The invariant is about the stream, the
input buffer followed by the wire (`LinkInv`).  Its headers are those of sent packets and their numbers
grow, after what was taken and before what waits (`LineInv`); before any fault each header is followed
by its whole packet and none is missing (`FaultInv`), and after one fault there is one place where
something was cut off, with the beginning of a packet behind it (`CutInv`).  A second such
place need not be followed: the property promises nothing beyond the first fault but that what is
taken was sent, in order and once.  `ReadPacket`, the longest lemma, takes a packet by the place of the cut.

Of the services together, in `Storage_proofs`: `SettingsOutlive` (`SettingsAreKept`) puts the settings together with
the identity of a Linux device, and `WhatDeviceTells` (`DeviceTells`) the LED with the clocks.  `LedInv`
separates what a pass of the loop told the LED from what the timer has made of it; in
`UptimeInv` the uptime is what passed up to the last count as long as no count has strayed, and in
`ClockInv` the clock that was set runs as the server's, but for the delay of its answer (`AnswerRight`):
with the system of an ESP or of Linux (`SystemRight`), or with the timer of an AVR as long as the
counts fit (`AvrRight`).
`ServicesAreTyped` is `ServicesTypeOK`, the types of all of them at once; only the size and the captions
of a call's packet and the cells of an extended value are of no type of their own.  They are not inductive alone either, so
`ServicesInv` is the conjunction of the invariants above, each kept because a step is of one service and
leaves the others' variables (`ServicesMove`), with two more: `CountedInv`, the set-ups and failures that a driver
counts, which come only at certain places of a pass, and `LogInv`, that every text of the log is in it or
waits, that as many were added as went to the file at most, and that the buffer ends in its NUL, so that the page finds the
end of each text (`EndLemma`).

All of this assumes only what the modules' `ASSUME`s say, which TLC evaluates in the runs.  What is bounded in the runs only (counters, ages, numbers of events) is bounded by
any number in the theorems.

Only model-checked:

- Liveness (`Recovers`, `RestartComes`, `ConfigModeTimesOut`, `LastCommandWins`,
  `ServerCatchesUp`, `EachIsTaken`): out of the prover's reach.
- `PackedIsUnpacked`, with the log of the last states: it compares what folds over sequences compute
  at both ends, for every input; that is induction over data.
- `PageKeepsSettings`, `FormIsStored`: the same over the characters of a form.

What is left for another time: `PackedIsUnpacked` and the properties of forms, for which the folds and the characters
would have to be written as recursive functions and followed as `Settings_proofs` does; the save
timer of the storage.

## Not modelled

- Vendored cryptography, examples, server-only helpers of srpc (`lck.c`, `eh.c`), and
  `ENC28J60.h`, which does not compile against this `Network`.
- The protocols of the sensors' buses; pressure, rain, wind, weight and the other sensors of
  one value, which are the plain thermometer of `Sensor` over another library; hardware timers,
  GPIO and log functions of the ports; `PinStatusLed`, a pin that follows another.
- Layout, style and script of pages, device information but for the last states, TLS certificates.
- Of the device: start and stop of the local web server, status texts but for the LED and the log, the
  checks of `begin()`'s arguments; of `Storage`: the save timer (`saveStateAllowed`,
  `scheduleSave`).
- Contents that no property tells apart: the members of messages, colours beyond one, phases
  beyond two, values of a meter beyond voltage, power, current and energy.

