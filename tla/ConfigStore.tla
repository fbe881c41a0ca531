---------------------------- MODULE ConfigStore ----------------------------
(***************************************************************************)
(* The configuration of a device: typed values under keys (KeyValue), the  *)
(* settings made of them with their limits (Config), and the two media:    *)
(* a file that commit() writes whole (LittleFsConfig, on Arduino), and     *)
(* flash that takes every value at once (NvsConfig, on ESP-IDF).           *)
(*                                                                         *)
(* A string is a sequence of characters, a blob (the GUID and the key of a *)
(* device) a number that says which one it is.                             *)
(***************************************************************************)
EXTENDS Integers, Sequences, SequencesExt

CONSTANTS
  BufferSize,     \* SUPLA_LITTLEFS_CONFIG_BUF_SIZE
  CustomValues,   \* <<type, value>> pairs an application stores under a key of its own
  MostIdentities, \* bound: times a GUID is generated
  NotSet          \* what a getter leaves when it has nothing

\* KeyValue has four types of values.
Typed(type, value) ==
  CASE type = "string" -> value \in Seq(STRING)
    [] type = "blob" -> value \in Nat
    [] type \in {"int8", "int32"} -> value \in Int
    [] OTHER -> FALSE

ASSUME ConfigAssumption ==
  /\ BufferSize \in Nat /\ MostIdentities \in Nat \ {0}
  /\ NotSet \notin Int
  /\ \A c \in CustomValues : Typed(c[1], c[2])

Text(max) == [type |-> "string", max |-> max]
Number(missing, values) == [type |-> "int32", missing |-> missing, values |-> values]
Flag(missing) == [type |-> "int8", missing |-> missing, values |-> 0..1]
Blob == [type |-> "blob"]

\* What a port may be.
PortRange == 1..65536

\* config.h, config.cpp: the keys, the size of a text with its terminating 0, what a getter
\* gives when nothing is stored.
Settings ==
  [devicename |-> Text(201), swupdateurl |-> Text(202), guid |-> Blob, authkey |-> Blob,
   devicemode |-> Number(0, 0..4), swupdatebeta |-> Flag(0), statusled |-> [Flag(0) EXCEPT !.values = 0..2],
   suplacommproto |-> Flag(1), suplaserver |-> Text(65), email |-> Text(256),
   suplaport |-> Number(2016, PortRange),
   mqttcommproto |-> Flag(0), mqttserver |-> Text(65), mqttport |-> Number(1883, PortRange),
   mqttuser |-> Text(23), mqttpasswd |-> Text(33), mqttprefix |-> Text(49),
   mqttqos |-> Number(0, 0..2), mqttpooldelay |-> Number(0, 0..3600),
   mqtttls |-> Flag(0), mqttauth |-> Flag(1), mqttretain |-> Flag(1),
   wifissid |-> Text(32), wifipasswd |-> Text(64),
   altwifissid |-> Text(32), altwifipasswd |-> Text(64)]

Ports == {"suplaport", "mqttport"}

VARIABLES
  platform,   \* "arduino" or "espidf"
  running,
  store,      \* KeyValue's list, or what NVS holds
  flash,      \* what a power failure leaves
  resetting,  \* resetToFactorySettings has removed everything
  device,     \* GUID and AuthKey in reg_dev, 0 when empty
  made,       \* identities generated
  stored,     \* what each setting's getter may give, as its setters and commit() were told
  committed,  \* what it may give after a restart
  fits        \* all of what was committed last fitted into the buffer

configVars == <<platform, running, store, flash, resetting, device, made, stored, committed, fits>>

-----------------------------------------------------------------------------
(***************************************************************************)
(* KeyValue.                                                               *)
(***************************************************************************)
Places(list, key) == {i \in DOMAIN list : list[i].key = key}

\* A new key goes to the front.  The first value of a key fixes its type; a value of another
\* type is refused.  (TLC compares two records in the order in which the names of their fields
\* come up: the type before what it is the type of.)
Put(list, key, type, value) ==
  LET e == [key |-> key, type |-> type, payload |-> value]
  IN  IF Places(list, key) = {} THEN <<e>> \o list
      ELSE [i \in DOMAIN list |-> IF list[i].key = key /\ list[i].type = type THEN e ELSE list[i]]

\* The value under a key, if it has that type.
ValueOf(list, key, type) ==
  LET found == {i \in Places(list, key) : list[i].type = type}
  IN  IF found = {} THEN NotSet ELSE list[CHOOSE i \in found : TRUE].payload

DataSize(e) ==
  CASE e.type = "int8" -> 1
    [] e.type = "int32" -> 4
    [] e.type = "blob" -> 16
    [] e.type = "string" -> Len(e.payload) + 1
BlockSize(e) == 15 + 1 + 2 + DataSize(e)

\* An element that does not fit is left out, and the next ones are tried.
WithBlock(before, e) ==
  LET size == before.size + BlockSize(e)
  IN  IF size > BufferSize THEN before
      ELSE [size |-> size, blocks |-> Append(before.blocks, e)]
Serialized(list) ==
  LET f[i \in 0..Len(list)] ==
        IF i = 0 THEN [size |-> 0, blocks |-> << >>] ELSE WithBlock(f[i - 1], list[i])
  IN  f[Len(list)].blocks

-----------------------------------------------------------------------------
(***************************************************************************)
(* Config.                                                                 *)
(***************************************************************************)
\* mutant: a text may have as many characters as its buffer has room for with the 0
TextTooLong(s, value) == Len(value) > Settings[s].max
TextRefused(s, value) == Len(value) > Settings[s].max - 1

\* What a setter stores: numbers out of range are replaced.
Limited(s, value) ==
  CASE s \in Ports /\ value \notin Settings[s].values -> Settings[s].missing
    [] s = "mqttqos" /\ value > 2 -> 2
    [] s = "mqttpooldelay" /\ value > 3600 -> 3600
    [] OTHER -> value

SetIn(list, s, value) ==
  IF Settings[s].type = "string" /\ TextRefused(s, value) THEN list
  ELSE Put(list, s, Settings[s].type, Limited(s, value))

\* What a getter gives.
GetFrom(list, s) ==
  LET value == ValueOf(list, s, Settings[s].type)
  IN  CASE Settings[s].type = "string" ->
             IF value # NotSet /\ Len(value) + 1 <= Settings[s].max THEN value ELSE NotSet
        [] Settings[s].type = "blob" -> value
        [] OTHER -> IF value = NotSet \/ value \notin Settings[s].values
                      THEN Settings[s].missing ELSE value

Get(s) == GetFrom(store, s)
Missing(s) == IF Settings[s].type \in {"string", "blob"} THEN NotSet ELSE Settings[s].missing

-----------------------------------------------------------------------------
\* What the calls promise, apart from how they keep it.
Promised(old, s, value) ==
  IF Settings[s].type = "string" /\ Len(value) >= Settings[s].max THEN old ELSE {Limited(s, value)}

\* A sequence of calls of setters, <<setting, value>>.
Called(before, s, value) ==
  [list |-> SetIn(before.list, s, value),
   told |-> [before.told EXCEPT ![s] = Promised(@, s, value)]]
SetAll(from, calls) ==
  LET f[i \in 0..Len(calls)] ==
        IF i = 0 THEN from ELSE Called(f[i - 1], calls[i][1], calls[i][2])
  IN  f[Len(calls)]

\* KeyValue::commit, or nvs_commit, of a list.
Kept(list) == IF platform = "espidf" THEN list ELSE Serialized(list)
AllFit(list) == platform = "espidf" \/ Len(Serialized(list)) = Len(list)

\* The file commits as a whole when it is closed.
CommitOf(list, told) ==
  flash' = Kept(list) /\ committed' = told /\ fits' = AllFit(list)

WithoutCommit(list, told) ==
  IF platform = "espidf" THEN CommitOf(list, told) ELSE UNCHANGED <<flash, committed, fits>>

\* Calls of setters, then commit() or not.
Configure(calls, thenCommit) ==
  LET after == SetAll([list |-> store, told |-> stored], calls)
  IN  /\ store' = after.list /\ stored' = after.told
      /\ IF thenCommit THEN CommitOf(after.list, after.told)
           ELSE WithoutCommit(after.list, after.told)

ConfigInit ==
  /\ platform \in {"arduino", "espidf"} /\ running = FALSE
  /\ store = << >> /\ flash = << >> /\ resetting = FALSE
  /\ device = [guid |-> 0, authkey |-> 0] /\ made = 0
  /\ stored = [s \in DOMAIN Settings |-> {Missing(s)}] /\ committed = stored /\ fits = TRUE

\* SuplaDeviceClass::begin: what loadDeviceConfig takes from the configuration, and a new
\* identity when one half of it is empty.
Begin ==
  /\ ~running /\ running' = TRUE
  /\ LET all == [s \in DOMAIN Settings |-> committed[s] \cup IF fits THEN {} ELSE {Missing(s)}]
         guid == GetFrom(flash, "guid")
         authkey == IF GetFrom(flash, "suplacommproto") = 1
                      THEN GetFrom(flash, "authkey") ELSE NotSet
         id == made + 1
     IN  IF guid # NotSet /\ authkey # NotSet
           THEN /\ device' = [guid |-> guid, authkey |-> authkey]
                /\ store' = flash /\ stored' = all
                /\ UNCHANGED <<flash, committed, fits, made>>
           ELSE LET list == Put(Put(flash, "guid", "blob", id), "authkey", "blob", id)
                    told == [all EXCEPT !.guid = {id}, !.authkey = {id}]
                IN  /\ made < MostIdentities /\ made' = id
                    /\ device' = [guid |-> id, authkey |-> id]
                    /\ store' = list /\ stored' = told /\ CommitOf(list, told)
  /\ UNCHANGED <<platform, resetting>>

\* A power failure at any time; a software restart commits first.
PowerFails ==
  /\ running /\ running' = FALSE /\ resetting' = FALSE
  /\ UNCHANGED <<platform, store, flash, device, made, stored, committed, fits>>

SoftRestart ==
  /\ running /\ ~resetting /\ running' = FALSE
  /\ CommitOf(store, stored)
  /\ UNCHANGED <<platform, store, resetting, device, made, stored>>

\* resetToFactorySettings: removeAll() commits an empty configuration, then the identity is
\* stored again.
RemoveAll ==
  /\ running /\ ~resetting /\ resetting' = TRUE
  /\ store' = << >> /\ stored' = [s \in DOMAIN Settings |-> {Missing(s)}]
  /\ CommitOf(<< >>, stored')
  /\ UNCHANGED <<platform, running, device, made>>

RestoreIdentity ==
  /\ resetting /\ resetting' = FALSE
  /\ Configure(<<<<"guid", device.guid>>, <<"authkey", device.authkey>>>>, TRUE)
  /\ UNCHANGED <<platform, running, device, made>>

\* The end of a software update.
SwUpdateEnds ==
  /\ running /\ ~resetting /\ Get("devicemode") = 4
  /\ Configure(<<<<"devicemode", 2>>, <<"swupdatebeta", 0>>>>, TRUE)
  /\ UNCHANGED <<platform, running, resetting, device, made>>

\* An application keeps a value of its own; nothing here reads it.
SetCustom(type, value) ==
  /\ running /\ ~resetting /\ platform = "arduino"
  /\ store' = Put(store, "custom", type, value)
  /\ UNCHANGED <<platform, running, flash, resetting, device, made, stored, committed, fits>>

ConfigNext ==
  \/ Begin \/ PowerFails \/ SoftRestart \/ RemoveAll \/ RestoreIdentity \/ SwUpdateEnds
  \/ \E c \in CustomValues : SetCustom(c[1], c[2])

ConfigTypeOK ==
  /\ {running, resetting, fits} \subseteq BOOLEAN /\ made \in 0..MostIdentities
  /\ \A list \in {store, flash} : \A i, j \in DOMAIN list :
       list[i].key = list[j].key => i = j
-----------------------------------------------------------------------------
\* What a setter accepted its getter gives: at once, and after every restart that follows a
\* commit, in whatever order keys were made, with numbers at and over their limits and texts
\* as long as they may be.  Only when the configuration did not fit into the buffer may a
\* setting be missing after a restart, and then it is missing and not something else.
SettingsSurvive == running => \A s \in DOMAIN Settings : Get(s) \in stored[s]

\* SuplaDeviceClass::begin says that a GUID that is missing "will be generated automatically";
\* one that is stored is not replaced.
StoredGuid == GetFrom(IF running THEN store ELSE flash, "guid")
GuidIsKept == [][StoredGuid # NotSet => StoredGuid' \in {StoredGuid, NotSet}]_configVars
=============================================================================
