----------------------------- MODULE LinuxDaemon ----------------------------
(***************************************************************************)
(* How a Linux device starts: what main() and SuplaDeviceClass::begin take *)
(* from the configuration file (LinuxYamlConfig), which the device never   *)
(* writes, and from the file with its GUID and AuthKey, which it writes    *)
(* when one of them is missing.  An identity is a number.                  *)
(***************************************************************************)
EXTENDS Integers

CONSTANT MostIdentitiesMade \* bound: times an identity is generated
ASSUME LinuxDaemonAssumption == MostIdentitiesMade \in Nat

None == 0
Cut == -1     \* of a wrong length
NoIdentity == [guid |-> None, authkey |-> None]
Identity(n) == [guid |-> n, authkey |-> n]

\* What a configuration file may say: whether it can be read as YAML, has a server, a mail
\* address and a device name, and channels that can be loaded.
YamlFiles == [readable : BOOLEAN, server : BOOLEAN, mail : BOOLEAN, channels : BOOLEAN]

VARIABLES
  yaml,       \* the configuration file
  writable,   \* the folder of the state files is there or can be made, and may be written to
  guidFile,   \* guid_auth.yaml
  process,    \* "off", "saving" that file, or "running"
  config,     \* guid and authkey of LinuxYamlConfig
  reg,        \* those in reg_dev
  currentStatus, deviceMode,
  identities, \* number of those generated
  seen  \* identities the server has seen

daemonVars ==
  << yaml, writable, guidFile, process, config, reg, currentStatus, deviceMode, identities,
     seen >>

-----------------------------------------------------------------------------
\* loadGuidAuthFromPath: a value of a wrong length is none.
FromFile(value) == IF value = Cut THEN None ELSE value
LoadGuidAuth(file) == [guid |-> FromFile(file.guid), authkey |-> FromFile(file.authkey)]

\* getSuplaServer(), getEmail(): nothing is there when the file could not be read.
Configured(y, setting) == y.readable /\ y[setting]

\* SuplaDeviceClass::loadDeviceConfig: this platform has no device mode, no MQTT and no Wi-Fi to
\* configure, and its Supla protocol cannot be disabled.
ConfigIncomplete(y) == ~Configured(y, "server") \/ ~Configured(y, "mail")
LoadedMode(y) == IF ConfigIncomplete(y) THEN "config" ELSE "normal"

\* SuplaDeviceClass::status: config mode is final.
NextStatus(old, new) ==
  IF old = "CONFIG_MODE" /\ new \notin {"SOFTWARE_RESET", "INVALID_GUID", "INVALID_AUTHKEY"}
  THEN old ELSE new

\* What begin() has said before it makes an identity.
StatusBefore(y) == IF LoadedMode(y) = "config" THEN "CONFIG_MODE" ELSE "UNKNOWN"

ToGenerate(identity) == identity.guid = None \/ identity.authkey = None

\* main() leaves unless all is well.
Finished(status) == IF status = "INITIALIZED" THEN "running" ELSE "off"
Completed(before) ==
  /\ currentStatus' = NextStatus(before, "INITIALIZED")
  /\ process' = Finished(currentStatus')

\* The end of main() before begin() was reached.
Exits ==
  /\ process = "off" /\ (~yaml.readable \/ ~yaml.channels)
  /\ currentStatus' = "UNKNOWN" /\ reg' = NoIdentity
  /\ config' = IF yaml.readable THEN LoadGuidAuth(guidFile) ELSE NoIdentity
  /\ UNCHANGED <<yaml, writable, guidFile, process, deviceMode, identities, seen>>

\* generateGuidAndAuthkey() as far as saveGuidAuth(): the file is truncated when it is opened.
Generates(before) ==
  /\ identities < MostIdentitiesMade /\ identities' = identities + 1
  /\ config' = Identity(identities + 1)
  /\ IF writable
       THEN /\ guidFile' = NoIdentity
            /\ currentStatus' = before /\ process' = "saving"
       ELSE /\ currentStatus' = NextStatus(before, "INVALID_AUTHKEY")
            /\ process' = "off" /\ UNCHANGED guidFile

Starts ==
  /\ process = "off" /\ yaml.readable /\ yaml.channels
  /\ deviceMode' = LoadedMode(yaml)
  /\ LET loaded == LoadGuidAuth(guidFile) IN
     /\ reg' = loaded
     /\ IF ToGenerate(loaded) THEN Generates(StatusBefore(yaml))
        ELSE /\ config' = loaded /\ Completed(StatusBefore(yaml))
             /\ UNCHANGED <<guidFile, identities>>
  /\ UNCHANGED <<yaml, writable, seen>>

\* The rest of it.
Saved ==
  /\ guidFile' = config /\ reg' = config
  /\ Completed(currentStatus)
SaveFails ==
  /\ currentStatus' = NextStatus(currentStatus, "INVALID_AUTHKEY")
  /\ process' = "off" /\ UNCHANGED reg

\* What a file that was not written to its end holds.
PartlyWritten(identity) ==
  { NoIdentity, [guid |-> Cut, authkey |-> None],
    [guid |-> identity.guid, authkey |-> None], [guid |-> identity.guid, authkey |-> Cut] }

Saves ==
  /\ process = "saving"
  /\ Saved \/ (guidFile' \in PartlyWritten(config) /\ SaveFails)
  /\ UNCHANGED <<yaml, writable, config, deviceMode, identities, seen>>

\* The process is killed.
Killed ==
  /\ process # "off" /\ process' = "off"
  /\ guidFile' \in IF process = "saving" THEN PartlyWritten(config) ELSE {guidFile}
  /\ UNCHANGED <<yaml, writable, config, reg, currentStatus, deviceMode, identities, seen>>

EntersConfigMode ==
  /\ process = "running"
  /\ deviceMode' = "config" /\ currentStatus' = NextStatus(currentStatus, "CONFIG_MODE")
  /\ UNCHANGED <<yaml, writable, guidFile, process, config, reg, identities, seen>>

\* softRestart(), after a factory reset or not: the setters of LinuxYamlConfig, removeAll() and
\* commit() do nothing, setGUID() and setAuthKey() of the reset give back what was there, and a
\* restart of this platform is exit().
SoftRestarts ==
  /\ process = "running" /\ process' = "off"
  /\ config' = reg /\ deviceMode' = "normal"
  /\ currentStatus' = NextStatus(currentStatus, "SOFTWARE_RESET")
  /\ UNCHANGED <<yaml, writable, guidFile, reg, identities, seen>>

\* srpc_ds_async_registerdevice_e arrives.
Registers ==
  /\ process = "running" /\ deviceMode = "normal"
  /\ seen' = seen \cup {reg}
  /\ UNCHANGED << yaml, writable, guidFile, process, config, reg, currentStatus, deviceMode,
                  identities >>

\* Somebody edits the configuration, or gives or takes away the rights on the folder.
Edited(y) ==
  /\ yaml' = y
  /\ UNCHANGED << writable, guidFile, process, config, reg, currentStatus, deviceMode,
                  identities, seen >>
FolderChanges ==
  /\ process # "saving" /\ writable' = ~writable
  /\ UNCHANGED << yaml, guidFile, process, config, reg, currentStatus, deviceMode, identities,
                  seen >>

DaemonInit ==
  /\ yaml \in YamlFiles /\ writable \in BOOLEAN
  /\ guidFile = NoIdentity /\ process = "off" /\ config = NoIdentity /\ reg = NoIdentity
  /\ currentStatus = "UNKNOWN" /\ deviceMode = "normal"
  /\ identities = 0 /\ seen = {}

DaemonNext ==
  \/ Starts \/ Exits \/ Saves \/ Killed \/ EntersConfigMode \/ SoftRestarts \/ Registers \/ FolderChanges
  \/ \E y \in YamlFiles : Edited(y)

DaemonTypeOK ==
  /\ yaml \in YamlFiles /\ writable \in BOOLEAN
  /\ process \in {"off", "saving", "running"} /\ deviceMode \in {"normal", "config"}
  /\ currentStatus \in {"UNKNOWN", "INITIALIZED", "CONFIG_MODE", "INVALID_AUTHKEY",
                         "SOFTWARE_RESET"}
  /\ identities \in 0 .. MostIdentitiesMade

-----------------------------------------------------------------------------
\* Whatever fails or is killed, the server never sees a device change its identity: one that was
\* ever in use is what the file holds, and a device that runs has it, whole.
IdentityIsKept ==
  /\ seen \subseteq {guidFile}
  /\ process = "running" => reg = guidFile /\ ~ToGenerate(LoadGuidAuth(guidFile))
=============================================================================
