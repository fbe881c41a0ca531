-------------------------------- MODULE Ota --------------------------------
(***************************************************************************)
(* The software update of an ESP-IDF device (EspIdfOta) as SuplaDevice     *)
(* runs it in its update mode: ask the update server, take the image it    *)
(* names, write it to the partition that is not running, verify what the   *)
(* flash then holds, and make it the one to boot.  Power may fail at any   *)
(* step, a connection at every read.                                       *)
(*                                                                         *)
(* An image is a sequence of blocks: the application's, the signature's,   *)
(* the footer's.                                                           *)
(***************************************************************************)
EXTENDS Naturals, Sequences

CONSTANTS
  Partitions,   \* of applications
  Factory,      \* the image a device is delivered with
  Offered,      \* images the server may give
  Replies,      \* what it may answer to check_update, cut into the parts that are read
  MostUpdates   \* bound: updates asked for

\* What images are made of.
Blocks == UNION {{image[i] : i \in DOMAIN image} : image \in Offered \cup {Factory}}
ASSUME OtaAssumption ==
  /\ Factory \notin Offered /\ Offered \cup {Factory} \subseteq Seq(Blocks)
  /\ \A p \in Partitions : \E q \in Partitions : q # p
  /\ MostUpdates \in Nat

\* A signature is of the hash of the application before it; the footer is constant.
Signature(app) == <<"signature", app>>
Footer == <<"footer", << >> >>
Signed(app) == app \o <<Signature(app), Footer>>

VARIABLES
  partition,     \* what each one holds
  runs, boots,   \* the partition that runs, the one that boots next
  updateMode,    \* DEVICE_MODE_SW_UPDATE in the configuration
  updating,      \* deviceMode is DEVICE_MODE_SW_UPDATE
  ota,           \* the step of start(), "none" when there is no update object
  buffer,        \* otaBuffer
  coming,        \* what the server still sends
  updates        \* updates asked for

otaVars == <<partition, runs, boots, updateMode, updating, ota, buffer, coming, updates>>

Unread == "?"   \* whatever memory holds
OtaInit ==
  /\ runs \in Partitions /\ boots = runs
  /\ partition = [p \in Partitions |-> IF p = runs THEN Factory ELSE << >>]
  /\ updateMode = FALSE /\ updating = FALSE /\ ota = "none" /\ buffer = Unread /\ coming = << >> /\ updates = 0

-----------------------------------------------------------------------------
\* A page or a server's request puts the mode into the configuration; a restart makes it so.
AskForUpdate ==
  /\ ~updateMode /\ updates < MostUpdates /\ ota = "none"
  /\ updateMode' = TRUE /\ updates' = updates + 1
  /\ UNCHANGED <<partition, runs, boots, updating, ota, buffer, coming>>

\* A step of start().  fail() closes everything.
others == <<updateMode, updating, runs, updates>>
Step(from, to) == updating /\ ota = from /\ ota' = to /\ UNCHANGED others
Fails(from) ==
  Step(from, "aborted") /\ buffer' = Unread /\ coming' = << >> /\ UNCHANGED <<partition, boots>>

CheckUpdate ==
  \/ Step("none", "asked") /\ coming' \in Replies /\ UNCHANGED <<partition, boots, buffer>>
  \/ Fails("none")     \* a part of the address that does not fit, no connection, no memory

\* Each read of the answer goes to the start of the buffer.
ReadReply ==
  \/ /\ Step("asked", "asked") /\ coming # << >>
     /\ buffer' = Head(coming) /\ coming' = Tail(coming) /\ UNCHANGED <<partition, boots>>
  \/ Fails("asked")

Other == CHOOSE p \in Partitions : p # runs

\* cJSON_Parse of the buffer, the connection to the address it names, and esp_ota_begin.  A
\* buffer in which nothing was read may hold anything.
TakeReply ==
  /\ Step("asked", "download") /\ coming = << >> /\ buffer \in {"url", Unread}
  /\ \E image \in Offered : coming' = <<image, 1>>
  /\ partition' = [partition EXCEPT ![Other] = << >>]
  /\ UNCHANGED <<boots, buffer>>

Complete == coming[2] > Len(coming[1])

\* One read of the image and its write; or the connection ends.
ReadImage ==
  \/ /\ Step("download", "download") /\ coming[2] <= Len(coming[1])
     /\ partition' = [partition EXCEPT ![Other] = Append(@, coming[1][coming[2]])]
     /\ coming' = [coming EXCEPT ![2] = @ + 1] /\ UNCHANGED <<boots, buffer>>
  \/ Step("download", "verify") /\ Complete /\ coming' = << >> /\ UNCHANGED <<partition, boots, buffer>>
  \/ Fails("download")

\* mutant: without a public key every image is taken
NoKeyNeeded(image) == Len(image) > 2 /\ image[Len(image)] = Footer
\* verifyRsaSignature: of what the flash holds, the size, the footer, then the signature of
\* all that is before it.
Verified(image) ==
  /\ Len(image) > 2 /\ image[Len(image)] = Footer
  /\ image[Len(image) - 1] = Signature(SubSeq(image, 1, Len(image) - 2))

Verify ==
  \/ Step("verify", "set_boot") /\ Verified(partition[Other]) /\ UNCHANGED <<partition, boots, buffer, coming>>
  \/ Fails("verify")

SetBootPartition ==
  \/ /\ Step("set_boot", "finished") /\ boots' = Other /\ buffer' = Unread
     /\ UNCHANGED <<partition, coming>>
  \/ Fails("set_boot")

\* The next pass of the main loop: the normal mode again, in the configuration too.
UpdateEnds ==
  /\ ota \in {"aborted", "finished"} /\ ota' = "none" /\ updateMode' = FALSE /\ updating' = FALSE
  /\ UNCHANGED <<partition, runs, boots, buffer, coming, updates>>

\* Power fails at any time, or the restart comes that follows a finished update.
Restarts ==
  /\ runs' = boots /\ updating' = updateMode /\ ota' = "none" /\ buffer' = Unread /\ coming' = << >>
  /\ UNCHANGED <<partition, boots, updateMode, updates>>

OtaNext ==
  \/ AskForUpdate \/ CheckUpdate \/ ReadReply \/ TakeReply \/ ReadImage \/ Verify
  \/ SetBootPartition \/ UpdateEnds \/ Restarts
OtaSpec == OtaInit /\ [][OtaNext]_otaVars

OtaTypeOK ==
  /\ {runs, boots} \subseteq Partitions /\ {updateMode, updating} \subseteq BOOLEAN /\ updates \in 0..MostUpdates
  /\ ota \in {"none", "asked", "download", "verify", "set_boot", "finished", "aborted"}
-----------------------------------------------------------------------------
\* Whatever the server sends, wherever a connection or the power fails and however often an
\* update is repeated, the device boots an image that it was delivered with or that is
\* complete and signed, and the one that runs is never written to.
Bootable(image) ==
  image = Factory \/ (Len(image) > 2 /\ image = Signed(SubSeq(image, 1, Len(image) - 2)))
BootsVerified == Bootable(partition[boots]) /\ Bootable(partition[runs])
=============================================================================
