---------------------------- MODULE ChannelSync ----------------------------
(***************************************************************************)
(* Channel and Element::iterateConnected: how the values of the channels   *)
(* get to the server.                                                      *)
(*                                                                         *)
(* setNewValue runs in the main loop and in the timers, while the main     *)
(* loop sends.  A value is 8 bytes that are compared and copied one after  *)
(* the other, here in two halves, so a reader may see one half of a new    *)
(* value.                                                                  *)
(***************************************************************************)
EXTENDS Integers, Sequences

CONSTANTS
  SendOrder,      \* channels in the order in which iterateConnected() asks them
  TimerChannels,  \* channels whose values the timer sets too
  ChannelValues   \* values of a channel, each a pair of halves

Channels == {SendOrder[i] : i \in DOMAIN SendOrder}

ASSUME ChannelsAssumption ==
  /\ SendOrder \in Seq(Channels) \ {<< >>} /\ TimerChannels \subseteq Channels
  /\ \A i, j \in DOMAIN SendOrder : SendOrder[i] = SendOrder[j] => i = j
  /\ \A v \in ChannelValues : v = <<v[1], v[2]>>

VARIABLES
  value,          \* reg_dev.channels[c].value
  valueChanged,
  setting,        \* how far the timer is in setNewValue, Nothing outside of it
  sending,        \* what the main loop does in iterateConnected or registration
  throttled,      \* no more than 100 ms since lastCommunicationTimeMs
  wire,           \* "up", "dead" (sends are lost) or "down"
  session,        \* the server knows the device on this connection
  serverValue     \* the server's copy of each channel

channelVars == <<value, valueChanged, setting, sending, throttled, wire, session,
                 serverValue>>

Nothing == [step |-> "none"]
Halves == {v[i] : v \in ChannelValues, i \in {1, 2}}
Copies == [{1, 2} -> Halves]

ChannelTypeOK ==
  /\ value \in [Channels -> Copies] /\ serverValue \in [Channels -> Copies]
  /\ valueChanged \in [Channels -> BOOLEAN]
  /\ setting \in {Nothing}
       \cup [step : {"write1", "write2", "flag"}, channel : Channels, new : ChannelValues]
  /\ sending \in {Nothing}
       \cup [step : {"scan"}, at : DOMAIN SendOrder]
       \cup [step : {"clear", "copy1", "copy2", "send"}, channel : Channels, copy : Copies]
       \cup [step : {"register"}, copy : [Channels -> Copies]]
  /\ throttled \in BOOLEAN /\ session \in BOOLEAN
  /\ wire \in {"up", "dead", "down"}

ChannelInit ==
  /\ \E v \in ChannelValues :
       /\ value = [c \in Channels |-> v] /\ serverValue = [c \in Channels |-> v]
  /\ valueChanged = [c \in Channels |-> FALSE]
  /\ setting = Nothing /\ sending = Nothing
  /\ throttled = FALSE /\ wire = "down" /\ session = FALSE

-----------------------------------------------------------------------------
(***************************************************************************)
(* setNewValue: memcmp finds the value different, memcpy, setUpdateReady.   *)
(* The timer may stop between any two of its steps while the loop goes on;  *)
(* the loop is not interrupted by itself.                                   *)
(***************************************************************************)
SetInLoop(c, v) ==
  /\ sending = Nothing /\ value[c] # v
  /\ value' = [value EXCEPT ![c] = v]
  /\ valueChanged' = [valueChanged EXCEPT ![c] = TRUE]
  /\ UNCHANGED <<setting, sending, throttled, wire, session, serverValue>>

SetInTimer(c, v) ==
  /\ setting = Nothing /\ value[c] # v
  /\ setting' = [step |-> "write1", channel |-> c, new |-> v]
  /\ UNCHANGED <<value, valueChanged, sending, throttled, wire, session, serverValue>>

WriteHalf(half, this, next) ==
  /\ setting.step = this
  /\ value' = [value EXCEPT ![setting.channel][half] = setting.new[half]]
  /\ setting' = [setting EXCEPT !.step = next]
  /\ UNCHANGED <<valueChanged, sending, throttled, wire, session, serverValue>>

SetUpdateReady ==
  /\ setting.step = "flag"
  /\ valueChanged' = [valueChanged EXCEPT ![setting.channel] = TRUE]
  /\ setting' = Nothing
  /\ UNCHANGED <<value, sending, throttled, wire, session, serverValue>>

Setting ==
  WriteHalf(1, "write1", "write2") \/ WriteHalf(2, "write2", "flag") \/ SetUpdateReady

-----------------------------------------------------------------------------
(***************************************************************************)
(* The main loop sends.  A registration carries all values; after it       *)
(* iterate() asks element after element and stops at the first that sent.  *)
(***************************************************************************)
Register ==
  /\ sending = Nothing /\ wire # "down" /\ ~session
  /\ sending' = [step |-> "register", copy |-> value]
  /\ UNCHANGED <<value, valueChanged, setting, throttled, wire, session, serverValue>>

SendRegistration ==
  /\ sending.step = "register"
  /\ sending' = Nothing /\ session' = (wire = "up")
  /\ serverValue' = IF wire = "up" THEN sending.copy ELSE serverValue
  /\ UNCHANGED <<value, valueChanged, setting, throttled, wire>>

\* registered is 1.  It stays so for the rest of the pass in which ping() closes the link,
\* so a pass over the elements may also run without one.
IterateElements ==
  /\ sending = Nothing /\ session
  /\ sending' = [step |-> "scan", at |-> 1]
  /\ UNCHANGED <<value, valueChanged, setting, throttled, wire, session, serverValue>>

\* mutant: each element asked takes the time stamp, whether it sends or not
StampAlways ==
  /\ sending.step = "scan" /\ throttled' = TRUE
  /\ LET c == SendOrder[sending.at]
     IN  sending' = IF valueChanged[c] /\ ~throttled
                      THEN [step |-> "clear", channel |-> c, copy |-> value[c]]
                      ELSE IF sending.at < Len(SendOrder)
                             THEN [sending EXCEPT !.at = @ + 1] ELSE Nothing
  /\ UNCHANGED <<value, valueChanged, setting, wire, session, serverValue>>

IterateConnected ==
  /\ sending.step = "scan"
  /\ LET c == SendOrder[sending.at]
     IN  IF valueChanged[c] /\ ~throttled
           THEN /\ throttled' = TRUE
                /\ sending' = [step |-> "clear", channel |-> c, copy |-> value[c]]
           ELSE /\ sending' = IF sending.at < Len(SendOrder)
                                THEN [sending EXCEPT !.at = @ + 1] ELSE Nothing
                /\ UNCHANGED throttled
  /\ UNCHANGED <<value, valueChanged, setting, wire, session, serverValue>>

\* mutant: the flag is cleared after the value was read
ClearLate ==
  /\ sending.step \in {"clear", "send"}
  /\ IF sending.step = "clear"
       THEN sending' = [sending EXCEPT !.step = "copy1"] /\ UNCHANGED <<valueChanged, serverValue>>
       ELSE /\ valueChanged' = [valueChanged EXCEPT ![sending.channel] = FALSE]
            /\ sending' = Nothing
            /\ serverValue' = [serverValue EXCEPT ![sending.channel] = sending.copy]
  /\ UNCHANGED <<value, setting, throttled, wire, session>>

\* Channel::sendUpdate: clearUpdateReady(), then the call that copies the value.
ClearUpdateReady ==
  /\ sending.step = "clear"
  /\ valueChanged' = [valueChanged EXCEPT ![sending.channel] = FALSE]
  /\ sending' = [sending EXCEPT !.step = "copy1"]
  /\ UNCHANGED <<value, setting, throttled, wire, session, serverValue>>

CopyHalf(half, this, next) ==
  /\ sending.step = this
  /\ sending' = [sending EXCEPT !.step = next, !.copy[half] = value[sending.channel][half]]
  /\ UNCHANGED <<value, valueChanged, setting, throttled, wire, session, serverValue>>

SendValue ==
  /\ sending.step = "send"
  /\ sending' = Nothing
  /\ serverValue' = IF wire = "up"
                      THEN [serverValue EXCEPT ![sending.channel] = sending.copy]
                      ELSE serverValue
  /\ UNCHANGED <<value, valueChanged, setting, throttled, wire, session>>

Sending ==
  \/ SendRegistration \/ IterateConnected \/ ClearUpdateReady
  \/ CopyHalf(1, "copy1", "copy2") \/ CopyHalf(2, "copy2", "send") \/ SendValue

-----------------------------------------------------------------------------
\* The loop connects, and notices a lost connection, between two passes.
Connects ==
  /\ sending = Nothing /\ wire = "down"
  /\ wire' = "up" /\ session' = FALSE
  /\ UNCHANGED <<value, valueChanged, setting, sending, throttled, serverValue>>

LinkBreaks ==
  /\ wire = "up"
  /\ wire' = "dead"
  /\ UNCHANGED <<value, valueChanged, setting, sending, throttled, session, serverValue>>

LinkIsLeft ==
  /\ wire = "dead" /\ (sending = Nothing \/ sending.step = "scan")
  /\ wire' = "down"
  /\ UNCHANGED <<value, valueChanged, setting, sending, throttled, session, serverValue>>

ThrottleEnds ==
  /\ throttled
  /\ throttled' = FALSE
  /\ UNCHANGED <<value, valueChanged, setting, sending, wire, session, serverValue>>

ChannelNext ==
  \/ \E c \in Channels, v \in ChannelValues : SetInLoop(c, v)
  \/ \E c \in TimerChannels, v \in ChannelValues : SetInTimer(c, v)
  \/ Setting \/ Register \/ IterateElements \/ Sending
  \/ Connects \/ LinkBreaks \/ LinkIsLeft \/ ThrottleEnds

ChannelSpec == ChannelInit /\ [][ChannelNext]_channelVars

\* The timer and the loop end what they began, the loop registers and iterates its elements
\* (it may set values in between, as often as it likes), and 100 ms pass.
ChannelFairness ==
  /\ WF_channelVars(Setting) /\ WF_channelVars(Sending) /\ WF_channelVars(ThrottleEnds)
  /\ SF_channelVars(Register) /\ SF_channelVars(IterateElements)

ChannelFairSpec == ChannelSpec /\ ChannelFairness
-----------------------------------------------------------------------------
\* Half of a new value may be in place that is not flagged yet.
Unflagged(c) == setting.step \in {"write2", "flag"} /\ setting.channel = c
BeingSent(c) == sending.step \in {"copy1", "copy2", "send"} /\ sending.channel = c

\* sendUpdate() clears the flag and then copies, setNewValue() copies and then sets the flag:
\* whatever the timers write meanwhile, a value the server does not have is flagged, or a
\* thread is on its way to flag or send it.  A lost connection loses updates, the next
\* registration brings them all.
ServerIsCurrent ==
  session /\ wire = "up" =>
    \A c \in Channels :
      valueChanged[c] \/ Unflagged(c) \/ BeingSent(c) \/ serverValue[c] = value[c]

\* Values stop to change and the connection holds.
Calm == wire = "up" /\ setting = Nothing
SettlesDown == <>[]Calm /\ <>[][value' = value]_channelVars

\* When values no longer change and the connection holds, the server ends up with all of
\* them, in spite of the shared throttle and of the loop that stops at the first sender.
ServerCatchesUp == SettlesDown => <>[](serverValue = value)

=============================================================================
