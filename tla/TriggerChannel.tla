---------------------------- MODULE TriggerChannel ----------------------------
(***************************************************************************)
(* ActionTrigger and its AtChannel: the gestures of a button that the      *)
(* server asked for wait in a set of bits, and are told to it one at a     *)
(* time.  Gestures come from the timer, which is an interrupt, a task or a *)
(* thread of its own (not on the ESP8266), so that pushAction() and        *)
(* popAction() may each come in the middle of the other.                   *)
(***************************************************************************)
EXTENDS Integers, Sequences

CONSTANTS
  ClicksTold,        \* 5: the largest n of TOGGLE_xn and SHORT_PRESS_xn
  ActiveActions      \* ActiveActions of the server's configurations, sets of capabilities

ASSUME TriggerChannelAssumption == ClicksTold \in Nat

VARIABLES
  attachedTo,        \* the button is "bistable" or "monostable"
  actionToSend, actionReady,     \* valueChanged of the channel
  configAsked,       \* channelConfig
  activeActions,     \* activeActionsFromServer
  popping,           \* how far the main loop is in popAction()
  pushing,           \* how far the timer is in pushAction()
  recently,          \* no more than 100 ms since lastCommunicationTimeMs
  registering,       \* onRegistered() empties the queue
  online,            \* registered
  owed,              \* what happened since the registration, was wanted, and was not told
  toldAction,        \* what the server was told last
  collided           \* what was pushed or popped last while the other was going on

triggerChannelVars == <<attachedTo, actionToSend, actionReady, configAsked, activeActions,
                        popping, pushing, recently, registering, online, owed, toldAction,
                        collided>>

-----------------------------------------------------------------------------
\* A capability is a name and a number of clicks; the bits follow each other in this order.
Numbered(name) == [n \in 1 .. ClicksTold |-> <<name, n>>]
BitOrder == << <<"TURN_ON", 0>>, <<"TURN_OFF", 0>> >> \o Numbered("TOGGLE")
              \o << <<"HOLD", 0>> >> \o Numbered("SHORT_PRESS")
Capabilities == {BitOrder[i] : i \in DOMAIN BitOrder}
LowestBit(caps) == BitOrder[CHOOSE i \in DOMAIN BitOrder :
                              BitOrder[i] \in caps /\ \A j \in 1 .. i - 1 : BitOrder[j] \notin caps]

\* actionTriggerCapToButtonEvent()
EventOf(cap) ==
  CASE cap[1] = "TURN_ON" -> <<"ON_PRESS", 0>> [] cap[1] = "TURN_OFF" -> <<"ON_RELEASE", 0>>
    [] cap[1] = "HOLD" -> <<"ON_HOLD", 0>> [] OTHER -> <<"ON_CLICK", cap[2]>>

\* The actions that onInit() adds to the button.
Attached == {c \in Capabilities : IF attachedTo = "bistable"
                                    THEN c[1] \in {"TURN_ON", "TURN_OFF", "TOGGLE"}
                                    ELSE c[1] \in {"HOLD", "SHORT_PRESS"}}
CapsOf(event) == {c \in Attached : EventOf(c) = event}

NotPopping == [step |-> "none"]
NotPushing == [step |-> "none"]
Popping == popping # NotPopping
Pushing == pushing # NotPushing
NoAction == <<"NONE", 0>>

TriggerChannelTypeOK ==
  /\ attachedTo \in {"bistable", "monostable"}
  /\ actionToSend \subseteq Capabilities /\ activeActions \in ActiveActions \cup {{}}
  /\ {actionReady, configAsked, recently, registering, online} \subseteq BOOLEAN
  /\ owed \subseteq Capabilities /\ toldAction \in Capabilities \cup {NoAction}
  /\ collided \subseteq Capabilities

-----------------------------------------------------------------------------
(***************************************************************************)
(* The timer: handleAction() and pushAction(), "actionToSend |= action"    *)
(* and then the flag.                                                      *)
(***************************************************************************)
GestureReads(event) ==
  /\ ~Pushing
  /\ \E cap \in CapsOf(event) \cap activeActions :
       /\ pushing' = [step |-> "read", bits |-> actionToSend, cap |-> cap]
       /\ owed' = IF online THEN owed \cup {cap} ELSE owed
       /\ collided' = IF Popping THEN collided \cup ({cap, popping.cap} \ {NoAction})
                                ELSE collided \ {cap}
  /\ UNCHANGED <<attachedTo, actionToSend, actionReady, configAsked, activeActions, popping,
                 recently, registering, online, toldAction>>

GestureWrites ==
  /\ pushing.step = "read"
  /\ actionToSend' = pushing.bits \cup {pushing.cap}
  /\ pushing' = [step |-> "written", cap |-> pushing.cap]
  /\ UNCHANGED <<attachedTo, actionReady, configAsked, activeActions, popping, recently,
                 registering, online, owed, toldAction, collided>>

GestureFlags ==
  /\ pushing.step = "written"
  /\ actionReady' = TRUE /\ pushing' = NotPushing
  /\ UNCHANGED <<attachedTo, actionToSend, configAsked, activeActions, popping, recently,
                 registering, online, owed, toldAction, collided>>

-----------------------------------------------------------------------------
(***************************************************************************)
(* The main loop.                                                          *)
(***************************************************************************)
\* popAction(), for AtChannel::sendUpdate() or for onRegistered().
PopReads ==
  /\ ~Popping
  /\ \/ registering /\ UNCHANGED recently
     \/ online /\ actionReady /\ ~recently /\ recently' = TRUE
  /\ LET cap == IF actionToSend = {} THEN NoAction ELSE LowestBit(actionToSend)
     IN  /\ popping' = [step |-> "read", bits |-> actionToSend, cap |-> cap]
         /\ collided' = IF Pushing THEN collided \cup ({cap, pushing.cap} \ {NoAction})
                                ELSE collided
  /\ UNCHANGED <<attachedTo, actionToSend, actionReady, configAsked, activeActions, pushing,
                 registering, online, owed, toldAction>>

NoneLeft(bits) == bits = {}

\* What it has read without the lowest bit; nothing is written where there was none.
PopWrites ==
  /\ popping.step = "read"
  /\ LET left == popping.bits \ {popping.cap}
     IN  /\ actionToSend' = IF popping.cap = NoAction THEN actionToSend ELSE left
         /\ popping' = [step |-> "tested", cap |-> popping.cap,
                        clears |-> popping.cap # NoAction /\ NoneLeft(left)]
  /\ UNCHANGED <<attachedTo, actionReady, configAsked, activeActions, pushing, recently,
                 registering, online, owed, toldAction, collided>>

PopReturns ==
  /\ popping.step = "tested"
  /\ actionReady' = (actionReady /\ ~popping.clears)
  /\ popping' = NotPopping

TellAction ==
  /\ PopReturns /\ ~registering
  /\ toldAction' = popping.cap /\ owed' = owed \ {popping.cap}
  /\ UNCHANGED <<attachedTo, actionToSend, configAsked, activeActions, pushing, recently,
                 registering, online, collided>>

\* onRegistered(): what was not told before is forgotten.
ForgetAction ==
  /\ PopReturns /\ registering
  /\ IF popping.cap = NoAction
       THEN registering' = FALSE /\ online' = TRUE /\ configAsked' = TRUE /\ owed' = {}
       ELSE UNCHANGED <<registering, online, configAsked, owed>>
  /\ UNCHANGED <<attachedTo, actionToSend, activeActions, pushing, recently, toldAction, collided>>

TriggerRegistered ==
  /\ ~Popping /\ ~registering /\ ~online
  /\ registering' = TRUE
  /\ UNCHANGED <<attachedTo, actionToSend, actionReady, configAsked, activeActions, popping,
                 pushing, recently, online, owed, toldAction, collided>>

\* Channel::sendUpdate(), when there is no action to tell.
RequestConfig ==
  /\ ~Popping /\ online /\ configAsked /\ ~actionReady /\ ~recently
  /\ configAsked' = FALSE /\ recently' = TRUE
  /\ UNCHANGED <<attachedTo, actionToSend, actionReady, activeActions, popping, pushing,
                 registering, online, owed, toldAction, collided>>

ActionsConfigured(actions) ==
  /\ ~Popping /\ online
  /\ activeActions' = actions
  /\ UNCHANGED <<attachedTo, actionToSend, actionReady, configAsked, popping, pushing, recently,
                 registering, online, owed, toldAction, collided>>

TriggerDisconnected ==
  /\ ~Popping /\ online
  /\ online' = FALSE /\ owed' = {}
  /\ UNCHANGED <<attachedTo, actionToSend, actionReady, configAsked, activeActions, popping,
                 pushing, recently, registering, toldAction, collided>>

SinceCommunication ==
  /\ recently /\ ~Popping
  /\ recently' = FALSE
  /\ UNCHANGED <<attachedTo, actionToSend, actionReady, configAsked, activeActions, popping,
                 pushing, registering, online, owed, toldAction, collided>>

TriggerChannelInit ==
  /\ attachedTo \in {"bistable", "monostable"}
  /\ actionToSend = {} /\ actionReady = FALSE /\ configAsked = FALSE /\ activeActions = {}
  /\ popping = NotPopping /\ pushing = NotPushing
  /\ recently = FALSE /\ registering = FALSE /\ online = FALSE /\ owed = {}
  /\ toldAction = NoAction /\ collided = {}

TriggerChannelNext ==
  \/ \E event \in {EventOf(c) : c \in Capabilities} : GestureReads(event)
  \/ GestureWrites \/ GestureFlags
  \/ PopReads \/ PopWrites \/ TellAction \/ ForgetAction \/ TriggerRegistered \/ RequestConfig
  \/ \E actions \in ActiveActions : ActionsConfigured(actions)
  \/ TriggerDisconnected \/ SinceCommunication

TriggerChannelSpec == TriggerChannelInit /\ [][TriggerChannelNext]_triggerChannelVars

-----------------------------------------------------------------------------
\* On its way from the timer to the server.
OnItsWay(cap) ==
  \/ cap \in actionToSend
  \/ Popping /\ cap = popping.cap
  \/ Pushing /\ cap = pushing.cap

\* What the server wanted to be told and happened while it could be is told to it, once, or is
\* still queued with the flag that makes the loop come for it; nothing else is told, and no empty
\* message is sent over and over because the flag stayed behind.  Only where the timer pushed a
\* gesture while the loop took one off the queue these two gestures may be lost, told again or
\* left without the flag, and that lasts no longer than until the same gesture comes by itself.
ActionsAreTold ==
  /\ online => \A cap \in Capabilities \ collided : cap \in owed <=> OnItsWay(cap)
  /\ \A cap \in actionToSend \ collided : actionReady \/ (Pushing /\ cap = pushing.cap)
  /\ ~Popping /\ ~Pushing /\ actionReady => actionToSend # {} \/ collided # {}
=============================================================================
