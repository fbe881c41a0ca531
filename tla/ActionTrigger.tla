----------------------------- MODULE ActionTrigger -----------------------------
(***************************************************************************)
(* ActionTrigger attached to a Button that also drives something locally,  *)
(* a relay that it toggles.  The server says which gestures it wants; the  *)
(* handlers of the button are enabled and disabled so that the local       *)
(* action runs once for a gesture, or leaves it to the server.             *)
(***************************************************************************)
EXTENDS Button

CONSTANT Configurations  \* values of activeActionsFromServer, a set of events each

VARIABLES
  localEvent,   \* the event the local action was added to before onInit()
  enabled,      \* of the local handlers: on localEvent, and on ON_CLICK_1 if onInit() added one
  active,       \* activeActionsFromServer; a capability is named by its event
  runs,         \* how often the local action ran in this gesture
  seen,         \* how often localEvent happened in this gesture
  untouched     \* no configuration came during this gesture

triggerVars == <<localEvent, enabled, active, runs, seen, untouched>>
triggerAndButtonVars == <<triggerVars, buttonVars>>

LocalEvents == {OnPress, OnRelease, OnChange, OnHold, Click(1)}

\* The actions onInit() attaches, as actionTriggerCapToButtonEvent() names them.
Advertised ==
  {Click(n) : n \in 1 .. 5} \cup (IF bistable THEN {OnPress, OnRelease} ELSE {OnHold})

\* localHandlerForDisabledAt and localHandlerForEnabledAt are set.
Flips == localEvent \in (IF bistable THEN {OnChange} ELSE {OnPress, OnRelease})

DisablesLocalOperation ==
  ({localEvent} \cup (IF Flips THEN {Click(1)} ELSE {})) \cap Advertised

TriggerTypeOK ==
  /\ ButtonTypeOK
  /\ localEvent \in LocalEvents /\ enabled \in [{"direct", "click"} -> BOOLEAN]
  /\ active \in Configurations \cup {{}} /\ untouched \in BOOLEAN
  /\ runs \in Nat /\ seen \in Nat /\ runs <= seen + 1

TriggerInit ==
  /\ ButtonInit
  /\ localEvent \in LocalEvents /\ enabled = [direct |-> TRUE, click |-> FALSE]
  /\ active = {} /\ runs = 0 /\ seen = 0 /\ untouched = TRUE

-----------------------------------------------------------------------------
\* LocalAction::runAction: the handlers of the event that are enabled.
HandlersOf(happened) ==
  {h \in {"direct", "click"} :
     enabled[h] /\ (IF h = "direct" THEN localEvent ELSE Click(1)) \in happened}

Resting == clickCounter = 0 /\ holdSend = 0

\* The first event after the rest begins to count anew.  More than MostClicks + 1 changes of
\* the button are not counted.
RunActions ==
  LET before == IF Resting THEN 0 ELSE runs
      already == IF Resting THEN 0 ELSE seen
  IN  /\ runs' = before + Cardinality(HandlersOf(events'))
      /\ seen' = already + Cardinality({localEvent} \cap events')
      /\ untouched' = (Resting \/ untouched)

TriggerOnTimer(level, dt) ==
  /\ ButtonOnTimer(level, dt)
  /\ pressed' # pressed => clickCounter <= MostClicks
  /\ RunActions
  /\ UNCHANGED <<localEvent, enabled, active>>

\* mutant: enableOtherClients() for ON_CLICK_1 is not undone
EnablesClick(config) == Flips /\ Click(1) \notin config

\* makeSureThatOnClick1IsDisabled
ClickEnabled(config) == Flips /\ config # {} /\ Click(1) \notin config

DirectEnabled(config) ==
  IF localEvent \in DisablesLocalOperation THEN localEvent \notin config
  ELSE IF Flips THEN config = {} ELSE enabled["direct"]

HandleChannelConfig(config) ==
  /\ active' = config
  /\ enabled' = [direct |-> DirectEnabled(config), click |-> ClickEnabled(config)]
  /\ untouched' = FALSE
  /\ UNCHANGED <<localEvent, runs, seen, buttonVars>>

TriggerNext ==
  \/ \E level \in BOOLEAN, dt \in Elapsed : TriggerOnTimer(level, dt)
  \/ \E config \in Configurations : HandleChannelConfig(config)

TriggerSpec == TriggerInit /\ [][TriggerNext]_triggerAndButtonVars
-----------------------------------------------------------------------------
GestureEnds == MulticlickTime > 0 /\ ~Resting /\ clickCounter' = 0 /\ holdSend' = 0

\* When a gesture ends during which no configuration came, the local action ran as often as
\* the user expects: at each localEvent while the server wants nothing; once for a single click
\* that is left to the device, and not at all for what the server has taken.
LocalActionOnce ==
  [][GestureEnds /\ untouched' =>
       runs' = IF Flips /\ active # {}
                 THEN IF Click(1) \in events' /\ Click(1) \notin active THEN 1 ELSE 0
                 ELSE IF localEvent \in active \cap Advertised THEN 0 ELSE seen']_triggerAndButtonVars

=============================================================================
