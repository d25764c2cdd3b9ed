-------------------------- MODULE MessageDispatcher --------------------------
(***************************************************************************)
(* The JSON interface of the SDK: UIPlugInJson and its MessageDispatcher,  *)
(* which tell a client of the states of an authentication and hand its     *)
(* commands to the state they are meant for.  The web socket and the       *)
(* Android service carry the messages.                                     *)
(***************************************************************************)
CONSTANT None   \* no workflow, no client

VARIABLES
  enabled,    \* UIPlugInJson::mEnabled
  context,    \* MsgContext::mContext: the workflow that is followed, or None
  last,       \* MsgContext::getLastStateMsg
  dialogue    \* the workflow's side: the MsgType its current state stands for

json == <<enabled, context, last>>

Questions == {"ENTER_PIN", "ENTER_CAN", "ENTER_PUK", "ACCESS_RIGHTS"}

(* getStateMsgType; INTERNAL_ERROR is any state without a message.         *)
StateMsgs == Questions \cup {"INSERT_CARD", "INTERNAL_ERROR"}

(* The commands that answer a state, and the message they need: accept and *)
(* handleCurrentState.                                                     *)
Needs == [ACCEPT |-> "ACCESS_RIGHTS", SET_ACCESS_RIGHTS |-> "ACCESS_RIGHTS",
          SET_PIN |-> "ENTER_PIN", SET_CAN |-> "ENTER_CAN",
          SET_PUK |-> "ENTER_PUK"]

(* The commands after which the state is approved.                         *)
Approving == DOMAIN Needs \ {"SET_ACCESS_RIGHTS"}

Init == /\ enabled \in BOOLEAN /\ context = None
        /\ last = "INTERNAL_ERROR" /\ dialogue = "INTERNAL_ERROR"

reset == context' = None /\ last' = "INTERNAL_ERROR"

(* onWorkflowStarted and MessageDispatcher::init.                          *)
onWorkflowStarted(w) ==
  IF enabled THEN context' = w /\ last' = "INTERNAL_ERROR"
             ELSE UNCHANGED <<context, last>>

(* processStateChange records every message type, the void ones too.       *)
onStateChanged_DropsVoid(type) ==
  /\ dialogue' = type
  /\ last' = IF context # None /\ type # "INTERNAL_ERROR" THEN type ELSE last
  /\ UNCHANGED <<enabled, context>>

onStateChanged(type) ==
  /\ dialogue' = type
  /\ last' = IF context # None THEN type ELSE last
  /\ UNCHANGED <<enabled, context>>

(* createForStateChange approves every state that asks the client nothing, *)
(* whether the plug-in is enabled or not.                                  *)
Approves == context # None /\ dialogue \notin Questions

(* handleCurrentState: any other time the answer is BAD_STATE.             *)
Accepted(cmd) == enabled /\ last = Needs[cmd]

(* RUN_AUTH, RUN_SELF_AUTH and CANCEL.                                     *)
MayRun == enabled /\ context = None
MayCancel == enabled /\ context # None
=============================================================================
