--------------------------- MODULE CardReturnCode ---------------------------
(***************************************************************************)
(* The return codes of card commands (global/CardReturnCode.h) and how the *)
(* workflow classifies them.  A code is the string of its enumerator.      *)
(***************************************************************************)

(* CardReturnCodeUtil::equalsWrongPacePassword: the codes that tell the    *)
(* user to type a password again.                                          *)
equalsWrongPacePassword ==
  {"INVALID_CAN", "INVALID_PIN", "INVALID_PIN_2", "INVALID_PIN_3",
   "INVALID_PUK", "NEW_PIN_MISMATCH", "NEW_PIN_INVALID_LENGTH",
   "PIN_NOT_BLOCKED", "PIN_BLOCKED"}

(* The codes StateMaintainCardConnection gives up on.                      *)
Unrecoverable ==
  {"CANCELLATION_BY_USER", "PUK_INOPERATIVE", "INPUT_TIME_OUT", "UNKNOWN",
   "UNDEFINED", "COMMAND_FAILED", "PROTOCOL_ERROR",
   "UNEXPECTED_TRANSMIT_STATUS"}

(* The codes that mean that the card went away: it is connected again.     *)
CardVanished == {"RETRY_ALLOWED", "CARD_NOT_FOUND"}

Codes == equalsWrongPacePassword \cup Unrecoverable \cup CardVanished
           \cup {"OK", "OK_PUK"}

(* CardReturnCodeUtil::toGlobalStatus.                                     *)
toGlobalStatus ==
  [OK |-> "No_Error", OK_PUK |-> "No_Error",
   UNDEFINED |-> "Unknown_Error", UNKNOWN |-> "Unknown_Error",
   CARD_NOT_FOUND |-> "Card_Not_Found", RETRY_ALLOWED |-> "Card_Not_Found",
   COMMAND_FAILED |-> "Card_Communication_Error",
   PROTOCOL_ERROR |-> "Card_Protocol_Error",
   UNEXPECTED_TRANSMIT_STATUS |-> "Card_Unexpected_Transmit_Status",
   CANCELLATION_BY_USER |-> "Card_Cancellation_By_User",
   INPUT_TIME_OUT |-> "Card_Input_TimeOut",
   INVALID_PIN |-> "Card_Invalid_Pin", INVALID_PIN_2 |-> "Card_Invalid_Pin",
   INVALID_PIN_3 |-> "Card_Invalid_Pin", INVALID_CAN |-> "Card_Invalid_Can",
   INVALID_PUK |-> "Card_Invalid_Puk",
   NEW_PIN_MISMATCH |-> "Card_NewPin_Mismatch",
   NEW_PIN_INVALID_LENGTH |-> "Card_NewPin_Invalid_Length",
   PIN_BLOCKED |-> "Card_Pin_Blocked",
   PIN_NOT_BLOCKED |-> "Card_Pin_Not_Blocked",
   PUK_INOPERATIVE |-> "Card_Puk_Blocked"]

(* The values WorkflowContext::mStatus takes in the modelled workflows.    *)
(* "Workflow_Communication_Error" stands for what the network, a server or *)
(* a certificate is blamed for.                                            *)
Statuses ==
  {toGlobalStatus[c] : c \in Codes}
    \cup {"Workflow_Cancellation_By_User", "Workflow_Reader_Device_Error",
          "Workflow_Card_Removed", "Workflow_No_Permission_Error",
          "Workflow_Communication_Error"}
=============================================================================
