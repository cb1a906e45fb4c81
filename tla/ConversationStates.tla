------------------------- MODULE ConversationStates -------------------------
(***************************************************************************)
(* The states of a conversation and the moves between them that            *)
(* transition_conversation allows.  The panel (HumanCase) and the          *)
(* orchestrator (Dialogue) both move a conversation through this table.    *)
(***************************************************************************)

PausedStates == {"WAITING_FOR_HUMAN", "HUMAN_ACTIVE", "CLOSED"}

UnpausedStates ==
    { "NEW", "BOT_ACTIVE", "ANSWERING_INFORMATION", "COLLECTING_EVENT_DATA",
      "QUOTE_REQUEST_READY", "WAITING_FOR_APPOINTMENT_DATE",
      "WAITING_FOR_APPOINTMENT_SELECTION", "APPOINTMENT_PENDING_CONFIRMATION",
      "APPOINTMENT_CONFIRMED", "RETURNED_TO_BOT", "RESOLVED" }

ConversationState == PausedStates \cup UnpausedStates

ALLOWED_TRANSITIONS ==
    [ NEW |-> {"BOT_ACTIVE", "WAITING_FOR_HUMAN", "CLOSED"},
      BOT_ACTIVE |->
        { "ANSWERING_INFORMATION", "COLLECTING_EVENT_DATA",
          "WAITING_FOR_APPOINTMENT_DATE", "WAITING_FOR_APPOINTMENT_SELECTION",
          "APPOINTMENT_PENDING_CONFIRMATION", "WAITING_FOR_HUMAN", "RESOLVED",
          "CLOSED" },
      ANSWERING_INFORMATION |->
        { "BOT_ACTIVE", "COLLECTING_EVENT_DATA", "WAITING_FOR_APPOINTMENT_DATE",
          "WAITING_FOR_HUMAN", "RESOLVED" },
      COLLECTING_EVENT_DATA |->
        { "COLLECTING_EVENT_DATA", "ANSWERING_INFORMATION", "QUOTE_REQUEST_READY",
          "BOT_ACTIVE", "WAITING_FOR_APPOINTMENT_DATE", "WAITING_FOR_HUMAN",
          "RESOLVED" },
      QUOTE_REQUEST_READY |->
        {"COLLECTING_EVENT_DATA", "WAITING_FOR_HUMAN", "BOT_ACTIVE", "RESOLVED"},
      WAITING_FOR_APPOINTMENT_DATE |->
        { "WAITING_FOR_APPOINTMENT_DATE", "WAITING_FOR_APPOINTMENT_SELECTION",
          "ANSWERING_INFORMATION", "WAITING_FOR_HUMAN", "BOT_ACTIVE" },
      WAITING_FOR_APPOINTMENT_SELECTION |->
        { "WAITING_FOR_APPOINTMENT_SELECTION", "APPOINTMENT_PENDING_CONFIRMATION",
          "WAITING_FOR_APPOINTMENT_DATE", "ANSWERING_INFORMATION",
          "WAITING_FOR_HUMAN", "BOT_ACTIVE" },
      APPOINTMENT_PENDING_CONFIRMATION |->
        { "APPOINTMENT_CONFIRMED", "WAITING_FOR_APPOINTMENT_DATE",
          "WAITING_FOR_APPOINTMENT_SELECTION", "BOT_ACTIVE", "WAITING_FOR_HUMAN" },
      APPOINTMENT_CONFIRMED |->
        { "BOT_ACTIVE", "WAITING_FOR_APPOINTMENT_DATE",
          "WAITING_FOR_APPOINTMENT_SELECTION", "APPOINTMENT_PENDING_CONFIRMATION",
          "WAITING_FOR_HUMAN", "RESOLVED" },
      WAITING_FOR_HUMAN |-> {"HUMAN_ACTIVE", "BOT_ACTIVE", "RESOLVED", "CLOSED"},
      HUMAN_ACTIVE |->
        {"RETURNED_TO_BOT", "RESOLVED", "CLOSED", "WAITING_FOR_HUMAN"},
      RETURNED_TO_BOT |->
        { "BOT_ACTIVE", "COLLECTING_EVENT_DATA", "WAITING_FOR_APPOINTMENT_DATE",
          "RESOLVED", "WAITING_FOR_HUMAN" },
      RESOLVED |-> {"BOT_ACTIVE", "HUMAN_ACTIVE", "CLOSED"},
      CLOSED |-> {"BOT_ACTIVE", "HUMAN_ACTIVE"} ]
=============================================================================
