----------------------------- MODULE MCDialogue -----------------------------
(***************************************************************************)
(* Small sets of messages for module Dialogue.  The initial state chooses  *)
(* a slice: the messages of one flow and the ones that interrupt it.       *)
(***************************************************************************)
EXTENDS Dialogue

CONSTANT Slices
VARIABLE slice

\* Every other service answers well and the model is sure.
Plain ==
    [ route |-> "LLM", audio |-> FALSE, bad |-> FALSE, failed |-> FALSE,
      says |-> "TEXT", date |-> "NONE", day |-> None, time |-> None, explicit |-> FALSE,
      count |-> "NONE", person |-> FALSE, plan |-> None,
      intent |-> "UNKNOWN", band |-> "SAFE", category |-> "NONE", name |-> "NONE",
      gives |-> {}, rejects |-> << >>, type |-> "NONE",
      slots |-> Slots, service |-> "OK", catalog |-> "SENT", agenda |-> "FREE",
      window |-> "OK", copy |-> "APPROVED" ]

Intent(i) == [Plain EXCEPT !.intent = i]
Yes == [Plain EXCEPT !.says = "YES"]
No == [Plain EXCEPT !.says = "NO"]
Human == [Intent("HUMAN_REQUEST") EXCEPT !.route = "HUMAN"]
Down == [Plain EXCEPT !.route = "AI_DOWN"]
Faq == [Intent("GENERAL_INFORMATION") EXCEPT !.category = "FAQ"]
Unsure(t) == [t EXCEPT !.band = "MID"]

\* Interruptions a flow may meet, among them a message the model is not sure of.
Interruptions ==
    { Intent("UNKNOWN"), Intent("GREETING"), Intent("FAREWELL"), Faq, Unsure(Faq), Human,
      [Plain EXCEPT !.band = "LOW"], [Plain EXCEPT !.bad = TRUE] }

\* A visit is scheduled, moved and cancelled.
DateText(d) == [Plain EXCEPT !.date = "EXACT", !.day = d]
VisitTurns ==
    { Intent(i) : i \in {"SCHEDULE_VISIT", "RESCHEDULE_VISIT", "CANCEL_VISIT"} }
    \cup { DateText(d) : d \in Days }
    \cup { [DateText(1) EXCEPT !.slots = {}], [DateText(1) EXCEPT !.agenda = "DOWN"] }
    \cup { [DateText(1) EXCEPT !.date = "DAY"] }
    \cup { [Plain EXCEPT !.time = h] : h \in Slots }
    \cup { [DateText(d) EXCEPT !.time = h, !.explicit = TRUE, !.intent = "SCHEDULE_VISIT"] :
            d \in {1}, h \in Slots }
    \cup { [Plain EXCEPT !.count = c] : c \in {"OK", "MANY", "EXCEPTION"} }
    \cup { [Plain EXCEPT !.person = TRUE, !.name = n] : n \in {"GIVEN", "INFERRED"} }
    \cup { [Yes EXCEPT !.service = r] : r \in {"OK", "TAKEN", "GONE", "DOWN"} }
    \cup { No, [Yes EXCEPT !.audio = TRUE], [Plain EXCEPT !.says = "OKAY"] }
    \cup Interruptions

\* The catalogue is asked for, and its answer.
CatalogTurns ==
    { [Intent("GENERAL_INFORMATION") EXCEPT !.category = "CATALOG", !.catalog = c, !.type = y] :
        c \in {"SENT", "UNAVAILABLE", "HANDOFF"}, y \in {"NONE", "GENERIC"} }
    \cup { [Plain EXCEPT !.catalog = c] : c \in {"UNAVAILABLE", "HANDOFF"} }

\* A quote is collected, interrupted, corrected and confirmed.
Giving(field) == [Intent("EVENT_INFORMATION") EXCEPT !.gives = {field}]
CaptureTurns ==
    { Giving(f) : f \in {"guest_count", "event_date", "budget_declined", "requested_services"} }
    \cup { [Intent("QUOTE_REQUEST") EXCEPT !.type = "GENERIC"],
           [Intent("EVENT_INFORMATION") EXCEPT !.failed = TRUE],
           [Intent("MODIFY_EVENT_DATA") EXCEPT !.gives = {"guest_count"}],
           [Intent("EVENT_INFORMATION") EXCEPT !.rejects = <<"event_date">>],
           [Intent("EVENT_INFORMATION") EXCEPT !.rejects = <<"UNKNOWN">>],
           Yes, No, [Yes EXCEPT !.audio = TRUE], [Yes EXCEPT !.intent = "EVENT_INFORMATION"] }
    \cup CatalogTurns
    \cup { [Intent("EVENT_INFORMATION") EXCEPT !.name = n] : n \in {"GIVEN", "INFERRED"} }
    \cup { [Intent("EVENT_INFORMATION") EXCEPT !.name = "CORRECTED", !.rejects = r] :
            r \in {<< >>, <<"full_name">>} }
    \cup Interruptions

\* A visit in the middle of a capture, of a fixed-price event among others.
ResumeTurns ==
    { Giving("guest_count"), Giving("event_date"), Intent("SCHEDULE_VISIT"),
      Intent("CANCEL_VISIT"), [Plain EXCEPT !.route = "FIXED"], Down,
      [Plain EXCEPT !.count = "OK"], Yes, No, [Yes EXCEPT !.service = "TAKEN"] }
    \cup { [Intent("SCHEDULE_VISIT") EXCEPT !.band = "PROBABLE"] }
    \cup { [Intent("QUOTE_REQUEST") EXCEPT !.type = y] : y \in {"GENERIC", "FIXED"} }
    \cup { [DateText(d) EXCEPT !.time = h, !.explicit = TRUE] : d \in {1}, h \in {1} }
    \cup { [Plain EXCEPT !.person = TRUE, !.name = "GIVEN", !.intent = "EVENT_INFORMATION"] }

\* A fixed-price plan is asked about, chosen, dated, confirmed.  A booking step does not look
\* at the confidence of a reading.
BookingTurns ==
    { [Plain EXCEPT !.route = r, !.plan = p] : r \in {"BOOKING", "INQUIRY"}, p \in {None, 1} }
    \cup { [Plain EXCEPT !.route = "LODGING"], [Plain EXCEPT !.route = "LODGING", !.copy = "DRAFT"] }
    \cup { [Plain EXCEPT !.plan = p] : p \in Plans }
    \cup { [DateText(d) EXCEPT !.time = h, !.explicit = TRUE, !.agenda = a] :
            d \in {1}, h \in {1}, a \in {"FREE", "BUSY", "DOWN"} }
    \cup { [DateText(d) EXCEPT !.date = "RELATIVE"] : d \in {1} }
    \cup { [Plain EXCEPT !.time = h, !.window = w] : h \in {1}, w \in {"OK", "HOURS", "DATE"} }
    \cup { [Yes EXCEPT !.agenda = a] : a \in {"FREE", "BUSY"} }
    \cup { No, [Yes EXCEPT !.audio = TRUE], [Plain EXCEPT !.person = TRUE],
           [Yes EXCEPT !.copy = "DRAFT"], [Plain EXCEPT !.copy = "DRAFT"],
           [DateText(1) EXCEPT !.time = 1, !.explicit = TRUE, !.copy = "DRAFT"] }
    \cup {t \in Interruptions : t.band # "MID"}

\* A farewell with other messages around it: the flow with two conversations and a backlog.
FarewellTurns == {Intent(i) : i \in {"FAREWELL", "UNKNOWN", "GREETING", "SCHEDULE_VISIT"}}

(***************************************************************************)
(* Slices                                                                  *)
(***************************************************************************)
TurnsOf ==
    [ visit |-> VisitTurns, capture |-> CaptureTurns, booking |-> BookingTurns,
      resume |-> ResumeTurns, farewell |-> FarewellTurns ]
AllTurns == UNION {TurnsOf[flow] : flow \in DOMAIN TurnsOf}

\* A capture is only interrupted by a fixed-price request where bookings are not self-service.
Assisted == INSTANCE Dialogue WITH SelfService <- FALSE

MCInit == /\ slice \in Slices
          /\ DInit
          /\ \A p \in Plans : prices[p] = 1
MCNext == /\ IF slice = "resume" THEN Assisted!DNextWith(TurnsOf[slice])
                                 ELSE DNextWith(TurnsOf[slice])
          /\ UNCHANGED slice
          /\ slice # "farewell" =>
                /\ Len(conversations') <= 1
                /\ \A id \in DOMAIN conversations' : conversations'[id].queue <= 1
          /\ slice # "booking" => reprices' = 0
MCSpec == MCInit /\ [][MCNext]_<<dvars, slice>>
=============================================================================
