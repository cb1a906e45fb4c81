------------------------------ MODULE Dialogue ------------------------------
(***************************************************************************)
(* A customer's conversations, turn by turn.                               *)
(*                                                                         *)
(* A message is stored in the customer's active conversation and queued    *)
(* (Arrive).  Later a worker classifies it and applies the orchestrator in *)
(* one transaction (Turn); a turn that raises is rolled back.  In between  *)
(* the staff takes a conversation and gives it back, the price of a plan   *)
(* changes and requests are settled.  That one worker at a time applies    *)
(* turns of a conversation, in order, is module Inbox; what a visit or a   *)
(* reservation becomes once it is requested is Appointments and            *)
(* Reservation.                                                            *)
(***************************************************************************)
EXTENDS VisitFlow, BookingFlow

CONSTANTS
    Turns,            \* the messages considered, with what other services answer
    Plans,            \* fixed-price plans
    Prices,           \* prices a plan may have
    MaxConversations, \* bound: conversations of the customer
    MaxBacklog,       \* bound: queued messages of a conversation
    MaxReprices       \* bound: changes of prices

SENSITIVE_HANDOFF_INTENTS ==
    {"HUMAN_REQUEST", "COMPLAINT", "EMERGENCY", "PAYMENT_MESSAGE", "EVENT_CANCELLATION"}
TRANSIENT_UNSUPPORTED_INTENTS == {"RESERVATION_INFORMATION"}
VISIT_INTENTS == {"SCHEDULE_VISIT", "RESCHEDULE_VISIT", "CANCEL_VISIT"}
COLLECTION_INTENTS == {"EVENT_INFORMATION", "QUOTE_REQUEST", "MODIFY_EVENT_DATA"}
Intents ==
    SENSITIVE_HANDOFF_INTENTS \cup TRANSIENT_UNSUPPORTED_INTENTS \cup VISIT_INTENTS
    \cup COLLECTION_INTENTS
    \cup {"GREETING", "GENERAL_INFORMATION", "FAREWELL", "CONFIRM", "DENY", "UNKNOWN"}

\* The messages there are: a date that was understood comes with its day.
Message ==
    {t \in [ route : {"LLM", "HUMAN", "AI_DOWN", "BOOKING", "INQUIRY", "LODGING", "FIXED"},
             audio : BOOLEAN, bad : BOOLEAN, failed : BOOLEAN,
             says : {"TEXT", "YES", "EXACTO", "OKAY", "NO"},
             date : {"NONE", "EXACT", "DAY", "RELATIVE", "CONFLICT"}, day : Days \cup {None},
             time : Slots \cup {None}, explicit : BOOLEAN,
             count : {"NONE", "OK", "MANY", "EXCEPTION"}, person : BOOLEAN,
             plan : Plans \cup {None},
             intent : Intents, band : {"LOW", "MID", "PROBABLE", "SAFE"},
             category : {"NONE", "FAQ", "CATALOG", "NO_ANSWER"},
             name : {"NONE", "GIVEN", "INFERRED", "CORRECTED"},
             gives : SUBSET (DOMAIN ENTITY_ACTION \cup {"budget_declined"}),
             rejects : Seq(DOMAIN ENTITY_ACTION \cup {"SERVICE_ITEM", "UNKNOWN"}),
             type : {"NONE", "GENERIC", "FIXED"},
             slots : SUBSET Slots, service : {"OK", "TAKEN", "GONE", "DOWN"},
             catalog : {"SENT", "UNAVAILABLE", "HANDOFF"}, agenda : {"FREE", "BUSY", "DOWN"},
             window : {"OK", "HOURS", "DATE"}, copy : {"APPROVED", "DRAFT"} ] :
        t.date \in {"EXACT", "DAY"} => t.day # None}

ASSUME DialogueAssumption ==
    /\ Turns \subseteq Message
    /\ Plans \subseteq Nat \ {0} /\ LodgingPlan \in Plans
    /\ Prices \subseteq Nat \ {0}
    /\ MaxConversations \in Nat \ {0} /\ MaxBacklog \in Nat \ {0} /\ MaxReprices \in Nat

VARIABLES
    conversations, \* the rows, oldest first
    customer,      \* name is known, active visits, a reservation waits for payment
    prices,        \* price of each plan, None while inactive
    reprices       \* changes of prices so far (bound)

dvars == <<conversations, customer, prices, reprices>>

(***************************************************************************)
(* Classification                                                          *)
(***************************************************************************)
booking_guard_eligible(s, selfService) ==
    LET idle == s.pending = "NONE" \/ (selfService /\ s.pending = "CLASSIFY_MESSAGE") IN
    \/ idle /\ s.state \in {"BOT_ACTIVE", "ANSWERING_INFORMATION"}
    \/ selfService /\ s.state = "NEW" /\ s.pending = "NONE"
    \/ /\ selfService /\ s.state = "COLLECTING_EVENT_DATA"
       /\ s.pending \in GENERIC_CAPTURE_ACTIONS \cup {"NONE", "CLASSIFY_MESSAGE"}

\* A booking step is recognised by the pending action alone.
IsBookingStep(s, t) ==
    /\ s.pending \in BOOKING_ACTIONS
    /\ ~(s.pending = "CONFIRM_AVAILABILITY_BOOKING" /\ t.says \notin AFFIRMATIONS)

\* Which readings deterministic_booking_or_catalog_classification can give.
BookingReadings(s, t) ==
    LET open == ~IsBookingStep(s, t) /\ s.proposal = NoProposal
        eligible == open /\ booking_guard_eligible(s, SelfService)
        known == s.event.type = "FIXED" \/ t.plan # None
    IN  {r \in {"LODGING", "INQUIRY", "BOOKING", "FIXED"} :
            CASE r = "LODGING" ->
                    /\ open /\ booking_guard_eligible(s, TRUE)
                    /\ s.pending \notin {"COLLECT_SERVICES", "COLLECT_EVENT_TYPE",
                                         "COLLECT_CATALOG_EVENT_TYPE"}
                    /\ s.booking = NoBooking
              [] r = "INQUIRY" -> eligible /\ SelfService /\ (known \/ t.type = "FIXED")
              [] r = "BOOKING" -> eligible /\ SelfService /\ known
              [] r = "FIXED" -> eligible /\ ~SelfService /\ s.event.type = "FIXED"}

\* services_turn_classification: while services are asked, any other message is
\* read as services, or as none it could resolve.
ReadsServices(t) ==
    /\ t.intent = "EVENT_INFORMATION" /\ t.band = "SAFE" /\ t.name = "NONE"
    /\ t.type = "NONE" /\ t.rejects = << >>
    /\ t.gives = IF t.failed THEN {} ELSE {"requested_services"}

\* classify_message: the readings of a message that are possible in s.
classify_message(s, t) ==
    LET contextual == resolve_contextual_confirmation(s, t) # "NONE" IN
    CASE t.route = "HUMAN" -> t.intent = "HUMAN_REQUEST" /\ ~t.audio
      [] t.route = "AI_DOWN" -> ~contextual /\ ~IsBookingStep(s, t)
      [] t.route = "LLM" ->
            \/ (contextual \/ IsBookingStep(s, t)) /\ ~t.bad
            \/ IF s.pending = "COLLECT_SERVICES"
               THEN t.intent \in SENSITIVE_HANDOFF_INTENTS \cup VISIT_INTENTS \/ ReadsServices(t)
               ELSE ~t.failed
      [] OTHER -> ~contextual /\ t.route \in BookingReadings(s, t)

(***************************************************************************)
(* route_classification                                                    *)
(***************************************************************************)
is_action_allowed_for_slice(s, t) ==
    \/ s.state \in APPOINTMENT_FLOW_STATES
    \/ t.intent \in {"GREETING", "GENERAL_INFORMATION", "FAREWELL", "UNKNOWN"}
    \/ /\ t.intent \in COLLECTION_INTENTS
       /\ s.state \in {"BOT_ACTIVE", "COLLECTING_EVENT_DATA", "QUOTE_REQUEST_READY"}
    \/ /\ t.intent \in {"CONFIRM", "DENY"}
       /\ s.pending \in CONFIRM_ACTIONS /\ s.question # "NONE"
    \/ /\ t.intent \in VISIT_INTENTS
       /\ s.state \in {"NEW", "BOT_ACTIVE", "ANSWERING_INFORMATION", "COLLECTING_EVENT_DATA",
                       "APPOINTMENT_CONFIRMED", "RETURNED_TO_BOT"}
    \/ /\ t.intent \in SENSITIVE_HANDOFF_INTENTS \cup TRANSIENT_UNSUPPORTED_INTENTS
       /\ "WAITING_FOR_HUMAN" \in ALLOWED_TRANSITIONS[s.state]

route_classification(s, t, counted) ==
    LET collecting == s.state = "COLLECTING_EVENT_DATA" IN
    IF ~is_action_allowed_for_slice(s, t) THEN Ask(s, "FALLBACK")
    ELSE IF t.intent \in SENSITIVE_HANDOFF_INTENTS THEN HandOff(s, t.intent)
    ELSE IF s.state \in APPOINTMENT_FLOW_STATES THEN handle_appointment_flow_state(s, t)
    ELSE IF s.pending = "CONFIRM_VISIT_CANCELLATION"
         THEN handle_visit_cancellation_confirmation(s, t)
    ELSE IF collecting /\ t.intent \in VISIT_INTENTS /\ t.band # "SAFE"
         THEN handle_collecting_event_data(s, t)
    ELSE CASE t.intent \in VISIT_INTENTS -> handle_visit_intent(s, t)
           [] t.intent = "GREETING" -> handle_greeting(s)
           [] t.intent = "GENERAL_INFORMATION" -> handle_general_information(s, t, counted, FALSE)
           [] t.intent = "FAREWELL" -> handle_farewell(s)
           [] t.intent = "UNKNOWN" -> handle_unknown(s, counted)
           [] OTHER ->
                IF s.state = "QUOTE_REQUEST_READY" THEN handle_quote_request_ready(s, t)
                ELSE IF collecting \/ t.intent \in COLLECTION_INTENTS
                     THEN handle_collecting_event_data(s, t)
                ELSE IF t.intent \in TRANSIENT_UNSUPPORTED_INTENTS
                     THEN HandOff(s, "UNSUPPORTED_REQUEST")
                ELSE handle_unknown(s, counted)

(***************************************************************************)
(* Confidence                                                              *)
(***************************************************************************)
Resolution(s, t, uplifted) == [s |-> s, t |-> t, uplifted |-> uplifted]

\* A "sí" accepts the proposed reading; other answers discard it.
resolve_pending_confirmation(s, t) ==
    LET kind == current_pending(s)
        dropped == [s EXCEPT !.proposal = NoProposal]
    IN  CASE kind = "NONE" -> Resolution(s, t, FALSE)
          [] kind \in {"INVALID", "RESOLVED"} -> Resolution(dropped, t, FALSE)
          [] kind \in {"NAME", "CLASSIFICATION"} /\ IsAnswerableQuestion(t) ->
                Resolution(s, t, FALSE)
          [] kind = "NAME" /\ ~IsAnswerableQuestion(t) ->
                Resolution(IF t.says \in DENIALS THEN dropped ELSE s, t, FALSE)
          [] OTHER ->
                IF is_affirmative(t) /\ ~Corrected(t)
                THEN Resolution(Pend(dropped, "NONE"), ReadAs(t, s.proposal.reading), TRUE)
                ELSE Resolution(dropped, t, FALSE)

\* Between the two thresholds the reading becomes a proposal.
AskConfirmation(s, t) ==
    LET noted == IF t.rejects # << >> THEN RejectEntities(s, t)
                 ELSE Propose(s, "CLASSIFICATION", Reading(t))
    IN  PendAndAsk(noted, "CLASSIFY_MESSAGE", "FALLBACK")

ByConfidence(r, counted) ==
    IF ~r.uplifted /\ r.t.band = "MID" THEN AskConfirmation(r.s, r.t)
    ELSE route_classification(
            r.s, IF r.uplifted \/ r.t.band # "LOW" THEN r.t ELSE [r.t EXCEPT !.intent = "UNKNOWN"],
            counted)

\* The readings a "sí" or "no" to a pending confirmation replaces.
Contextual(s, t) ==
    LET answer == resolve_contextual_confirmation(s, t) IN
    IF answer = "NONE" THEN t
    ELSE ReadAs(t, [NoReading EXCEPT !.intent = answer, !.band = "SAFE"])

Understand(s, told) ==
    LET t == Contextual(s, told)
        catalog == resolve_catalog_event_type_capture(s, t)
    IN  IF told.bad THEN Ask(s, "FALLBACK")
        ELSE IF t.failed THEN handle_failed_services_resolution(s)
        ELSE IF catalog.handled THEN catalog.s
        ELSE ByConfidence(resolve_pending_confirmation(catalog.s, t), catalog.counted)

(***************************************************************************)
(* _orchestrate_inbound_message                                            *)
(***************************************************************************)
AUDIO_WRITTEN_CONFIRM_ACTIONS ==
    { "CONFIRM_BOOKING", "CONFIRM_APPOINTMENT", "CONFIRM_RESCHEDULE",
      "CONFIRM_VISIT_CANCELLATION", "CONFIRM_QUOTE_REQUEST" }

audio_confirmation_requires_text(s, t) ==
    t.audio /\ s.pending \in AUDIO_WRITTEN_CONFIRM_ACTIONS

handle_fixed_price_booking(s, t) ==
    HandOff([s EXCEPT !.event.date = @ \/ t.date = "EXACT"], "RESERVATION_CONFIRMATION")

orchestrate(s, t) ==
    IF s.state \in PausedStates \/ audio_confirmation_requires_text(s, t) THEN s
    ELSE CASE t.route = "AI_DOWN" -> handle_ai_unavailable(s, t)
           [] t.route = "BOOKING" -> handle_booking_start(s, t, FALSE)
           [] t.route = "INQUIRY" -> handle_booking_start(s, t, TRUE)
           [] t.route = "LODGING" -> handle_general_information(s, t, FALSE, TRUE)
           [] t.route = "FIXED" -> handle_fixed_price_booking(s, t)
           [] t.route = "HUMAN" -> route_classification(s, t, FALSE)
           [] OTHER ->
                IF s.pending \in BOOKING_ACTIONS /\ ~DeclinesInquiry(s, t)
                THEN handle_booking_step(s, t)
                ELSE Understand(IF s.pending \in BOOKING_ACTIONS THEN Declined(s) ELSE s, t)

(***************************************************************************)
(* Rows                                                                    *)
(***************************************************************************)
NewConversation ==
    [ state |-> "BOT_ACTIVE", pending |-> "NONE", question |-> "NONE", proposal |-> NoProposal,
      fails |-> 0, svc |-> 0, fields |-> << >>, visit |-> NoVisit, booking |-> NoBooking,
      event |-> NoEvent, quote |-> "NONE", shown |-> NoSummary, did |-> NoCall,
      error |-> "NONE", queue |-> 0 ]

CustomerFields == {"name", "visits", "request"}
Row(id) == [f \in DOMAIN NewConversation \cup CustomerFields |->
               IF f \in CustomerFields THEN customer[f] ELSE conversations[id][f]]
ConversationOf(s) == [f \in DOMAIN NewConversation |-> s[f]]
CustomerOf(s) == [f \in CustomerFields |-> s[f]]

DInit ==
    /\ conversations = << >>
    /\ customer = [name |-> FALSE, visits |-> 0, request |-> FALSE]
    /\ prices \in [Plans -> Prices]
    /\ reprices = 0

(***************************************************************************)
(* Actions                                                                 *)
(***************************************************************************)
ACTIVE_CONVERSATION_EXCLUDED_STATUSES == {"RESOLVED", "CLOSED"}
Active == {id \in DOMAIN conversations :
              conversations[id].state \notin ACTIVE_CONVERSATION_EXCLUDED_STATUSES}

\* get_or_create_active_conversation: the newest active one takes the message.
Arrive ==
    IF Active # {}
    THEN LET id == CHOOSE i \in Active : \A j \in Active : j <= i IN
         /\ conversations[id].queue < MaxBacklog
         /\ conversations' = [conversations EXCEPT ![id].queue = @ + 1]
         /\ UNCHANGED <<customer, prices, reprices>>
    ELSE /\ Len(conversations) < MaxConversations
         /\ conversations' = Append(conversations, [NewConversation EXCEPT !.queue = 1])
         /\ UNCHANGED <<customer, prices, reprices>>

\* A turn that raises leaves everything as it was, but for the message.
Committed(before, after) ==
    IF after.error = "NONE" THEN after ELSE [before EXCEPT !.error = after.error]

\* The message, with the prices the turn reads.
Priced(message) == [f \in DOMAIN message \cup {"prices"} |->
                       IF f = "prices" THEN prices ELSE message[f]]

Turn(id, message) ==
    LET t == Priced(message)
        before == [Row(id) EXCEPT !.did = NoCall, !.error = "NONE", !.queue = @ - 1]
    IN  /\ conversations[id].queue > 0
        /\ classify_message(Row(id), t)
        /\ \E kept \in {Committed(before, orchestrate(before, t))} :
              /\ conversations' = [conversations EXCEPT ![id] = ConversationOf(kept)]
              /\ customer' = CustomerOf(kept)
        /\ UNCHANGED <<prices, reprices>>

DIRECT_TAKE_STATES ==
    { "BOT_ACTIVE", "ANSWERING_INFORMATION", "COLLECTING_EVENT_DATA", "APPOINTMENT_CONFIRMED",
      "RESOLVED" } \cup APPOINTMENT_FLOW_STATES

\* take_conversation, or the taking of the case the conversation waits with
StaffTakes(id) ==
    /\ conversations[id].state \in DIRECT_TAKE_STATES \cup {"WAITING_FOR_HUMAN"}
    /\ conversations' = [conversations EXCEPT ![id].state = "HUMAN_ACTIVE",
                                              ![id].pending = "WAIT_FOR_HUMAN",
                                              ![id].did = NoCall]
    /\ UNCHANGED <<customer, prices, reprices>>

\* return_handoff: the drafts, the proposal and the counters stay.
StaffReturns(id) ==
    /\ conversations[id].state = "HUMAN_ACTIVE"
    /\ conversations' = [conversations EXCEPT ![id].state = "BOT_ACTIVE",
                                              ![id].pending = "NONE"]
    /\ UNCHANGED <<customer, prices, reprices>>

\* The panel edits a plan: its price, or whether it is offered (update_plan).
update_plan(plan, price) ==
    /\ reprices < MaxReprices /\ prices[plan] # price
    /\ prices' = [prices EXCEPT ![plan] = price]
    /\ reprices' = reprices + 1
    /\ UNCHANGED <<conversations, customer>>

\* The reservation that waited for its payment is confirmed, expires or is cancelled.
RequestSettled ==
    /\ customer.request
    /\ customer' = [customer EXCEPT !.request = FALSE]
    /\ UNCHANGED <<conversations, prices, reprices>>

DNextWith(turns) ==
    \/ Arrive
    \/ \E id \in DOMAIN conversations, t \in turns : Turn(id, t)
    \/ \E id \in DOMAIN conversations : StaffTakes(id) \/ StaffReturns(id)
    \/ \E plan \in Plans, price \in Prices \cup {None} : update_plan(plan, price)
    \/ RequestSettled

DNext == DNextWith(Turns)

DSpec == DInit /\ [][DNext]_dvars

(***************************************************************************)
(* Properties                                                              *)
(***************************************************************************)
PendingAction ==
    GENERIC_CAPTURE_ACTIONS \cup BOOKING_ACTIONS \cup CONFIRM_ACTIONS
    \cup DIRECT_APPOINTMENT_ANSWER_ACTIONS
    \cup { "NONE", "CLASSIFY_MESSAGE", "WAIT_FOR_HUMAN", "ANSWER_INFORMATION",
           "SELECT_VISIT_DATE", "SELECT_VISIT_TIME", "COLLECT_CATALOG_EVENT_TYPE" }

\* The columns keep the values their readers expect.
DTypeOK ==
    /\ Len(conversations) <= MaxConversations
    /\ \A id \in DOMAIN conversations : LET c == conversations[id] IN
        /\ c.state \in ConversationState
        /\ c.pending \in PendingAction
        /\ c.fails \in 0..3 /\ c.svc \in 0..1
        /\ ToSet(c.fields) \subseteq DOMAIN ENTITY_ACTION
        /\ IsInjective(c.fields)
        /\ c.visit.mode \in {"NONE", "SCHEDULE", "RESCHEDULE", "CANCEL"}
        /\ c.visit.offered \subseteq Slots
        /\ c.booking.plan \in Plans \cup {None}
        /\ c.queue \in 0..MaxBacklog
    /\ customer.visits \in 0..2

\* No message makes a handler raise.  The code does not keep this: KnownRaise says when.
NoTurnRaises == \A id \in DOMAIN conversations : conversations[id].error = "NONE"

\* What the code lets raise.  A message queued behind a farewell finds the conversation
\* resolved; the strict question for a name finds its copy not approved; and a visit whose
\* next question was displaced, by a doubtful reading or by a question for the name, is
\* summarised before all its data is known.
KnownRaise(c, error) ==
    CASE error = "InvalidStateTransition" -> c.state = "RESOLVED"
      [] error = "KnowledgeRenderError" -> ~c.name
      [] error = "KeyError" -> /\ c.state = "WAITING_FOR_APPOINTMENT_SELECTION"
                               /\ c.pending \in {"CLASSIFY_MESSAGE", "COLLECT_CUSTOMER_NAME"}
                               /\ c.visit.date = None \/ c.visit.time = None
                                  \/ ~c.visit.count \/ ~c.visit.reason
      [] OTHER -> FALSE

\* Outside these cases no message makes a handler raise: every transition a handler takes is
\* in the matrix, every draft it reads has the fields it reads.  A turn that raises is rolled
\* back, the retries raise again, and the customer gets no answer.
RaisesOnlyWhereKnown ==
    [][\A id \in DOMAIN conversations :
          LET after == conversations'[id] IN
          (after.queue < conversations[id].queue /\ after.error # "NONE")
             => KnownRaise(Row(id), after.error)]_dvars

\* What the services are asked to do is what the last summary showed: the same
\* date and time, and for a booking the same plan and the price that was quoted,
\* even when the panel changed it in between.
DoneAsShown ==
    \A id \in DOMAIN conversations :
        LET did == conversations[id].did IN
        did.call \in {"VISIT", "MOVE", "RESERVE"} =>
            /\ did.date = did.seen.date /\ did.time = did.seen.time
            /\ did.plan = did.seen.plan /\ did.price = did.seen.price

ConfirmActionFor ==
    [ VISIT |-> "CONFIRM_APPOINTMENT", MOVE |-> "CONFIRM_RESCHEDULE",
      CANCEL |-> "CONFIRM_VISIT_CANCELLATION", RESERVE |-> "CONFIRM_BOOKING",
      QUOTE |-> "CONFIRM_QUOTE_REQUEST" ]

\* A visit is booked, moved or cancelled, a plan reserved and a quote requested only while
\* the confirmation of exactly that is pending.  The code does not keep this for visits: a
\* doubtful message, or a move that found its slot taken, leaves another question pending,
\* and the state alone makes the next "sí" confirm the visit.
OnlyUnderItsConfirmation ==
    \A id \in DOMAIN conversations :
        LET did == conversations[id].did IN
        did.call \in DOMAIN ConfirmActionFor => did.under = ConfirmActionFor[did.call]

\* The questions that may be open when a service is called: those that displaced the
\* confirmation of a visit, besides the confirmation.
QuestionsFor(call) ==
    {ConfirmActionFor[call]}
    \cup (IF call \in {"VISIT", "MOVE"} THEN {"CLASSIFY_MESSAGE", "NONE"} ELSE {})
    \cup (IF call = "MOVE" THEN {"SELECT_VISIT_TIME"} ELSE {})

SummaryFor ==
    [VISIT |-> "VISIT_SUMMARY", MOVE |-> "RESCHEDULE_SUMMARY", RESERVE |-> "BOOKING_SUMMARY"]

\* Whatever doubtful reading, refused slot or other question came in between, a visit is
\* booked or moved and a plan reserved only when the last summary the customer saw is one of
\* exactly that.  A plan is reserved, a quote requested and a visit cancelled only while that
\* confirmation is pending; to book or to move a visit, its confirmation may have been
\* displaced, by the questions of QuestionsFor only.
ActsOnItsConfirmation ==
    \A id \in DOMAIN conversations :
        LET did == conversations[id].did IN
        /\ did.call \in DOMAIN ConfirmActionFor => did.under \in QuestionsFor(did.call)
        /\ did.call \in DOMAIN SummaryFor => did.seen.of = SummaryFor[did.call]

\* The state says which question is open, so that the next message reaches the
\* handler that can read it.
PendingMatchesState ==
    \A id \in DOMAIN conversations : LET c == conversations[id] IN
        /\ c.pending \in BOOKING_ACTIONS => c.state = "COLLECTING_EVENT_DATA"
        /\ c.pending \in {"CONFIRM_APPOINTMENT", "CONFIRM_RESCHEDULE"} =>
                c.state = "APPOINTMENT_PENDING_CONFIRMATION"

\* While another time is asked for, a time is what the next message is read for.
TimeAskedInSelection ==
    \A id \in DOMAIN conversations :
        conversations[id].pending = "SELECT_VISIT_TIME" =>
            conversations[id].state = "WAITING_FOR_APPOINTMENT_SELECTION"

\* While a quote waits for its "sí", the state is the one whose handler takes it.
QuoteAskedWhileReady ==
    \A id \in DOMAIN conversations :
        conversations[id].pending = "CONFIRM_QUOTE_REQUEST" =>
            conversations[id].state = "QUOTE_REQUEST_READY"

\* A visit summary is only awaited with everything the booking call reads.
PendingVisitComplete ==
    \A id \in DOMAIN conversations :
        conversations[id].state = "APPOINTMENT_PENDING_CONFIRMATION" => HasAll(Row(id))

\* A quote goes to the staff only with its type, guests, date and a customer name.
QuoteOnlyWhenComplete ==
    \A id \in DOMAIN conversations :
        conversations[id].quote = "READY" =>
            /\ customer.name
            /\ conversations[id].event.type # "NONE"
            /\ conversations[id].event.guests /\ conversations[id].event.date

\* The conversation's columns fit together: what is pending belongs to the state, and a visit
\* or a quote is put before the customer for confirmation only with all its data.
PendingIsSound == DTypeOK /\ PendingMatchesState /\ PendingVisitComplete /\ QuoteOnlyWhenComplete

\* A visit that interrupted a capture gives way to it: when the bot drops the draft
\* of such a visit, the capture is open again or its summary is shown, whatever
\* happened to the visit in between.
ResumesCapture ==
    [][\A id \in DOMAIN conversations :
          LET before == conversations[id]
              after == conversations'[id]
          IN  (/\ before.visit.resume /\ after.visit = NoVisit
               /\ after.state \notin PausedStates)
                 => after.state \in {"COLLECTING_EVENT_DATA", "QUOTE_REQUEST_READY"}]_dvars
=============================================================================
