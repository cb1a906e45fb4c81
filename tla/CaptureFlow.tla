---------------------------- MODULE CaptureFlow -----------------------------
(***************************************************************************)
(* The quote capture, the answers to questions and the catalogue request:  *)
(* the handlers of app/orchestrator/service.py that are not about a visit  *)
(* or a booking.  See TurnEffects for "s" and "t".                         *)
(***************************************************************************)
EXTENDS TurnEffects, SequencesExt

(***************************************************************************)
(* What is known and what is asked next (slot_filling.py)                  *)
(***************************************************************************)
ENTITY_ACTION ==
    [ event_type |-> "COLLECT_EVENT_TYPE", guest_count |-> "COLLECT_GUEST_COUNT",
      event_date |-> "COLLECT_EVENT_DATE", full_name |-> "COLLECT_CUSTOMER_NAME",
      estimated_budget |-> "COLLECT_BUDGET", requested_services |-> "COLLECT_SERVICES",
      special_requests |-> "CLASSIFY_MESSAGE" ]

GENERIC_CAPTURE_ACTIONS == NAME_ACTIONS

QUESTION_ORDER ==
    << "event_type", "guest_count", "event_date", "full_name", "estimated_budget",
       "requested_services" >>

\* get_or_create_capture_models
Capturing(s) == [s EXCEPT !.event.lead = TRUE]

needs_budget(s) ==
    s.event.type # "FIXED" /\ s.event.budget \in {"NOT_ASKED", "ASKED_PENDING"}

\* Mutant: the name is never missing.
MissingButName(s, field) ==
    CASE field = "event_type" -> s.event.type = "NONE"
      [] field = "guest_count" -> ~s.event.guests
      [] field = "event_date" -> ~s.event.date
      [] field = "full_name" -> FALSE
      [] field = "estimated_budget" -> needs_budget(s)
      [] field = "requested_services" -> ~s.event.services

\* The facts of capture_progress that say a field is still missing.
Missing(s, field) ==
    CASE field = "event_type" -> s.event.type = "NONE"
      [] field = "guest_count" -> ~s.event.guests
      [] field = "event_date" -> ~s.event.date
      [] field = "full_name" -> ~s.name \/ current_pending(s) = "NAME"
      [] field = "estimated_budget" -> needs_budget(s)
      [] field = "requested_services" -> ~s.event.services

\* [*base, *more] of the fields in kept, each one once (dict.fromkeys)
Extend(base, more, kept) ==
    LET upTo[i \in 0..Len(more)] ==
          IF i = 0 THEN base
          ELSE IF more[i] \in kept /\ more[i] \notin ToSet(upTo[i - 1])
               THEN Append(upTo[i - 1], more[i]) ELSE upTo[i - 1]
    IN  upTo[Len(more)]

\* [f for f in fields if f in kept]. Repeated fields (batch.rejected may have some), which
\* dict.fromkeys drops later and nothing else tells apart, are dropped here.
Keep(fields, kept) == Extend(<< >>, fields, kept)

pending_fields_for(s) == Keep(QUESTION_ORDER, {f \in ToSet(QUESTION_ORDER) : Missing(s, f)})

select_next_question(s) ==
    IF pending_fields_for(s) = << >> THEN "NONE" ELSE ENTITY_ACTION[Head(pending_fields_for(s))]

minimum_quote_data_complete(s) ==
    \A f \in {"event_type", "guest_count", "event_date", "full_name"} : ~Missing(s, f)

\* Mutant: lists are put together as they are.
MergeWithRepeats(base, more) == base \o more

\* dict.fromkeys([*base, *more])
Merge(base, more) == Extend(base, more, ToSet(more))

(***************************************************************************)
(* Entities                                                                *)
(***************************************************************************)
NameRejected(t) == "full_name" \in ToSet(t.rejects)
Corrected(t) == t.name = "CORRECTED"

\* audit_entity_rejection: a rejected correction discards the proposed name.
RejectEntities(s, t) ==
    IF NameRejected(t) /\ Corrected(t) /\ s.proposal.kind = "NAME"
    THEN [s EXCEPT !.proposal = NoProposal] ELSE s

\* apply_full_name: an inferred name is proposed, any other replaces the name.
apply_full_name(s, t) ==
    IF t.name = "INFERRED" THEN Propose(s, "NAME", NoReading)
    ELSE [s EXCEPT !.name = TRUE,
                   !.proposal = IF @.kind = "NAME" THEN NoProposal ELSE @]

apply_event_type(s, type) == [s EXCEPT !.event.type = type]

apply_budget(s, t) ==
    [s EXCEPT !.event.budget =
        IF "estimated_budget" \in t.gives THEN "PROVIDED"
        ELSE IF "budget_declined" \in t.gives THEN "DECLINED" ELSE @]

\* guest count, range, date, services: a field once filled is never emptied.
apply_facts(s, t) ==
    [s EXCEPT !.event.guests = @ \/ "guest_count" \in t.gives,
              !.event.date = @ \/ "event_date" \in t.gives,
              !.event.services = @ \/ "requested_services" \in t.gives]

TypeGiven(t) == t.type # "NONE" /\ "event_type" \notin ToSet(t.rejects)

apply_extracted_entities(s, t) ==
    LET typed == IF TypeGiven(t) THEN apply_event_type(s, t.type) ELSE s
        known == apply_budget(apply_facts(typed, t), t)
    IN  IF t.name # "NONE" /\ ~NameRejected(t) THEN apply_full_name(known, t) ELSE known

\* maybe_apply_name_confirmation
ConfirmsName(s, t) ==
    /\ current_pending(s) = "NAME"
    /\ s.pending = "COLLECT_CUSTOMER_NAME"
    /\ is_affirmative(t)
ConfirmName(s) == [s EXCEPT !.name = TRUE, !.proposal = NoProposal]

\* The canonical fields an accepted entity answers.
Answered(t) ==
    t.gives \cup (IF "budget_declined" \in t.gives THEN {"estimated_budget"} ELSE {})
            \cup (IF t.name # "NONE" /\ ~NameRejected(t) THEN {"full_name"} ELSE {})
            \cup (IF TypeGiven(t) THEN {"event_type"} ELSE {})

should_mark_budget_declined_by_evasion(s, t) ==
    /\ s.event.budget = "ASKED_PENDING"
    /\ {"estimated_budget", "budget_declined"} \cap t.gives = {}

(***************************************************************************)
(* The quote summary                                                       *)
(***************************************************************************)
QuoteSummary == [NoSummary EXCEPT !.of = "QUOTE_SUMMARY"]

transition_to_quote_request_ready(s) ==
    IF ~minimum_quote_data_complete(s)
    THEN LET next == select_next_question(s) IN
         IF next = "NONE" THEN Pend(s, next) ELSE PendAndAsk(s, next, "QUESTION")
    ELSE LET ready == [s EXCEPT !.fields = << >>,
                                !.quote = IF @ = "NONE" THEN "DRAFT" ELSE @]
         IN  Show(Go(Pend(ready, "CONFIRM_QUOTE_REQUEST"), "QUOTE_REQUEST_READY"), QuoteSummary)

(***************************************************************************)
(* handle_collecting_event_data                                            *)
(***************************************************************************)
\* The entities are applied, or the proposed name is confirmed instead.
Opened(s, t) ==
    RejectEntities(IF s.state = "BOT_ACTIVE" THEN Go(Capturing(s), "COLLECTING_EVENT_DATA")
                   ELSE Capturing(s), t)
HandledName(s, t) == ~Corrected(t) /\ ~NameRejected(t) /\ ConfirmsName(s, t)
Collected(s, t) ==
    IF HandledName(s, t) THEN ConfirmName(s) ELSE apply_extracted_entities(s, t)

\* A message without a budget declines the one that was asked for.
Evades(s, t) ==
    s.event.type # "FIXED" /\ t.rejects = << >> /\ should_mark_budget_declined_by_evasion(s, t)
Settled(s, t) == IF Evades(s, t) THEN [s EXCEPT !.event.budget = "DECLINED"] ELSE s

\* A fixed-price event leaves the capture when customers book by themselves.
LeaveCapture(s, t) ==
    LET idle == [s EXCEPT !.fields = << >>, !.pending = "NONE", !.proposal = NoProposal,
                          !.fails = 0]
    IN  IF t.copy = "APPROVED" THEN Ask(Go(idle, "BOT_ACTIVE"), "FIXED_INFO")
        ELSE HandOff(Go(idle, "BOT_ACTIVE"), "TEMPLATE_UNAVAILABLE")

\* Fields that were held back and that this message did not answer either.
Unresolved(s, t, budgetDone) ==
    Keep(s.fields, {f \in DOMAIN ENTITY_ACTION :
        /\ f \notin Answered(t)
        /\ ~(f = "full_name" /\ HandledName(s, t))
        /\ ~(f = "estimated_budget" /\ budgetDone)})

RejectedFields(s, t) ==
    Keep(t.rejects, {f \in DOMAIN ENTITY_ACTION :
                        ~(f = "estimated_budget" /\ s.event.type = "FIXED")})

AskNext(s, action) ==
    LET asked == PendAndAsk(s, action, "QUESTION") IN
    IF action = "COLLECT_BUDGET" /\ s.event.budget = "NOT_ASKED"
    THEN [asked EXCEPT !.event.budget = "ASKED_PENDING"] ELSE asked

\* The next question: what was rejected or held back first, then what is missing.
AskOrFinish(s, t, rejected, unresolved) ==
    LET held == rejected \o unresolved
        next == IF held # << >> THEN ENTITY_ACTION[Head(held)] ELSE select_next_question(s)
        counted == [s EXCEPT !.fields = Merge(Merge(pending_fields_for(s), unresolved), rejected),
                             !.fails = 0,
                             !.svc = IF "requested_services" \in t.gives THEN 0 ELSE @]
    IN  IF next # "NONE" THEN AskNext(counted, next)
        ELSE IF \E f \in ToSet(t.rejects) : f # "SERVICE_ITEM"
             THEN PendAndAsk(counted, "CLASSIFY_MESSAGE", "FALLBACK")
        ELSE transition_to_quote_request_ready(counted)

AfterCollecting(s, t, got) ==
    IF got.event.type = "FIXED" /\ SelfService THEN LeaveCapture(got, t)
    ELSE AskOrFinish(Settled(got, t), t, RejectedFields(got, t),
                     Unresolved(s, t, Evades(got, t) \/ got.event.type = "FIXED"))

handle_collecting_event_data(s, t) ==
    LET opened == Opened(s, t) IN AfterCollecting(opened, t, Collected(opened, t))

(***************************************************************************)
(* handle_quote_request_ready                                              *)
(***************************************************************************)
\* The confirmed quote becomes work for a human.
QuoteRequested(s) ==
    LET ready == [Call(s, "QUOTE", None, None, None, None) EXCEPT
                    !.quote = "READY", !.proposal = [NoProposal EXCEPT !.kind = "RESOLVED"]]
    IN  Pend(Ask(create_handoff(ready), "TRANSFER"), "WAIT_FOR_HUMAN")

Recollect(s, t) == handle_collecting_event_data(Go(s, "COLLECTING_EVENT_DATA"), t)

\* Mutant: any "sí" in this state is taken for the confirmation.
QuoteReadyAnyYes(s, t) ==
    IF t.intent = "DENY" THEN Pend(Go(s, "COLLECTING_EVENT_DATA"), "NONE")
    ELSE IF t.intent = "MODIFY_EVENT_DATA" \/ t.rejects # << >> THEN Recollect(s, t)
    ELSE IF t.intent # "CONFIRM" /\ ~is_affirmative(t) THEN Ask(s, "QUOTE_REMINDER")
    ELSE IF ~minimum_quote_data_complete(s) THEN Recollect(s, t)
    ELSE QuoteRequested(s)

handle_quote_request_ready(s, t) ==
    IF ~s.event.lead THEN HandOff(s, "SYSTEM_ERROR")
    ELSE IF t.intent = "DENY"
         THEN [Pend(Go(s, "COLLECTING_EVENT_DATA"), "NONE") EXCEPT
                 !.proposal = [NoProposal EXCEPT !.kind = "RESOLVED"]]
    ELSE IF t.intent = "MODIFY_EVENT_DATA" \/ t.rejects # << >> THEN Recollect(s, t)
    ELSE IF s.pending # "CONFIRM_QUOTE_REQUEST" \/ s.question = "NONE"
         THEN Ask(IF s.pending = "CONFIRM_QUOTE_REQUEST" THEN Pend(s, "NONE") ELSE s, "FALLBACK")
    ELSE IF t.intent # "CONFIRM" /\ ~is_affirmative(t) THEN Ask(s, "QUOTE_REMINDER")
    ELSE IF ~minimum_quote_data_complete(s) THEN Recollect(s, t)
    ELSE IF s.quote = "READY" THEN Ask(s, "ANSWER")
    ELSE QuoteRequested(s)

\* The services question is asked again once; then OTHER is recorded and a human called.
handle_failed_services_resolution(s) ==
    IF s.pending # "COLLECT_SERVICES" THEN s
    ELSE IF s.svc = 0 THEN Ask([s EXCEPT !.svc = 1], "QUESTION")
    ELSE HandOff([Capturing(s) EXCEPT !.event.services = TRUE,
                    !.fields = Keep(@, DOMAIN ENTITY_ACTION \ {"requested_services"}),
                    !.svc = 0], "OTHER")

(***************************************************************************)
(* Greetings, unknown messages and an unavailable model                    *)
(***************************************************************************)
handle_greeting(s) == [Ask(s, "ANSWER") EXCEPT !.fails = 0, !.proposal = NoProposal]

\* Two requests for clarification, then a human.
handle_unknown(s, counted) ==
    LET heard == Pend(IF counted THEN s ELSE CountFailure(s), "CLASSIFY_MESSAGE") IN
    IF heard.fails <= 2 /\ heard.fails > 0 THEN Ask(heard, "FALLBACK")
    ELSE HandOff(heard, "LOW_CONFIDENCE")

handle_farewell(s) ==
    LET said == [Pend(Ask(s, "ANSWER"), "NONE") EXCEPT !.proposal = NoProposal] IN
    IF "RESOLVED" \in ALLOWED_TRANSITIONS[s.state] THEN Go(said, "RESOLVED") ELSE said

CRITICAL_STATES ==
    { "APPOINTMENT_PENDING_CONFIRMATION", "WAITING_FOR_APPOINTMENT_DATE",
      "WAITING_FOR_APPOINTMENT_SELECTION", "QUOTE_REQUEST_READY" }

\* Questions whose text has no variables can be asked again as they are.
Repeatable == {"QUESTION", "FALLBACK"}

handle_ai_unavailable(s, t) ==
    IF s.state \in CRITICAL_STATES THEN HandOff(s, "SYSTEM_ERROR")
    ELSE IF t.category = "FAQ" THEN Ask(s, "ANSWER")
    ELSE IF s.pending # "NONE" /\ s.question \in Repeatable THEN s
    ELSE Ask(s, "DISCOVERY")

(***************************************************************************)
(* The catalogue                                                           *)
(***************************************************************************)
\* create_catalog_not_available_handoff, create_template_unavailable_handoff:
\* these two pause the conversation and leave its drafts.
CatalogHandOff(s) == create_handoff(s)

\* handle_explicit_catalog_request: "knows" is whether an event type is known.
AskCatalog(s, t, knows) ==
    CASE knows /\ t.catalog = "SENT" -> s
      [] knows /\ t.catalog = "UNAVAILABLE" -> CatalogHandOff(Ask(s, "ANSWER"))
      [] ~knows /\ t.catalog = "SENT" -> Ask(s, "CATALOG_QUESTION")
      [] ~knows /\ t.catalog = "UNAVAILABLE" -> Ask(s, "ANSWER")
      [] OTHER -> CatalogHandOff(s)

catalog_result_requires_human(t, knows) ==
    t.catalog = "HANDOFF" \/ (t.catalog = "UNAVAILABLE" /\ knows)

CATALOG_CAPTURE_ABANDON_INTENTS ==
    { "HUMAN_REQUEST", "COMPLAINT", "RESERVATION_INFORMATION", "SCHEDULE_VISIT",
      "RESCHEDULE_VISIT", "CANCEL_VISIT", "QUOTE_REQUEST", "MODIFY_EVENT_DATA", "FAREWELL" }

catalog_capture_should_be_abandoned(t) ==
    /\ t.band \in {"PROBABLE", "SAFE"}
    /\ \/ t.intent \in CATALOG_CAPTURE_ABANDON_INTENTS
       \/ t.intent = "GENERAL_INFORMATION" /\ t.category \in {"FAQ", "NO_ANSWER"}

\* resolve_catalog_event_type_capture: what it leaves, whether the turn ends
\* with it, and whether the failure has been counted.
resolve_catalog_event_type_capture(s, t) ==
    LET Not(x) == [s |-> x, handled |-> FALSE, counted |-> FALSE]
        idle == [s EXCEPT !.proposal = NoProposal]
        failed == CountFailure(idle)
        told == AskCatalog(idle, t, TRUE)
        asked == AskCatalog(failed, t, FALSE)
    IN  IF s.pending # "COLLECT_CATALOG_EVENT_TYPE" THEN Not(s)
        ELSE IF t.type # "NONE"
        THEN [s |-> IF catalog_result_requires_human(t, TRUE) THEN told
                    ELSE [Pend(told, "NONE") EXCEPT !.fails = 0],
              handled |-> TRUE, counted |-> FALSE]
        ELSE IF catalog_capture_should_be_abandoned(t) THEN Not(Pend(idle, "NONE"))
        ELSE IF failed.fails = 1
        THEN [s |-> IF catalog_result_requires_human(t, FALSE) \/ t.catalog = "SENT" THEN asked
                    ELSE Pend(asked, "NONE"),
              handled |-> TRUE, counted |-> FALSE]
        ELSE [s |-> Pend(failed, "NONE"), handled |-> FALSE, counted |-> TRUE]

(***************************************************************************)
(* handle_general_information                                              *)
(***************************************************************************)
BOOKING_ACTIONS ==
    { "SELECT_BOOKING_PLAN", "SELECT_BOOKING_DATETIME", "SELECT_BOOKING_TIME",
      "CONFIRM_BOOKING", "COLLECT_BOOKING_NAME", "CONFIRM_AVAILABILITY_BOOKING" }

needs_confirmation(t) == t.date \in {"CONFLICT", "DAY", "RELATIVE"}
HasDate(t) == t.date = "EXACT" \/ needs_confirmation(t)

\* A name being asked for a visit is kept across the question.
PreservesName(s) ==
    /\ s.state = "WAITING_FOR_APPOINTMENT_SELECTION"
    /\ s.pending = "COLLECT_CUSTOMER_NAME"
    /\ current_pending(s) = "NAME"

\* Mutant: the matrix is not asked first.
AnsweringFromAnywhere(s, t) ==
    IF ~PreservesName(s) /\ t.category # "CATALOG"
    THEN Go(Pend(s, "ANSWER_INFORMATION"), "ANSWERING_INFORMATION") ELSE s

\* The state is left only where the matrix has the way out.
Answering(s, t) ==
    IF /\ ~PreservesName(s)
       /\ t.category # "CATALOG"
       /\ "ANSWERING_INFORMATION" \in ALLOWED_TRANSITIONS[s.state]
    THEN Go(Pend(s, "ANSWER_INFORMATION"), "ANSWERING_INFORMATION") ELSE s

\* Back to where the question was asked, if the matrix has the way back.
Resume(s, state, action, keep) ==
    LET back == IF keep \/ /\ state # "ANSWERING_INFORMATION"
                           /\ state \in ALLOWED_TRANSITIONS["ANSWERING_INFORMATION"]
                THEN state ELSE "BOT_ACTIVE"
    IN  [GoUnlessThere(s, back) EXCEPT !.pending = action]

CatalogRequest(s, t) ==
    LET knows == t.type # "NONE" \/ s.event.type # "NONE"
        told == [AskCatalog(s, t, knows) EXCEPT !.fails = 0, !.proposal = NoProposal]
    IN  IF catalog_result_requires_human(t, knows) THEN told
        ELSE Pend(told, IF t.catalog = "SENT" /\ ~knows
                        THEN "COLLECT_CATALOG_EVENT_TYPE" ELSE s.pending)

\* The date of the question seeds a booking; a generic capture is dropped.
FixedPriceFollowUp(s, was, t) ==
    LET seeded == IF was.pending \notin BOOKING_ACTIONS /\ HasDate(t)
                  THEN [s EXCEPT !.booking = [NoBooking EXCEPT !.date = t.day,
                                                !.unsure = needs_confirmation(t)]]
                  ELSE s
    IN  IF was.pending \in GENERIC_CAPTURE_ACTIONS
        THEN Resume([seeded EXCEPT !.fields = << >>, !.proposal = NoProposal, !.fails = 0],
                    "BOT_ACTIVE", "NONE", FALSE)
        ELSE Resume([seeded EXCEPT !.fails = 0], was.state, was.pending, FALSE)

handle_general_information(s, t, counted, lodging) ==
    LET mid == Answering(s, t)
        type == IF t.type # "NONE" THEN t.type ELSE s.event.type
        fixed == lodging \/ (IF t.category = "CATALOG" THEN type ELSE t.type) = "FIXED"
        typed == apply_event_type(Capturing(mid), "FIXED")
        strict == SelfService \/ lodging
    IN  IF t.category = "NONE" /\ ~fixed
        THEN Resume(Ask(Pend(IF counted THEN mid ELSE CountFailure(mid), "CLASSIFY_MESSAGE"),
                        "FALLBACK"), s.state, s.pending, FALSE)
        ELSE IF t.category = "CATALOG" /\ ~fixed THEN CatalogRequest(s, t)
        ELSE IF fixed
        THEN IF lodging /\ t.prices[LodgingPlan] = None THEN HandOff(typed, "SYSTEM_ERROR")
             ELSE IF strict /\ t.copy # "APPROVED" THEN HandOff(typed, "TEMPLATE_UNAVAILABLE")
             ELSE IF strict THEN FixedPriceFollowUp(Ask(typed, "FIXED_INFO"), s, t)
             ELSE Resume([Ask(typed, "FIXED_INFO") EXCEPT !.fails = 0], s.state, s.pending,
                         PreservesName(s))
        ELSE IF t.category = "NO_ANSWER" THEN HandOff(mid, "OTHER")
        ELSE Resume([Ask(mid, "ANSWER") EXCEPT !.fails = 0], s.state, s.pending,
                    PreservesName(s))
=============================================================================
