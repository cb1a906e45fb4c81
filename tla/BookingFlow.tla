---------------------------- MODULE BookingFlow -----------------------------
(***************************************************************************)
(* Self-service booking of a fixed-price plan in a conversation            *)
(* (app/orchestrator/booking_flow.py).  A plan's price is t.prices[plan],  *)
(* None while the plan is inactive.  All plans share the one fixed-price   *)
(* event type, so the plans of a turn are the active ones.                 *)
(***************************************************************************)
EXTENDS CaptureFlow

CONSTANT BankData \* the booking_* account settings are filled in

ASSUME BankAssumption == BankData \in BOOLEAN

\* plans_for_turn: the active plans of the event's type.
plans_for_turn(s, t) ==
    IF s.event.type = "FIXED" THEN {p \in DOMAIN t.prices : t.prices[p] # None} ELSE {}

has_pending_request(s) == s.request

\* send: a copy that is not approved calls a human instead.
Send(s, t, code) ==
    IF t.copy = "APPROVED" THEN Ask(s, code) ELSE HandOff(s, "TEMPLATE_UNAVAILABLE")

\* The two questions for the name are strict, and nobody catches what a copy that is not
\* approved raises.
ask_name(s, t) ==
    IF t.copy = "APPROVED" THEN Ask(s, "QUESTION") ELSE Raise(s, "KnowledgeRenderError")

ask_plan(s, t) ==
    IF plans_for_turn(s, t) = {} THEN HandOff(s, "RESERVATION_CONFIRMATION")
    ELSE Send([s EXCEPT !.pending = "SELECT_BOOKING_PLAN"], t, "BOOKING_QUESTION")

ask_booking_datetime(s, t) ==
    Send([s EXCEPT !.booking.date = None, !.booking.time = None, !.booking.unsure = FALSE,
                   !.pending = "SELECT_BOOKING_DATETIME"], t, "BOOKING_QUESTION")

ask_booking_time(s, t) ==
    Send([s EXCEPT !.booking.time = None, !.pending = "SELECT_BOOKING_TIME", !.fails = 0],
         t, "BOOKING_QUESTION")

\* consume_date_time; without an explicit wording a time counts only when it was asked.
HeardTime(t, asked) == t.time # None /\ (t.explicit \/ asked)
consume_date_time(draft, t, asked) ==
    [draft EXCEPT !.date = IF HasDate(t) THEN t.day ELSE @,
                  !.unsure = IF HasDate(t) THEN needs_confirmation(t) ELSE @,
                  !.time = IF HeardTime(t, asked) THEN t.time ELSE @]
Consumes(t, asked) == HasDate(t) \/ HeardTime(t, asked)

BookingSummary(s) ==
    [of |-> "BOOKING_SUMMARY", date |-> s.booking.date, time |-> s.booking.time,
     plan |-> s.booking.plan, price |-> s.booking.price]

(***************************************************************************)
(* continue_slots: the date, the time, the window, the calendar, the name, *)
(* the summary.  The availability read is a deferred call (module Inbox);  *)
(* the price it is answered with is the plan's price in this turn.         *)
(***************************************************************************)
\* The slot is known and free: what is left before the customer confirms.
Quote(s, t, convert) ==
    LET priced == [s EXCEPT !.booking.price = t.prices[s.booking.plan]] IN
    IF s.booking.inquiry
    THEN LET asked == [priced EXCEPT !.pending = "CONFIRM_AVAILABILITY_BOOKING"] IN
         IF t.copy = "APPROVED" THEN Ask(asked, "AVAILABLE")
         ELSE HandOff(asked, "TEMPLATE_UNAVAILABLE")
    ELSE IF convert /\ has_pending_request(s) THEN HandOff(priced, "RESERVATION_CONFIRMATION")
    ELSE IF ~s.name THEN ask_name([priced EXCEPT !.pending = "COLLECT_BOOKING_NAME"], t)
    ELSE IF t.copy # "APPROVED"
    THEN HandOff([priced EXCEPT !.pending = "CONFIRM_BOOKING"], "TEMPLATE_UNAVAILABLE")
    ELSE Show([priced EXCEPT !.pending = "CONFIRM_BOOKING"], BookingSummary(priced))

\* validate_booking_window refuses the hour or the day.
RefusedWindow(s, t) ==
    IF t.window = "HOURS" THEN ask_booking_time(s, t) ELSE ask_booking_datetime(s, t)

continue_slots(s, t, convert) ==
    IF s.booking.unsure
    THEN LET asked == [s EXCEPT !.pending = "SELECT_BOOKING_DATETIME"] IN
         IF t.copy = "APPROVED" THEN Ask(asked, "DATE_CONFIRM")
         ELSE HandOff(asked, "RESERVATION_CONFIRMATION")
    ELSE IF s.booking.date = None
    THEN Send([s EXCEPT !.pending = "SELECT_BOOKING_DATETIME"], t, "BOOKING_QUESTION")
    ELSE IF s.booking.time = None
    THEN Send([s EXCEPT !.pending = "SELECT_BOOKING_TIME"], t, "BOOKING_QUESTION")
    ELSE IF t.window # "OK" THEN RefusedWindow(s, t)
    ELSE CASE t.agenda = "FREE" -> Quote(s, t, convert)
           [] t.agenda = "BUSY" -> ask_booking_datetime(s, t)
           [] OTHER -> HandOff(s, "SYSTEM_ERROR")

(***************************************************************************)
(* handle_booking_start                                                    *)
(***************************************************************************)
is_fixed_price_catalog_followup(s) == s.event.type = "FIXED" /\ s.question = "FIXED_INFO"

\* The new draft; an inquiry or a reply to the catalogue keeps the old one.
StartDraft(s, t, inquiry) ==
    LET kept == IF is_fixed_price_catalog_followup(s) \/ inquiry THEN s.booking ELSE NoBooking
    IN  consume_date_time([kept EXCEPT !.inquiry = @ \/ inquiry], t, FALSE)

StartCapture(s) ==
    GoUnlessThere(IF s.state = "NEW" THEN Go(s, "BOT_ACTIVE") ELSE s, "COLLECTING_EVENT_DATA")

handle_booking_start(s, t, inquiry) ==
    LET followup == is_fixed_price_catalog_followup(s)
        begun == [StartCapture([s EXCEPT !.proposal = NoProposal]) EXCEPT
                    !.booking = StartDraft(s, t, inquiry), !.fails = 0, !.fields = << >>]
        active == {p \in DOMAIN t.prices : t.prices[p] # None}
        named == [apply_event_type(Capturing(begun), "FIXED") EXCEPT !.booking.plan = t.plan]
        typed == IF inquiry /\ t.type = "FIXED"
                 THEN apply_event_type(Capturing(begun), "FIXED") ELSE begun
    IN  IF ~followup /\ ~inquiry /\ has_pending_request(s)
        THEN HandOff(s, "RESERVATION_CONFIRMATION")
        ELSE IF t.plan \in active THEN continue_slots(named, t, FALSE)
        ELSE IF inquiry /\ begun.booking.plan \in plans_for_turn(begun, t)
        THEN continue_slots(begun, t, FALSE)
        ELSE ask_plan([typed EXCEPT !.booking.pick = @ \/ followup], t)

(***************************************************************************)
(* handle_booking_step                                                     *)
(***************************************************************************)
\* The first answer that is not understood repeats the question, the second hands off.
not_understood(s, t) ==
    LET heard == CountFailure(s) IN
    IF heard.fails >= 2 THEN HandOff(heard, "LOW_CONFIDENCE")
    ELSE IF s.pending = "SELECT_BOOKING_PLAN" THEN ask_plan(heard, t)
    ELSE IF s.pending \in {"CONFIRM_BOOKING", "SELECT_BOOKING_DATETIME"}
    THEN continue_slots(heard, t, FALSE)
    ELSE Send(heard, t, "BOOKING_QUESTION")

StepPlan(s, t) ==
    IF t.plan \in plans_for_turn(s, t)
    THEN continue_slots([s EXCEPT !.booking.plan = t.plan, !.booking.pick = FALSE, !.fails = 0],
                        t, FALSE)
    ELSE IF s.booking.pick THEN ask_plan(s, t) ELSE not_understood(s, t)

StepName(s, t) ==
    LET heard == CountFailure(s) IN
    IF t.person THEN continue_slots([s EXCEPT !.name = TRUE, !.fails = 0], t, FALSE)
    ELSE IF heard.fails >= 2 THEN HandOff(heard, "LOW_CONFIDENCE")
    ELSE ask_name(heard, t)

\* Mutant: the confirmation stays pending after it was used.
ReserveKeepsPending(s, t) ==
    LET called == Call(Capturing(s), "RESERVE", s.booking.date, s.booking.time,
                       s.booking.plan, t.prices[s.booking.plan])
    IN  Send(Go([called EXCEPT !.request = TRUE, !.booking = NoBooking], "BOT_ACTIVE"),
             t, "ANSWER")

\* The draft becomes a reservation to be paid; nothing is blocked by it.
Reserve(s, t) ==
    LET called == Call(Capturing(s), "RESERVE", s.booking.date, s.booking.time,
                       s.booking.plan, t.prices[s.booking.plan])
        done == [called EXCEPT !.request = TRUE, !.booking = NoBooking, !.pending = "NONE"]
    IN  Send(Go(done, "BOT_ACTIVE"), t, "ANSWER")

\* Mutant: the price is not read again.
ConfirmBookingAtAnyPrice(s, t) ==
    IF t.window # "OK" THEN RefusedWindow(s, t)
    ELSE IF t.agenda = "BUSY" THEN ask_booking_datetime(s, t)
    ELSE IF t.agenda = "DOWN" \/ has_pending_request(s) THEN HandOff(s, "SYSTEM_ERROR")
    ELSE Reserve(s, t)

\* A confirmation is checked again: price, bank data, window, calendar, other requests.
ConfirmBooking(s, t) ==
    IF s.booking.price # t.prices[s.booking.plan] THEN continue_slots(s, t, FALSE)
    ELSE IF ~BankData THEN HandOff(s, "RESERVATION_CONFIRMATION")
    ELSE IF t.window # "OK" THEN RefusedWindow(s, t)
    ELSE IF t.agenda = "DOWN" THEN HandOff(s, "SYSTEM_ERROR")
    ELSE IF t.agenda = "BUSY" THEN ask_booking_datetime(s, t)
    ELSE IF has_pending_request(s) THEN HandOff(s, "RESERVATION_CONFIRMATION")
    ELSE Reserve(s, t)

StepConfirm(s, t) ==
    IF s.booking.inquiry THEN continue_slots(s, t, FALSE)
    ELSE IF t.says \in DENIALS
    THEN continue_slots([s EXCEPT !.booking = [NoBooking EXCEPT !.plan = s.booking.plan],
                                  !.fails = 0], t, FALSE)
    ELSE IF t.says \in AFFIRMATIONS THEN ConfirmBooking(s, t)
    ELSE not_understood(s, t)

StepDateTime(s, t) ==
    LET asked == s.pending = "SELECT_BOOKING_TIME" IN
    IF s.booking.unsure /\ t.says \in AFFIRMATIONS
    THEN continue_slots([s EXCEPT !.booking.unsure = FALSE, !.fails = 0], t, FALSE)
    ELSE IF s.booking.unsure /\ t.says \in DENIALS
    THEN continue_slots([s EXCEPT !.booking = [NoBooking EXCEPT !.plan = s.booking.plan],
                                  !.fails = 0], t, FALSE)
    ELSE IF ~Consumes(t, asked) THEN not_understood(s, t)
    ELSE continue_slots([s EXCEPT !.booking = consume_date_time(@, t, asked), !.fails = 0],
                        t, FALSE)

\* An availability answer that is not taken up: the message is read as any other.
DeclinesInquiry(s, t) ==
    SelfService /\ s.pending = "CONFIRM_AVAILABILITY_BOOKING" /\ t.says \notin AFFIRMATIONS
Declined(s) == [s EXCEPT !.booking.inquiry = FALSE, !.pending = "NONE"]

handle_booking_step(s, t) ==
    IF ~SelfService THEN HandOff(s, "RESERVATION_CONFIRMATION")
    ELSE IF s.pending = "SELECT_BOOKING_PLAN" THEN StepPlan(s, t)
    ELSE IF s.booking.plan \notin plans_for_turn(s, t) THEN ask_plan(s, t)
    ELSE CASE s.pending = "CONFIRM_AVAILABILITY_BOOKING" ->
                continue_slots([s EXCEPT !.booking.inquiry = FALSE], t, TRUE)
           [] s.pending = "COLLECT_BOOKING_NAME" -> StepName(s, t)
           [] s.pending = "CONFIRM_BOOKING" -> StepConfirm(s, t)
           [] OTHER -> StepDateTime(s, t)
=============================================================================
