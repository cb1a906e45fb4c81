----------------------------- MODULE VisitFlow ------------------------------
(***************************************************************************)
(* Scheduling, moving and cancelling a visit in a conversation: the        *)
(* handlers of app/orchestrator/service.py between handle_visit_intent     *)
(* and move_to_appointment_date.  What the appointment service does with   *)
(* a call is in module Appointments; here it only answers (t.service).     *)
(***************************************************************************)
EXTENDS CaptureFlow

APPOINTMENT_FLOW_STATES ==
    { "WAITING_FOR_APPOINTMENT_DATE", "WAITING_FOR_APPOINTMENT_SELECTION",
      "APPOINTMENT_PENDING_CONFIRMATION" }
DIRECT_APPOINTMENT_ANSWER_ACTIONS ==
    {"COLLECT_CUSTOMER_NAME", "COLLECT_VISIT_ATTENDEES", "COLLECT_VISIT_REASON"}

\* capture_resume_marker, kept from an earlier attempt when there is one
ResumeMark(s) == s.visit.resume \/ s.state = "COLLECTING_EVENT_DATA"

NewDraft(s, mode) == [NoVisit EXCEPT !.mode = mode, !.resume = ResumeMark(s)]

move_to_appointment_date(s) ==
    GoUnlessThere(IF s.state = "NEW" THEN Go(s, "BOT_ACTIVE") ELSE s,
                  "WAITING_FOR_APPOINTMENT_DATE")

(***************************************************************************)
(* Summaries                                                               *)
(***************************************************************************)
\* Mutant: the summary shows the day that was proposed.
SummaryOfCandidate(s, of) ==
    [NoSummary EXCEPT !.of = of, !.date = s.visit.candidate, !.time = s.visit.time]
Summary(s, of) == [NoSummary EXCEPT !.of = of, !.date = s.visit.date, !.time = s.visit.time]

\* Reading a field the draft does not have raises.
HasAll(s) ==
    /\ s.visit.date # None /\ s.visit.time # None
    /\ s.visit.mode = "RESCHEDULE" \/ (s.visit.count /\ s.visit.reason)

prepare_visit_confirmation(s) ==
    IF ~HasAll(s) THEN Raise(s, "KeyError")
    ELSE IF ~s.name THEN HandOff(s, "SYSTEM_ERROR")
    ELSE Show(Pend(Go(s, "APPOINTMENT_PENDING_CONFIRMATION"), "CONFIRM_APPOINTMENT"),
              Summary(s, "VISIT_SUMMARY"))

\* Mutant: a move is confirmed as a new visit.
PreparedAsNewVisit(s) ==
    Show(Pend(Go(s, "APPOINTMENT_PENDING_CONFIRMATION"), "CONFIRM_APPOINTMENT"),
         Summary(s, "RESCHEDULE_SUMMARY"))

prepare_reschedule_confirmation(s) ==
    Show(Pend(Go(s, "APPOINTMENT_PENDING_CONFIRMATION"), "CONFIRM_RESCHEDULE"),
         Summary(s, "RESCHEDULE_SUMMARY"))

repeat_visit_confirmation(s) ==
    IF ~HasAll(s) THEN Raise(s, "KeyError")
    ELSE IF s.visit.mode = "RESCHEDULE" THEN Show(s, Summary(s, "RESCHEDULE_SUMMARY"))
    ELSE Show(s, Summary(s, "VISIT_SUMMARY"))

(***************************************************************************)
(* After the visit, back to the capture it interrupted                     *)
(***************************************************************************)
\* Mutant: the capture is forgotten.
ClearForgetsCapture(s, draft, moveToBot) ==
    LET clear == [s EXCEPT !.visit = NoVisit] IN
    IF moveToBot THEN GoUnlessThere(clear, "BOT_ACTIVE") ELSE clear
\* Mutant: the capture is resumed straight from where the visit ended.
ClearSkipsBot(s, draft, moveToBot) ==
    LET clear == [s EXCEPT !.visit = NoVisit] IN
    IF draft.resume THEN Pend(Go(clear, "COLLECTING_EVENT_DATA"), "NONE")
    ELSE IF moveToBot THEN GoUnlessThere(clear, "BOT_ACTIVE") ELSE clear

clear_visit_draft_and_resume_capture(s, draft, moveToBot) ==
    LET clear == [s EXCEPT !.visit = NoVisit]
        back == Go(GoUnlessThere(clear, "BOT_ACTIVE"), "COLLECTING_EVENT_DATA")
        unresolved == Keep(s.fields, DOMAIN ENTITY_ACTION)
        held == [back EXCEPT !.fields = Merge(pending_fields_for(back), unresolved)]
        next == IF select_next_question(back) = "NONE" /\ unresolved # << >>
                THEN ENTITY_ACTION[unresolved[1]] ELSE select_next_question(back)
    IN  IF ~draft.resume
        THEN IF moveToBot THEN GoUnlessThere(clear, "BOT_ACTIVE") ELSE clear
        ELSE IF ~s.event.lead THEN Pend(back, "NONE")
        ELSE IF next = "NONE" THEN transition_to_quote_request_ready(held)
        ELSE PendAndAsk(held, next, "QUESTION")

\* Mutant: the abandoned visit leaves its question open.
CancelKeepsPending(s) == clear_visit_draft_and_resume_capture(s, s.visit, TRUE)

cancel_visit_attempt(s) ==
    clear_visit_draft_and_resume_capture(Pend(s, "NONE"), s.visit, TRUE)

(***************************************************************************)
(* The confirmation                                                        *)
(***************************************************************************)
\* apply_visit_service_result: OK books, TAKEN asks for another time, DOWN or
\* an uncertain calendar calls a human.  A move that finds the slot TAKEN or the
\* visit GONE answers without a state.
apply_visit_service_result(s, t) ==
    LET moving == s.visit.mode = "RESCHEDULE"
        done == Ask(GoUnlessThere([Pend(s, "NONE") EXCEPT !.visit = NoVisit],
                                  "APPOINTMENT_CONFIRMED"), "ANSWER")
        booked == IF moving THEN done ELSE [done EXCEPT !.visits = IF @ < 2 THEN @ + 1 ELSE @]
        again == IF moving THEN s ELSE Go(s, "WAITING_FOR_APPOINTMENT_SELECTION")
    IN  CASE t.service = "OK" -> clear_visit_draft_and_resume_capture(booked, s.visit, FALSE)
          [] t.service = "TAKEN" -> PendAndAsk(again, "SELECT_VISIT_TIME", "ANSWER")
          [] t.service = "GONE" /\ moving -> Ask(s, "ANSWER")
          [] OTHER -> HandOff(s, "SYSTEM_ERROR")

\* Mutant: a refusal empties the draft and stays in the state.
ConfirmationRefusedInPlace(s, t) ==
    IF t.intent = "DENY"
    THEN PendAndAsk([s EXCEPT !.visit.date = None, !.visit.time = None],
                    "SELECT_VISIT_DATE", "QUESTION")
    ELSE IF t.intent # "CONFIRM" /\ ~is_affirmative(t) THEN repeat_visit_confirmation(s)
    ELSE apply_visit_service_result(
            Call(s, "VISIT", s.visit.date, s.visit.time, None, None), t)

handle_appointment_confirmation(s, t) ==
    IF s.visit.mode = "NONE" THEN Raise(s, "ValueError")
    ELSE IF t.intent = "DENY"
    THEN PendAndAsk(Go([s EXCEPT !.visit.date = None, !.visit.time = None,
                                 !.visit.offered = {}], "WAITING_FOR_APPOINTMENT_DATE"),
                    "SELECT_VISIT_DATE", "QUESTION")
    ELSE IF t.intent # "CONFIRM" /\ ~is_affirmative(t) THEN repeat_visit_confirmation(s)
    ELSE IF ~HasAll(s) THEN Raise(s, "KeyError")
    ELSE apply_visit_service_result(
            Call(s, IF s.visit.mode = "RESCHEDULE" THEN "MOVE" ELSE "VISIT",
                 s.visit.date, s.visit.time, None, None), t)

(***************************************************************************)
(* The time, the attendees, the reason and the name                        *)
(***************************************************************************)
\* Mutant: the attendees are never asked for.
SelectTimeSkipsAttendees(s, t) ==
    LET chosen == [s EXCEPT !.visit.time = t.time] IN
    IF t.time \notin s.visit.offered THEN Ask(s, "ANSWER")
    ELSE IF s.visit.mode = "RESCHEDULE" THEN Pend(chosen, "CONFIRM_RESCHEDULE")
    ELSE PendAndAsk(chosen, "COLLECT_VISIT_REASON", "QUESTION")

\* interpret_visit_time accepts only a time that was offered.
SelectTime(s, t) ==
    LET chosen == [s EXCEPT !.visit.time = t.time] IN
    IF t.time \notin s.visit.offered THEN Ask(s, "ANSWER")
    ELSE IF s.visit.mode = "RESCHEDULE" THEN prepare_reschedule_confirmation(chosen)
    ELSE PendAndAsk(chosen, "COLLECT_VISIT_ATTENDEES", "QUESTION")

\* parse_attendee_count and validate_visit_attendees
CollectAttendees(s, t) ==
    CASE t.count = "OK" -> PendAndAsk([s EXCEPT !.visit.count = TRUE],
                                      "COLLECT_VISIT_REASON", "QUESTION")
      [] t.count = "EXCEPTION" -> HandOff(s, "CAPACITY_REVIEW")
      [] OTHER -> Ask(s, "QUESTION")

\* A bare "sí" or "no" never becomes a name; any other text does.
CollectName(s, t) ==
    LET bare == is_affirmative(t) \/ t.says \in DENIALS
        confirmed == ~Corrected(t) /\ ConfirmsName(s, t)
        entity == [t EXCEPT !.name = IF @ = "NONE" THEN "GIVEN" ELSE @]
        tries == ~confirmed /\ (Corrected(t) \/ ~bare)
        rejected == tries /\ (NameRejected(t) \/ (t.name = "NONE" /\ ~t.person))
        heard == IF confirmed THEN ConfirmName(s)
                 ELSE IF rejected THEN RejectEntities(s, t)
                 ELSE IF tries THEN apply_full_name(s, entity) ELSE s
        settles == confirmed \/ /\ ~is_affirmative(t)
                                /\ current_pending(heard) # "NAME"
                                /\ t.name # "NONE"
        noted == [heard EXCEPT !.fields =
                    IF rejected THEN Merge(@, <<"full_name">>)
                    ELSE IF settles THEN Keep(@, DOMAIN ENTITY_ACTION \ {"full_name"}) ELSE @]
        open == \/ rejected
                \/ current_pending(noted) = "NAME"
                \/ "full_name" \in ToSet(noted.fields)
                \/ ~noted.name
    IN  IF current_pending(s) = "NAME" /\ IsAnswerableQuestion(t)
        THEN handle_general_information(s, t, FALSE, FALSE)
        ELSE IF open THEN Ask(noted, "QUESTION") ELSE prepare_visit_confirmation(noted)

\* Any other pending action: the text is the reason of the visit.
CollectReason(s) ==
    LET told == [s EXCEPT !.visit.reason = TRUE] IN
    IF ~s.name THEN PendAndAsk(told, "COLLECT_CUSTOMER_NAME", "QUESTION")
    ELSE prepare_visit_confirmation(told)

handle_waiting_for_appointment_selection(s, t) ==
    IF s.visit.mode = "NONE" THEN Raise(s, "ValueError")
    ELSE CASE s.pending = "SELECT_VISIT_TIME" -> SelectTime(s, t)
           [] s.pending = "COLLECT_VISIT_ATTENDEES" -> CollectAttendees(s, t)
           [] s.pending = "COLLECT_CUSTOMER_NAME" -> CollectName(s, t)
           [] OTHER -> CollectReason(s)

(***************************************************************************)
(* The date                                                                *)
(***************************************************************************)
\* The slots of the day, and at once the time if the message has it.
OfferSlots(s, t, day) ==
    LET offered == [s EXCEPT !.visit.date = day, !.visit.offered = t.slots]
        moved == Pend(Go(offered, "WAITING_FOR_APPOINTMENT_SELECTION"), "SELECT_VISIT_TIME")
    IN  IF t.agenda = "DOWN" THEN HandOff(s, "SYSTEM_ERROR")
        ELSE IF t.slots = {} THEN Ask(s, "ANSWER")
        ELSE IF s.visit.mode = "NONE" THEN Raise(s, "ValueError")
        ELSE IF t.explicit /\ t.time \in t.slots
             THEN handle_waiting_for_appointment_selection(moved, t)
        ELSE Ask(moved, "QUESTION")

AskDateConfirm(s, day) ==
    IF s.visit.mode = "NONE" THEN Raise(s, "ValueError")
    ELSE PendAndAsk([s EXCEPT !.visit.candidate = day], "CONFIRM_VISIT_DATE", "DATE_CONFIRM")

\* Only a day whose month was inferred is confirmed; other doubts ask again.
DateFromText(s, t) ==
    IF t.date = "DAY" THEN AskDateConfirm(s, t.day)
    ELSE IF t.date # "EXACT" THEN Ask(s, "QUESTION")
    ELSE OfferSlots(s, t, t.day)

handle_waiting_for_appointment_date(s, t) ==
    LET answer == resolve_contextual_confirmation(s, t)
        open == Pend([s EXCEPT !.visit.candidate = None], "SELECT_VISIT_DATE")
    IN  IF s.pending # "CONFIRM_VISIT_DATE" THEN DateFromText(s, t)
        ELSE IF s.visit.mode = "NONE" THEN Raise(s, "ValueError")
        ELSE IF answer = "DENY" THEN Ask(open, "QUESTION")
        ELSE IF answer = "CONFIRM" /\ s.visit.candidate # None
             THEN OfferSlots(open, t, s.visit.candidate)
        ELSE IF t.date = "DAY" THEN AskDateConfirm(s, t.day)
        ELSE IF ~HasDate(t) /\ s.visit.candidate # None THEN AskDateConfirm(s, s.visit.candidate)
        ELSE DateFromText(open, t)

(***************************************************************************)
(* Visit intents                                                           *)
(***************************************************************************)
\* The date handler ends every path with a message of its own.
start_visit_scheduling(s, t) ==
    LET opened == Pend(move_to_appointment_date([s EXCEPT !.visit = NewDraft(s, "SCHEDULE")]),
                       "SELECT_VISIT_DATE")
    IN  handle_waiting_for_appointment_date([opened EXCEPT !.fails = 0], t)

\* One active visit is moved or cancelled; none or several need a human.
handle_visit_intent(s, t) ==
    IF t.intent = "SCHEDULE_VISIT" THEN start_visit_scheduling(s, t)
    ELSE IF s.visits # 1
    THEN HandOff(s, IF t.intent = "RESCHEDULE_VISIT" THEN "OTHER" ELSE "CANCELLATION")
    ELSE IF t.intent = "RESCHEDULE_VISIT"
    THEN PendAndAsk(move_to_appointment_date([s EXCEPT !.visit = NewDraft(s, "RESCHEDULE")]),
                    "SELECT_VISIT_DATE", "QUESTION")
    ELSE LET draft == [NoVisit EXCEPT !.mode = "CANCEL",
                                      !.resume = s.state = "COLLECTING_EVENT_DATA"]
         IN  Show(Pend([s EXCEPT !.visit = draft], "CONFIRM_VISIT_CANCELLATION"),
                  [NoSummary EXCEPT !.of = "CANCEL_SUMMARY"])

handle_visit_cancellation_confirmation(s, t) ==
    LET called == Call(s, "CANCEL", None, None, None, None)
        gone == [Ask(called, "ANSWER") EXCEPT !.visits = IF @ > 0 THEN @ - 1 ELSE @]
        left == IF s.state = "APPOINTMENT_CONFIRMED" THEN Go(gone, "BOT_ACTIVE") ELSE gone
    IN  IF s.visit.mode # "CANCEL" THEN Raise(s, "ValueError")
        ELSE IF t.intent \notin {"CONFIRM", "DENY"}
        THEN Show(s, [NoSummary EXCEPT !.of = "CANCEL_SUMMARY"])
        ELSE IF t.intent = "DENY" \/ t.service = "GONE"
        THEN clear_visit_draft_and_resume_capture(Pend(Ask(s, "ANSWER"), "NONE"), s.visit, FALSE)
        ELSE IF t.service = "OK"
        THEN clear_visit_draft_and_resume_capture(Pend(left, "NONE"), s.visit, FALSE)
        ELSE HandOff(called, "CANCELLATION")

\* handle_appointment_flow_state: first what the message answers, then its intent.
handle_appointment_flow_state(s, t) ==
    LET answer == resolve_contextual_confirmation(s, t)
        direct == \/ /\ s.state = "WAITING_FOR_APPOINTMENT_SELECTION"
                     /\ \/ s.pending \in DIRECT_APPOINTMENT_ANSWER_ACTIONS
                        \/ t.time # None
                  \/ s.state = "WAITING_FOR_APPOINTMENT_DATE" /\ t.date # "NONE"
        answers == direct \/ (s.state = "APPOINTMENT_PENDING_CONFIRMATION" /\ answer # "NONE")
        read == IF answers /\ ~direct THEN [t EXCEPT !.intent = answer] ELSE t
    IN  IF s.state = "WAITING_FOR_APPOINTMENT_SELECTION" /\ ~direct /\ s.visit.mode = "NONE"
        THEN Raise(s, "ValueError")
        ELSE IF ~answers /\ t.intent \in {"SCHEDULE_VISIT", "RESCHEDULE_VISIT"}
        THEN handle_visit_intent(s, t)
        ELSE IF ~answers /\ t.intent = "CANCEL_VISIT" THEN cancel_visit_attempt(s)
        ELSE CASE s.state = "WAITING_FOR_APPOINTMENT_DATE" ->
                    handle_waiting_for_appointment_date(s, read)
               [] s.state = "WAITING_FOR_APPOINTMENT_SELECTION" ->
                    handle_waiting_for_appointment_selection(s, read)
               [] OTHER -> handle_appointment_confirmation(s, read)
=============================================================================
