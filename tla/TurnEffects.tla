---------------------------- MODULE TurnEffects -----------------------------
(***************************************************************************)
(* What one turn of the orchestrator reads and writes.                     *)
(*                                                                         *)
(* A handler of app/orchestrator is an operator from the state before a    *)
(* turn and the turn itself to the state after it.  The state "s" is one   *)
(* record: the columns of the conversation row a turn may change, the few  *)
(* facts about the customer it reads, and two ghosts.                      *)
(*                                                                         *)
(*   state, pending, question    state, pending_action, last_question_code *)
(*   proposal                    pending_confirmation                      *)
(*   fails, svc                  the two failed-understanding counters     *)
(*   fields                      pending_fields                            *)
(*   visit, booking              visit_draft, booking_draft                *)
(*   event, quote                active lead and event; its quote request  *)
(*   name, visits, request       customer: full_name is known, number of   *)
(*                               active visits, a reservation to be paid   *)
(*   shown                       ghost: the last summary the customer saw  *)
(*   did                         ghost: the service call of this turn      *)
(*   error                       the exception that ended the turn         *)
(*                                                                         *)
(* A turn "t" is the text as the deterministic readers understand it       *)
(* (says, date, day, time, explicit, count, person, plan), the route and the *)
(* model's reading of it (route, intent, band, category, name, gives,      *)
(* rejects, type, failed) and what other services answer during the turn   *)
(* (slots, service, catalog, agenda, window, copy, prices).                *)
(***************************************************************************)
EXTENDS Naturals, FiniteSets, ConversationStates

CONSTANTS
    Days,       \* dates a customer may name
    Slots,      \* visit and booking times a customer may name
    SelfService, \* settings.self_service_booking_enabled
    LodgingPlan  \* settings.lodging_plan_code

ASSUME TurnAssumption ==
    /\ Days \subseteq Nat \ {0}
    /\ Slots \subseteq Nat \ {0}
    /\ SelfService \in BOOLEAN

\* An absent date, time or plan of a draft.
None == 0

NoVisit == [mode |-> "NONE", date |-> None, time |-> None, count |-> FALSE,
            reason |-> FALSE, offered |-> {}, resume |-> FALSE, candidate |-> None]

NoBooking == [plan |-> None, date |-> None, unsure |-> FALSE, time |-> None,
              price |-> None, inquiry |-> FALSE, pick |-> FALSE]

NoEvent == [lead |-> FALSE, type |-> "NONE", guests |-> FALSE, date |-> FALSE,
            services |-> FALSE, budget |-> "NOT_ASKED"]

NoReading == [intent |-> "UNKNOWN", band |-> "LOW", category |-> "NONE", name |-> "NONE",
              gives |-> {}, rejects |-> <<>>, type |-> "NONE"]

NoProposal == [kind |-> "NONE", state |-> "NEW", lead |-> FALSE, reading |-> NoReading]

NoSummary == [of |-> "NONE", date |-> None, time |-> None, plan |-> None, price |-> None]

\* "under" is the pending action the call was made under, "seen" the summary shown before it.
NoCall == [call |-> "NONE", date |-> None, time |-> None, plan |-> None, price |-> None,
           under |-> "NONE", seen |-> NoSummary]

(***************************************************************************)
(* Elementary effects                                                      *)
(***************************************************************************)
Raise(s, why) == [s EXCEPT !.error = why]

\* transition_conversation
Go(s, target) ==
    IF target \in ALLOWED_TRANSITIONS[s.state]
    THEN [s EXCEPT !.state = target]
    ELSE Raise(s, "InvalidStateTransition")

\* The callers that move only when the state differs.
GoUnlessThere(s, target) == IF s.state = target THEN s ELSE Go(s, target)

\* set_pending_action
Pend(s, action) ==
    [s EXCEPT !.pending = action,
              !.svc = IF action = "COLLECT_SERVICES" THEN 0 ELSE @]

\* enqueue_template: whatever is said becomes the last question.
Ask(s, code) == [s EXCEPT !.question = code]

PendAndAsk(s, action, code) == Ask(Pend(s, action), code)

\* A summary is a question that shows what a "sí" would do.
Show(s, summary) == [Ask(s, summary.of) EXCEPT !.shown = summary]

\* The call another service gets in this turn (ghost).
Call(s, call, date, time, plan, price) ==
    [s EXCEPT !.did = [call |-> call, date |-> date, time |-> time, plan |-> plan,
                       price |-> price, under |-> s.pending, seen |-> s.shown]]

\* create_handoff
create_handoff(s) ==
    GoUnlessThere([s EXCEPT !.pending = "WAIT_FOR_HUMAN"], "WAITING_FOR_HUMAN")

\* create_handoff_and_pause
HandOff(s, reason) ==
    LET dropped == [s EXCEPT !.visit = NoVisit,
                             !.booking = IF reason = "SYSTEM_ERROR" THEN @ ELSE NoBooking]
        moved == create_handoff(dropped)
    IN  [Ask(moved, "TRANSFER") EXCEPT !.svc = 0, !.proposal = NoProposal]

\* Counting stops where the code stops telling the values apart.
CountFailure(s) == [s EXCEPT !.fails = IF @ < 3 THEN @ + 1 ELSE @]

(***************************************************************************)
(* Yes, no, and the question they answer                                   *)
(***************************************************************************)
\* "YES" is in both word lists, "EXACTO" only in AFFIRMATIONS, "OKAY" only in
\* is_affirmative.
AFFIRMATIONS == {"YES", "EXACTO"}
DENIALS == {"NO"}
is_affirmative(t) == t.says \in {"YES", "OKAY"}

CONFIRM_ACTIONS ==
    { "CONFIRM_QUOTE_REQUEST", "CONFIRM_VISIT_DATE", "CONFIRM_APPOINTMENT",
      "CONFIRM_RESCHEDULE", "CONFIRM_VISIT_CANCELLATION", "CONFIRM_BOOKING",
      "CONFIRM_AVAILABILITY_BOOKING" }

\* "NONE" when the text does not answer a pending confirmation.
resolve_contextual_confirmation(s, t) ==
    IF s.pending \notin CONFIRM_ACTIONS \/ s.question = "NONE" THEN "NONE"
    ELSE IF t.says \in AFFIRMATIONS THEN "CONFIRM"
    ELSE IF t.says \in DENIALS THEN "DENY"
    ELSE "NONE"

(***************************************************************************)
(* Proposals: a classification or a name that waits for a "sí"             *)
(***************************************************************************)
NAME_ACTIONS ==
    { "COLLECT_EVENT_TYPE", "COLLECT_GUEST_COUNT", "COLLECT_EVENT_DATE",
      "COLLECT_CUSTOMER_NAME", "COLLECT_BUDGET", "COLLECT_SERVICES" }
NAME_STATES ==
    { "COLLECTING_EVENT_DATA", "WAITING_FOR_APPOINTMENT_DATE",
      "WAITING_FOR_APPOINTMENT_SELECTION", "APPOINTMENT_PENDING_CONFIRMATION" }

\* A proposal is bound to the state and lead it was made in (proposal_context).
Propose(s, kind, reading) ==
    [s EXCEPT !.proposal = [kind |-> kind, state |-> s.state, lead |-> s.event.lead,
                            reading |-> reading]]

\* read_pending: the kind of proposal that is still in force.
current_pending(s) ==
    LET p == s.proposal IN
    IF p.kind \in {"NONE", "RESOLVED"} THEN p.kind
    ELSE IF p.state # s.state \/ p.lead # s.event.lead THEN "INVALID"
    ELSE IF p.kind = "NAME"
         THEN IF s.state \in NAME_STATES /\ s.pending \in NAME_ACTIONS \cup {"NONE"}
              THEN "NAME" ELSE "INVALID"
    ELSE IF s.pending = "CLASSIFY_MESSAGE" THEN "CLASSIFICATION" ELSE "INVALID"

\* The part of a turn that a stored classification replaces when it is accepted.
Reading(t) == [intent |-> t.intent, band |-> t.band, category |-> t.category,
               name |-> t.name, gives |-> t.gives, rejects |-> t.rejects, type |-> t.type]
ReadAs(t, r) == [f \in DOMAIN t |-> IF f \in DOMAIN r THEN r[f] ELSE t[f]]

\* An FAQ with an approved answer, not a catalogue request, not a yes or no.
IsAnswerableQuestion(t) ==
    /\ t.intent = "GENERAL_INFORMATION"
    /\ t.category = "FAQ"
    /\ ~is_affirmative(t)
    /\ t.says \notin DENIALS
=============================================================================
