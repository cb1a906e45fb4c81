---------------------------- MODULE Appointments ----------------------------
(***************************************************************************)
(* The agenda of commercial visits.                                        *)
(*                                                                         *)
(* app/appointment/service.py and models.py, app/scheduling/availability.py*)
(* and the closed-day routes of app/admin/routes.py.  A call of the        *)
(* service is a sequence of short transactions with calendar requests in   *)
(* between: check the slot, write the row, write the event, settle the     *)
(* row.  The calls are made by inbox workers, so calls of two customers,   *)
(* and of two conversations of one customer, overlap.                      *)
(*                                                                         *)
(* Instants are integers, DayLen of them to a day; a slot is the instant a *)
(* visit starts at.                                                        *)
(***************************************************************************)
EXTENDS Integers, FiniteSets

CONSTANTS
    MaxVisits,    \* bound: rows ever inserted
    Customers,
    Callers,      \* calls of the service that may be in progress
    CustomerOf,   \* [Callers -> Customers]
    Slots,        \* slots a customer may ask for
    DayLen,       \* instants per day
    Notice,       \* MINIMUM_NOTICE_DAYS
    ReminderHour, \* reminder_send_time, an instant of the day
    StaffSlots,   \* slots staff may fill by hand in the calendar
    ClosedDays,   \* bound: days an administrator may block or declare a holiday
    MaxNow,       \* bound: the clock
    Ops,          \* bound: which of "CONFIRM", "RESCHEDULE", "CANCEL" are called
    Faults,       \* bound: which of "calendar" and "crash" may go wrong
    NoVisit, NoTime

Visits == 1..MaxVisits

ASSUME AppointmentsAssumption ==
    /\ MaxVisits \in Nat
    /\ CustomerOf \in [Callers -> Customers] /\ Customers # {}
    /\ Slots \subseteq Nat /\ StaffSlots \subseteq Nat /\ ClosedDays \subseteq Nat
    /\ DayLen \in Nat \ {0} /\ Notice \in Nat /\ ReminderHour \in Nat /\ MaxNow \in Nat
    /\ Ops \subseteq {"CONFIRM", "RESCHEDULE", "CANCEL"}
    /\ Faults \subseteq {"calendar", "crash"}
    /\ NoVisit \notin Visits
    /\ NoTime \notin Int

VARIABLES
    visit,     \* [Visits -> appointment row]
    event,     \* [Visits -> what the calendar holds under appointment_id.hex]
    busy,      \* slots staff filled by hand
    holidays, blocked,
    now,
    call,      \* [Callers -> the call in progress and what it has read]
    adrift,    \* history: visits a crash or a refused settlement left half done
    disturbed  \* history: visits asked to be moved, or cancelled before they were confirmed

avars == <<visit, event, busy, holidays, blocked, now, call, adrift, disturbed>>

ACTIVE_APPOINTMENT_STATUSES == {"PENDING_CONFIRMATION", "CONFIRMED", "RESCHEDULED"}
APPOINTMENT_STATUSES == ACTIVE_APPOINTMENT_STATUSES \cup {"CANCELLED", "LATE_CANCEL"}

Absent == [kind |-> "ABSENT", slot |-> 0]
At(s) == [kind |-> "EVENT", slot |-> s]
Deleted == [Absent EXCEPT !.kind = "DELETED"]

NoRow == [status |-> "ABSENT", customer |-> CHOOSE c \in Customers : TRUE, slot |-> 0,
          external |-> FALSE, flagged |-> FALSE, remind_at |-> NoTime, reminded |-> FALSE]
Idle == [pc |-> "idle", op |-> "NONE", id |-> NoVisit, slot |-> 0, previous |-> 0]

Steps == {"idle", "chosen", "insert", "create", "flag", "confirm", "check", "move", "settle",
          "delete", "cancel"}

ATypeOK ==
    /\ visit \in [Visits ->
          [status : APPOINTMENT_STATUSES \cup {"ABSENT"}, customer : Customers, slot : Nat,
           external : BOOLEAN, flagged : BOOLEAN, remind_at : Int \cup {NoTime},
           reminded : BOOLEAN]]
    /\ event \in [Visits -> [kind : {"ABSENT", "EVENT", "DELETED"}, slot : Nat]]
    /\ busy \subseteq StaffSlots
    /\ holidays \subseteq ClosedDays /\ blocked \subseteq ClosedDays
    /\ now \in Nat
    /\ call \in [Callers ->
          [pc : Steps, op : {"NONE", "CONFIRM", "RESCHEDULE", "CANCEL"},
           id : Visits \cup {NoVisit}, slot : Nat, previous : Nat]]
    /\ adrift \subseteq Visits /\ disturbed \subseteq Visits

AInit ==
    /\ visit = [v \in Visits |-> NoRow]
    /\ event = [v \in Visits |-> Absent]
    /\ busy = {} /\ holidays = {} /\ blocked = {}
    /\ now = 0
    /\ call = [c \in Callers |-> Idle]
    /\ adrift = {} /\ disturbed = {}

(***************************************************************************)
(* Which slots may be offered.                                             *)
(***************************************************************************)
Day(t) == t \div DayLen
Active(v) == visit[v].status \in ACTIVE_APPOINTMENT_STATUSES

\* The code of the first rule a date breaks, in the code's order; Monday is day 0 of a week.
validate_visit_date(day) ==
    LET days == day - Day(now) IN
    IF days = 0 THEN "RESP-VISIT-004"
    ELSE IF days = 1 THEN "RESP-VISIT-005"
    ELSE IF day % 7 \in {0, 6} THEN "RESP-VISIT-006"
    ELSE IF day \in holidays THEN "RESP-VISIT-007"
    ELSE IF day \in blocked THEN "RESP-VISIT-008"
    ELSE IF days < Notice THEN "RESP-VISIT-004"
    ELSE "ACCEPTED"

\* The calendar visits are written to is among the ones asked for busy intervals.
Busy(s) == s \in busy \/ \E v \in Visits : event[v] = At(s)

Available(s) ==
    /\ validate_visit_date(Day(s)) = "ACCEPTED"
    /\ ~ \E v \in Visits : Active(v) /\ visit[v].slot = s
    /\ ~ Busy(s)

SlotFreeUnchecked(v, s) == TRUE

\* uq_appointment_active_slot: may row v be active in slot s?
SlotFree(v, s) == \A w \in Visits \ {v} : Active(w) => visit[w].slot # s

\* The day before the visit at the configured time.
reminder_at(s) == (Day(s) - 1) * DayLen + ReminderHour

(***************************************************************************)
(* One request to the calendar and its reconciliation.  An unavailable     *)
(* calendar may have applied the request all the same.  Each operator is   *)
(* the set of outcomes: does the helper raise, and what the calendar holds *)
(* afterwards.                                                             *)
(***************************************************************************)
Unreliable == "calendar" \in Faults

CreateOutcomesSwallowed(e, s) ==
    {[raised |-> FALSE, event |-> IF e.kind = "ABSENT" THEN At(s) ELSE e]}
      \cup (IF Unreliable THEN {[raised |-> FALSE, event |-> e]} ELSE {})

\* Create; on unavailability create once more.  The second answer only counts when it is
\* AlreadyExists: a second create that succeeds still re-raises the first failure.
CreateOutcomes(e, s) ==
    IF e.kind # "ABSENT"
    THEN {[raised |-> FALSE, event |-> e]}
           \cup (IF Unreliable THEN {[raised |-> TRUE, event |-> e]} ELSE {})
    ELSE {[raised |-> FALSE, event |-> At(s)]}
           \cup (IF Unreliable
                 THEN {[raised |-> TRUE, event |-> At(s)], [raised |-> TRUE, event |-> Absent]}
                 ELSE {})

\* Update, or create what is not found; on unavailability update once more.  An id that was
\* deleted is not found and cannot be created again.
UpdateOutcomes(e, s) ==
    IF e.kind = "DELETED" THEN {[raised |-> TRUE, event |-> e]}
    ELSE {[raised |-> FALSE, event |-> At(s)]}
           \cup (IF Unreliable
                 THEN {[raised |-> TRUE, event |-> e], [raised |-> TRUE, event |-> At(s)]}
                 ELSE {})

DeleteOutcomesSwallowed(e) ==
    {[raised |-> FALSE, event |-> IF e.kind = "EVENT" THEN Deleted ELSE e]}
      \cup (IF Unreliable THEN {[raised |-> FALSE, event |-> e]} ELSE {})

\* Delete once; what is not found counts as deleted.
DeleteOutcomes(e) ==
    LET gone == IF e.kind = "EVENT" THEN Deleted ELSE e IN
    {[raised |-> FALSE, event |-> gone]}
      \cup (IF Unreliable THEN {[raised |-> TRUE, event |-> e], [raised |-> TRUE, event |-> gone]}
            ELSE {})

(***************************************************************************)
(* confirm_appointment: check, insert PENDING_CONFIRMATION, create the     *)
(* event, settle.  A slot that is not available, and an agenda that cannot *)
(* be read, answer the customer and change nothing.                        *)
(***************************************************************************)
Running(c, pc) == call[c].pc = pc
Goto(c, pc) == call' = [call EXCEPT ![c].pc = pc]
Finish(c) == call' = [call EXCEPT ![c] = Idle]

ConfirmCheck(c, s) ==
    /\ "CONFIRM" \in Ops
    /\ Running(c, "idle")
    /\ Available(s)
    /\ call' = [call EXCEPT ![c] = [Idle EXCEPT !.pc = "insert", !.op = "CONFIRM", !.slot = s]]
    /\ UNCHANGED <<visit, event, busy, holidays, blocked, now, adrift, disturbed>>

NewVisitMisnamed(c) == [NoRow EXCEPT !.status = "PENDING", !.customer = CustomerOf[c],
                                     !.slot = call[c].slot]
NewVisit(c) == [NoRow EXCEPT !.status = "PENDING_CONFIRMATION", !.customer = CustomerOf[c],
                             !.slot = call[c].slot]
NextVisit == {v \in Visits : visit[v].status = "ABSENT"
                               /\ \A w \in 1..(v - 1) : visit[w].status # "ABSENT"}

\* A taken slot violates the partial unique index: the customer is told and nothing is left.
ConfirmInsert(c) ==
    /\ Running(c, "insert")
    /\ \E v \in NextVisit :
          IF SlotFree(v, call[c].slot)
          THEN /\ visit' = [visit EXCEPT ![v] = NewVisit(c)]
               /\ call' = [call EXCEPT ![c].pc = "create", ![c].id = v]
          ELSE Finish(c) /\ UNCHANGED visit
    /\ UNCHANGED <<event, busy, holidays, blocked, now, adrift, disturbed>>

ConfirmCreate(c) ==
    /\ Running(c, "create")
    /\ \E o \in CreateOutcomes(event[call[c].id], call[c].slot) :
          /\ event' = [event EXCEPT ![call[c].id] = o.event]
          /\ Goto(c, IF o.raised THEN "flag" ELSE "confirm")
    /\ UNCHANGED <<visit, busy, holidays, blocked, now, adrift, disturbed>>

\* The transaction that marks a row a failed calendar request left uncertain.
MarkForReconciliation(c) ==
    /\ Running(c, "flag")
    /\ visit' = [visit EXCEPT ![call[c].id].flagged = TRUE]
    /\ Finish(c)
    /\ UNCHANGED <<event, busy, holidays, blocked, now, adrift, disturbed>>

\* settle_visit_appointment refuses a row that changed: the call raises and its inbox job
\* goes to review.
Refuse(c) ==
    /\ adrift' = adrift \cup {call[c].id}
    /\ Finish(c)
    /\ UNCHANGED visit

ConfirmableAnyway(v) == TRUE
Confirmable(v) == visit[v].status = "PENDING_CONFIRMATION"

ConfirmSettle(c) ==
    /\ Running(c, "confirm")
    /\ LET v == call[c].id IN
          IF Confirmable(v)
          THEN /\ visit' = [visit EXCEPT ![v].status = "CONFIRMED", ![v].external = TRUE,
                               ![v].remind_at = reminder_at(call[c].slot), ![v].flagged = FALSE]
               /\ Finish(c)
               /\ UNCHANGED adrift
          ELSE Refuse(c)
    /\ UNCHANGED <<event, busy, holidays, blocked, now, disturbed>>

(***************************************************************************)
(* request_reschedule and request_cancellation offer the customer's only   *)
(* active visit; the id stays in the conversation until it is confirmed.   *)
(***************************************************************************)
ActiveOf(customer) == {v \in Visits : Active(v) /\ visit[v].customer = customer}

\* For the history variable: the confirmation that inserted the row has not ended.
Confirming(v) == \E c \in Callers : call[c].id = v /\ call[c].op = "CONFIRM"

OfferOnlyActive(c, op) ==
    /\ op \in Ops
    /\ Running(c, "idle")
    /\ \E v \in Visits :
          /\ ActiveOf(CustomerOf[c]) = {v}
          /\ call' = [call EXCEPT ![c] = [Idle EXCEPT !.pc = "chosen", !.op = op, !.id = v]]
          /\ disturbed' = IF op = "RESCHEDULE" \/ Confirming(v) THEN disturbed \cup {v} ELSE disturbed
    /\ UNCHANGED <<visit, event, busy, holidays, blocked, now, adrift>>

request_reschedule(c) == OfferOnlyActive(c, "RESCHEDULE")
request_cancellation(c) == OfferOnlyActive(c, "CANCEL")

(***************************************************************************)
(* reschedule_appointment: read the row, check the new slot, move the      *)
(* event, settle.                                                          *)
(***************************************************************************)
RescheduleRead(c, s) ==
    /\ Running(c, "chosen") /\ call[c].op = "RESCHEDULE"
    /\ call' = [call EXCEPT ![c].pc = "check", ![c].slot = s,
                            ![c].previous = visit[call[c].id].slot]
    /\ UNCHANGED <<visit, event, busy, holidays, blocked, now, adrift, disturbed>>

RescheduleCheck(c) ==
    /\ Running(c, "check")
    /\ IF Available(call[c].slot) THEN Goto(c, "move") ELSE Finish(c)
    /\ UNCHANGED <<visit, event, busy, holidays, blocked, now, adrift, disturbed>>

\* A calendar that fails ends the call with RESP-CALENDAR-ERROR-003 and marks nothing.
RescheduleMove(c) ==
    /\ Running(c, "move")
    /\ \E o \in UpdateOutcomes(event[call[c].id], call[c].slot) :
          /\ event' = [event EXCEPT ![call[c].id] = o.event]
          /\ IF o.raised THEN Finish(c) ELSE Goto(c, "settle")
    /\ UNCHANGED <<visit, busy, holidays, blocked, now, adrift, disturbed>>

Movable(c) == Active(call[c].id) /\ visit[call[c].id].slot = call[c].previous

\* The row moves only if it is still active where it was read; the index may still refuse
\* the slot, and then the event stays where it was moved to.
RescheduleSettle(c) ==
    /\ Running(c, "settle")
    /\ LET v == call[c].id
           s == call[c].slot IN
          IF ~ Movable(c) THEN Refuse(c)
          ELSE IF ~ SlotFree(v, s) THEN Finish(c) /\ UNCHANGED <<visit, adrift>>
          ELSE /\ visit' = [visit EXCEPT ![v].slot = s, ![v].status = "RESCHEDULED",
                               ![v].remind_at = reminder_at(s), ![v].flagged = FALSE]
               /\ Finish(c)
               /\ UNCHANGED adrift
    /\ UNCHANGED <<event, busy, holidays, blocked, now, disturbed>>

(***************************************************************************)
(* cancel_appointment: the event first, if the row knows it has one, then  *)
(* the row whatever it has become meanwhile.                               *)
(***************************************************************************)
CancelRead(c) ==
    /\ Running(c, "chosen") /\ call[c].op = "CANCEL"
    /\ Goto(c, IF visit[call[c].id].external THEN "delete" ELSE "cancel")
    /\ UNCHANGED <<visit, event, busy, holidays, blocked, now, adrift, disturbed>>

CancelDelete(c) ==
    /\ Running(c, "delete")
    /\ \E o \in DeleteOutcomes(event[call[c].id]) :
          /\ event' = [event EXCEPT ![call[c].id] = o.event]
          /\ Goto(c, IF o.raised THEN "flag" ELSE "cancel")
    /\ UNCHANGED <<visit, busy, holidays, blocked, now, adrift, disturbed>>

CancelRow(c) ==
    /\ Running(c, "cancel")
    /\ visit' = [visit EXCEPT ![call[c].id].status =
                    IF visit[call[c].id].slot - now < DayLen THEN "LATE_CANCEL" ELSE "CANCELLED"]
    /\ Finish(c)
    /\ UNCHANGED <<event, busy, holidays, blocked, now, adrift, disturbed>>

(***************************************************************************)
(* The rest: due reminders, closed days, staff, the clock and the worker   *)
(* that dies with its call.                                                *)
(***************************************************************************)
Due(v) == /\ Active(v)
          /\ visit[v].remind_at # NoTime
          /\ visit[v].remind_at <= now
          /\ ~ visit[v].reminded

process_due_reminders ==
    /\ \E v \in Visits : Due(v)
    /\ visit' = [v \in Visits |-> IF Due(v) THEN [visit[v] EXCEPT !.reminded = TRUE] ELSE visit[v]]
    /\ UNCHANGED <<event, busy, holidays, blocked, now, call, adrift, disturbed>>

create_blocked_date(d) ==
    /\ d \notin blocked
    /\ blocked' = blocked \cup {d}
    /\ UNCHANGED <<visit, event, busy, holidays, now, call, adrift, disturbed>>

delete_blocked_date(d) ==
    /\ d \in blocked
    /\ blocked' = blocked \ {d}
    /\ UNCHANGED <<visit, event, busy, holidays, now, call, adrift, disturbed>>

\* An upsert: a holiday that exists only changes its name and source.
create_manual_holiday(d) ==
    /\ holidays' = holidays \cup {d}
    /\ UNCHANGED <<visit, event, busy, blocked, now, call, adrift, disturbed>>

StaffFills(s) ==
    /\ busy' = busy \cup {s}
    /\ UNCHANGED <<visit, event, holidays, blocked, now, call, adrift, disturbed>>

StaffFrees(s) ==
    /\ busy' = busy \ {s}
    /\ UNCHANGED <<visit, event, holidays, blocked, now, call, adrift, disturbed>>

Tick ==
    /\ now < MaxNow
    /\ now' = now + 1
    /\ UNCHANGED <<visit, event, busy, holidays, blocked, call, adrift, disturbed>>

CrashCall(c) ==
    /\ "crash" \in Faults
    /\ ~ Running(c, "idle")
    /\ adrift' = adrift \cup ({call[c].id} \ {NoVisit})
    /\ Finish(c)
    /\ UNCHANGED <<visit, event, busy, holidays, blocked, now, disturbed>>

ConfirmCall(c) ==
    \/ \E s \in Slots : ConfirmCheck(c, s)
    \/ ConfirmInsert(c)
    \/ ConfirmCreate(c)
    \/ ConfirmSettle(c)
RescheduleCall(c) ==
    \/ \E s \in Slots : RescheduleRead(c, s)
    \/ RescheduleCheck(c)
    \/ RescheduleMove(c)
    \/ RescheduleSettle(c)
CancelCall(c) == CancelRead(c) \/ CancelDelete(c) \/ CancelRow(c)

ANext ==
    \/ \E c \in Callers :
          \/ ConfirmCall(c)
          \/ request_reschedule(c)
          \/ request_cancellation(c)
          \/ RescheduleCall(c)
          \/ CancelCall(c)
          \/ MarkForReconciliation(c)
          \/ CrashCall(c)
    \/ process_due_reminders
    \/ \E d \in ClosedDays :
          create_blocked_date(d) \/ delete_blocked_date(d) \/ create_manual_holiday(d)
    \/ \E s \in StaffSlots : StaffFills(s) \/ StaffFrees(s)
    \/ Tick

ASpec == AInit /\ [][ANext]_avars

(***************************************************************************)
(* Properties.                                                             *)
(***************************************************************************)
\* Nobody is working on the visit and nobody has been asked to look at it.
AtRest(v) ==
    /\ ~ visit[v].flagged
    /\ v \notin adrift
    /\ \A c \in Callers : call[c].id = v => call[c].pc = "chosen"

\* A visit that is on is in the calendar in its own slot, once the calls about it are over.
InCalendar(v) == AtRest(v) /\ Active(v) => event[v] = At(visit[v].slot)

\* A visit that is off has left the calendar, once the calls about it are over.
OutOfCalendar(v) == AtRest(v) /\ ~ Active(v) => event[v].kind # "EVENT"

\* No failure of confirm or reschedule leaves the row in one slot and the event in another,
\* or nowhere, without marking the visit.
VisitIsInCalendar == \A v \in Visits : InCalendar(v)

\* No cancelled visit stays in the calendar without a mark.
CancelledLeavesCalendar == \A v \in Visits : OutOfCalendar(v)

\* Visits nobody asked to move, or to cancel while they were being confirmed: for the others
\* the row and the event may part without a mark.
Undisturbed == Visits \ disturbed

\* The calendar never holds two such visits in one slot, unless one of them is marked for
\* reconciliation or its call is under review: the check, the partial unique index and
\* the order delete-then-cancel work together (INV-002).
SlotHeldOnce ==
    \A v, w \in Undisturbed :
        /\ v # w
        /\ event[v].kind = "EVENT" /\ event[w] = event[v]
        => \E x \in {v, w} : visit[x].flagged \/ x \in adrift

\* Rows and calendar agree about undisturbed visits, however calls of several customers
\* interleave, the calendar fails and workers die: no slot is held twice, a visit that is on
\* is in its slot, and one that was cancelled has left it.
CalendarAgrees ==
    /\ ATypeOK
    /\ SlotHeldOnce
    /\ \A v \in Undisturbed : InCalendar(v) /\ OutOfCalendar(v)

\* No late settlement of another call brings a cancelled visit back: settle_visit_appointment
\* looks at the status again under the row lock.
CancelledStaysCancelled ==
    [][\A v \in Visits :
          visit[v].status \in {"CANCELLED", "LATE_CANCEL"}
            => visit'[v].status \in {"CANCELLED", "LATE_CANCEL"}]_avars
=============================================================================
