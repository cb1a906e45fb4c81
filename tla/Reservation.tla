---------------------------- MODULE Reservation ----------------------------
(***************************************************************************)
(* Bookings of fixed-price plans and the money that confirms them.         *)
(*                                                                         *)
(* app/reservation/settlement.py, booking.py, availability.py and the      *)
(* reservation and payment routes of app/admin/routes.py: requests that    *)
(* hold no slot, receipts linked to them, the human decision that turns a  *)
(* paid request into a confirmed one, expiry, rescheduling, cancellation   *)
(* and the calendar event written after the commit.                        *)
(*                                                                         *)
(* A panel request is a handler that runs in steps: it reads the calendar  *)
(* with no transaction open, then commits under the advisory lock, then    *)
(* talks to the calendar again.  Time is counted in slots, DayLen of them  *)
(* to a day.                                                               *)
(***************************************************************************)
EXTENDS Integers, FiniteSets, Functions

CONSTANTS
    MaxRes,       \* bound: reservations ever created; ids follow created_at
    Customers,
    Evidence,     \* receipts
    Plans,
    PlanSettings, \* the plan rows an administrator may save
    FirstPlan,    \* [Plans -> PlanSettings] at start
    Price,        \* [Plans -> price_cop]
    Percent,      \* booking_deposit_percent
    Amounts,      \* amounts a reviewer may type
    Slots,        \* starts a customer may ask for
    DayLen,       \* slots per day
    Checkout,     \* checkout_time of overnight plans, in slots after midnight
    Duration,     \* duration of the other plans, in slots
    LeadDays,     \* booking_min_lead_days
    Hours,        \* booking hours in slots of the day: [first, checkin, latest, end]
    BusySlots,    \* slots where staff may put an exclusive event by hand
    MaxNow,       \* bound: the clock
    Handlers,     \* panel requests in progress
    Faults,       \* bound: which of "crash", "calendar" and "download" may go wrong
    NoRes, NoTime

Reservations == 1..MaxRes
Flags == [exclusive : BOOLEAN, overnight : BOOLEAN, weekend_only : BOOLEAN, active : BOOLEAN]

ASSUME ReservationAssumption ==
    /\ MaxRes \in Nat
    /\ Customers # {} /\ Plans # {}
    /\ PlanSettings \subseteq Flags
    /\ FirstPlan \in [Plans -> PlanSettings]
    /\ Price \in [Plans -> Nat \ {0}]
    /\ Percent \in Nat
    /\ Amounts \subseteq Nat \ {0}
    /\ Slots \subseteq Nat /\ BusySlots \subseteq Nat
    /\ DayLen \in Nat \ {0} /\ Duration \in Nat \ {0}
    /\ Checkout \in Nat /\ Checkout < DayLen
    /\ LeadDays \in Nat /\ MaxNow \in Nat
    /\ Hours \in [first : Nat, checkin : Nat, latest : Nat, end : Nat]
    /\ Faults \subseteq {"crash", "calendar", "download"}
    /\ NoRes \notin Reservations
    /\ NoTime \notin Int

VARIABLES
    plan,      \* [Plans -> plan row]
    res,       \* [Reservations -> reservation row]
    ev,        \* [Evidence -> payment_evidence row]
    calendar,  \* [Reservations -> the event the calendar holds under reservation_id.hex]
    busy,      \* slots with a hand-made exclusive event
    now,
    job,       \* [Handlers -> what the request is doing and what it has read]
    edited,    \* history: reservations whose plan changed since their slot was checked
    abandoned, \* history: reservations a calendar call failed for, or whose handler died
    moved      \* history: confirmed reservations that were given another time

rvars == <<plan, res, ev, calendar, busy, now, job, edited, abandoned, moved>>

RESERVATION_STATUSES == {"PAYMENT_PENDING", "PAYMENT_REVIEW", "RESERVED", "EXPIRED", "CANCELLED"}
RESERVATION_TRANSITIONS ==
    [PAYMENT_PENDING |-> {"PAYMENT_REVIEW", "EXPIRED", "CANCELLED"},
     PAYMENT_REVIEW  |-> {"PAYMENT_PENDING", "RESERVED", "CANCELLED"},
     RESERVED        |-> {"CANCELLED"},
     EXPIRED         |-> {},
     CANCELLED       |-> {}]

Steps == {"idle", "accept", "settling", "move", "sync", "call", "record", "failed",
          "release", "clear"}

NoEvent == [kind |-> "ABSENT", start |-> 0, end |-> 0, exclusive |-> FALSE]
Event(s, e, x) == [kind |-> "EVENT", start |-> s, end |-> e, exclusive |-> x]
Deleted == [NoEvent EXCEPT !.kind = "DELETED"]

NoRow == [status |-> "ABSENT", customer |-> CHOOSE c \in Customers : TRUE,
          plan |-> CHOOSE p \in Plans : TRUE, start |-> 0, end |-> 0, price |-> 0,
          paid |-> 0, kind |-> "NONE", due |-> NoTime, overdue |-> FALSE,
          confirmed |-> NoTime, external |-> FALSE, calendar_status |-> "NONE"]
NoEvidenceRow == [review |-> "ABSENT", customer |-> CHOOSE c \in Customers : TRUE,
                  res |-> NoRes, amount |-> 0, failed |-> FALSE]
Idle == [pc |-> "idle", ev |-> NoRes, res |-> NoRes, amount |-> 0,
         start |-> 0, end |-> 0, flags |-> CHOOSE f \in Flags : TRUE,
         asked |-> FALSE, blocked |-> FALSE]

ReservationRow ==
    [status : RESERVATION_STATUSES \cup {"ABSENT"}, customer : Customers, plan : Plans,
     start : Nat, end : Nat, price : Nat, paid : Nat, kind : {"NONE", "DEPOSIT", "FULL"},
     due : Int \cup {NoTime}, overdue : BOOLEAN, confirmed : Nat \cup {NoTime},
     external : BOOLEAN, calendar_status : {"NONE", "CONFIRMED"}]
EvidenceRow ==
    [review : {"ABSENT", "PENDING_REVIEW", "ACCEPTED", "REJECTED"}, customer : Customers,
     res : Reservations \cup {NoRes}, amount : Nat, failed : BOOLEAN]
CalendarEvent ==
    [kind : {"ABSENT", "EVENT", "DELETED"}, start : Nat, end : Nat, exclusive : BOOLEAN]
Request ==
    [pc : Steps, ev : Evidence \cup {NoRes}, res : Reservations \cup {NoRes}, amount : Nat,
     start : Nat, end : Nat, flags : Flags, asked : BOOLEAN, blocked : BOOLEAN]

RTypeOK ==
    /\ plan \in [Plans -> PlanSettings]
    /\ res \in [Reservations -> ReservationRow]
    /\ ev \in [Evidence -> EvidenceRow]
    /\ calendar \in [Reservations -> CalendarEvent]
    /\ busy \subseteq BusySlots
    /\ now \in Nat
    /\ job \in [Handlers -> Request]
    /\ edited \subseteq Reservations
    /\ abandoned \subseteq Reservations /\ moved \subseteq Reservations

RInit ==
    /\ plan = FirstPlan
    /\ res = [r \in Reservations |-> NoRow]
    /\ ev = [e \in Evidence |-> NoEvidenceRow]
    /\ calendar = [r \in Reservations |-> NoEvent]
    /\ busy = {}
    /\ now = 0
    /\ job = [h \in Handlers |-> Idle]
    /\ edited = {}
    /\ abandoned = {} /\ moved = {}

(***************************************************************************)
(* Pure helpers: intervals, exclusivity, the deposit and the window.       *)
(***************************************************************************)
Day(t) == t \div DayLen

\* Integer ceiling to thousands of the deposit percentage.
deposit_amount(price) == ((price * Percent + 100000 - 1) \div 100000) * 1000

\* An overnight stay ends at the next day's checkout, whatever its duration.
booking_ends_at(p, s) == IF p.overnight THEN (Day(s) + 1) * DayLen + Checkout ELSE s + Duration

Overlap(s1, e1, s2, e2) == s1 < e2 /\ s2 < e1

\* Does a confirmed booking of plan q keep out a candidate of plan p?
Excludes(q, p) == (q.overnight /\ (p.exclusive \/ p.overnight)) \/ q.exclusive \/ p.exclusive

\* The days 5 and 6 of each week of seven.
Weekend(s) == Day(s) % 7 \in {5, 6}

validate_booking_window(p, s, e) ==
    /\ e > s
    /\ p.weekend_only => Weekend(s)
    /\ s % DayLen \in (IF p.overnight THEN Hours.checkin ELSE Hours.first)..Hours.latest
    /\ p.overnight => e = booking_ends_at(p, s)
    /\ ~p.overnight => e <= Day(s) * DayLen + Hours.end
    /\ Day(s) >= Day(now) + LeadDays

\* Mutant: only bookings that start inside the interval are found.
ReservedBlockersByStart(p, s, e, except) ==
    {q \in Reservations \ except :
        /\ res[q].status = "RESERVED"
        /\ res[q].start >= s /\ res[q].start < e
        /\ Excludes(plan[res[q].plan], p)}

\* Blockers among the confirmed reservations, as a fresh query sees them.
ReservedBlockers(p, s, e, except) ==
    {q \in Reservations \ except :
        /\ res[q].status = "RESERVED"
        /\ Overlap(res[q].start, res[q].end, s, e)
        /\ Excludes(plan[res[q].plan], p)}

\* Blockers among the calendar's events that carry the exclusivity keyword.
CalendarBlockers(s, e, except) ==
    {q \in Reservations \ except :
        /\ calendar[q].kind = "EVENT" /\ calendar[q].exclusive
        /\ Overlap(calendar[q].start, calendar[q].end, s, e)}
    \cup {b \in busy : Overlap(b, b + 1, s, e)}

(***************************************************************************)
(* Locks.  A request at "settling" holds its receipt, the advisory lock    *)
(* of every booking change and its reservation until it commits.           *)
(***************************************************************************)
Holders == {h \in Handlers : job[h].pc = "settling"}
EvidenceLocked(e) == \E h \in Holders : job[h].ev = e
\* Mutant: no advisory lock, as SELECT FOR UPDATE of an empty range would leave it.
BookingNotLocked == FALSE
BookingLocked == \E h \in Holders : job[h].res # NoRes
ReservationLocked(r) == \E h \in Holders : job[h].res = r

PendingEvidence(r) == {e \in Evidence : ev[e].res = r /\ ev[e].review = "PENDING_REVIEW"}
AcceptedEvidence(r) == {e \in Evidence : ev[e].res = r /\ ev[e].review = "ACCEPTED"}

Done(h) == job' = [job EXCEPT ![h] = Idle]
Go(h, step) == job' = [job EXCEPT ![h].pc = step]
StartOver(h, step, r) == job' = [job EXCEPT ![h] = [Idle EXCEPT !.pc = step, !.res = r]]

(***************************************************************************)
(* Requests and receipts.                                                  *)
(***************************************************************************)
\* Mutant: a status outside ck_reservation_status.
NewReservationOddStatus(r, c, p, s) ==
    /\ r = 1 + Cardinality({q \in Reservations : res[q].status # "ABSENT"})
    /\ plan[p].active
    /\ res' = [res EXCEPT ![r] =
          [NoRow EXCEPT !.status = "PENDING", !.customer = c, !.plan = p, !.start = s,
                        !.end = booking_ends_at(plan[p], s), !.price = Price[p]]]
    /\ UNCHANGED <<plan, ev, calendar, busy, now, job, edited, abandoned, moved>>

\* create_pending_reservation: no slot is held before the money arrives.
NewReservation(r, c, p, s) ==
    /\ r = 1 + Cardinality({q \in Reservations : res[q].status # "ABSENT"})
    /\ plan[p].active
    /\ res' = [res EXCEPT ![r] =
          [NoRow EXCEPT !.status = "PAYMENT_PENDING", !.customer = c, !.plan = p, !.start = s,
                        !.end = booking_ends_at(plan[p], s), !.price = Price[p]]]
    /\ UNCHANGED <<plan, ev, calendar, busy, now, job, edited, abandoned, moved>>

CreatePendingReservation(r, c, p, s) ==
    /\ validate_booking_window(plan[p], s, booking_ends_at(plan[p], s))
    /\ NewReservation(r, c, p, s)

\* The panel's own request also checks the slot, fresh, under the advisory lock.
CreateManualReservation(r, c, p, s) ==
    LET end == booking_ends_at(plan[p], s) IN
    /\ ~BookingLocked
    /\ validate_booking_window(plan[p], s, end)
    /\ ReservedBlockers(plan[p], s, end, {}) \cup CalendarBlockers(s, end, {}) = {}
    /\ NewReservation(r, c, p, s)

\* Review before pending before unpaid balance, the newest of each.
Rank(r) == CASE res[r].status = "PAYMENT_REVIEW" -> 0
             [] res[r].status = "PAYMENT_PENDING" -> 1
             [] OTHER -> 2

Candidates(c) ==
    {r \in Reservations :
        /\ res[r].customer = c
        /\ res[r].start > now
        /\ \/ res[r].status \in {"PAYMENT_REVIEW", "PAYMENT_PENDING"}
           \/ res[r].status = "RESERVED" /\ res[r].paid < res[r].price}

payment_reservation_candidate(c) ==
    IF Candidates(c) = {} THEN NoRes
    ELSE CHOOSE r \in Candidates(c) : \A q \in Candidates(c) :
            Rank(r) < Rank(q) \/ (Rank(r) = Rank(q) /\ r >= q)

\* create_payment_evidence and attach_payment_evidence, one transaction.
ReceiveEvidence(e, c) ==
    LET r == payment_reservation_candidate(c) IN
    /\ ev[e].review = "ABSENT"
    /\ ~ReservationLocked(r)
    /\ ev' = [ev EXCEPT ![e] = [NoEvidenceRow EXCEPT !.review = "PENDING_REVIEW",
                                                     !.customer = c, !.res = r]]
    /\ res' = IF r # NoRes /\ res[r].status = "PAYMENT_PENDING"
              THEN [res EXCEPT ![r].status = "PAYMENT_REVIEW"] ELSE res
    /\ UNCHANGED <<plan, calendar, busy, now, job, edited, abandoned, moved>>

\* The download of the file ends, or ends again: see PaymentEvidence.
DownloadSettles(e) ==
    /\ "download" \in Faults
    /\ ev[e].review # "ABSENT"
    /\ ~EvidenceLocked(e)
    /\ ev' = [ev EXCEPT ![e].failed = ~@]
    /\ UNCHANGED <<plan, res, calendar, busy, now, job, edited, abandoned, moved>>

(***************************************************************************)
(* The human decision.                                                     *)
(***************************************************************************)
\* Mutant: an expired request is taken up again.
ReviewableOrExpired == {"PAYMENT_REVIEW", "PAYMENT_PENDING", "RESERVED", "EXPIRED"}
Reviewable == {"PAYMENT_REVIEW", "PAYMENT_PENDING", "RESERVED"}

\* Before the transaction: the calendar is read only when this amount alone
\* would reach the deposit over what the row says has been paid.
AcceptCheck(h, e, a) ==
    LET r == ev[e].res
        asks == /\ r # NoRes
                /\ res[r].status \in {"PAYMENT_PENDING", "PAYMENT_REVIEW"}
                /\ res[r].paid + a >= deposit_amount(res[r].price)
    IN
    /\ job[h].pc = "idle"
    /\ ev[e].review = "PENDING_REVIEW" /\ ~ev[e].failed
    /\ job' = [job EXCEPT ![h] =
          [Idle EXCEPT !.pc = "accept", !.ev = e, !.res = r, !.amount = a, !.asked = asks,
                       !.blocked = asks /\ CalendarBlockers(res[r].start, res[r].end, {}) # {}]]
    /\ UNCHANGED <<plan, res, ev, calendar, busy, now, edited, abandoned, moved>>

\* Mutant: the receipt is not looked at again once it is locked.
AcceptLockUnchecked(h) ==
    LET r == job[h].res IN
    /\ job[h].pc = "accept"
    /\ ~EvidenceLocked(job[h].ev) /\ ~BookingLocked
    /\ IF r # NoRes /\ res[r].status \notin Reviewable THEN Done(h) ELSE Go(h, "settling")
    /\ UNCHANGED <<plan, res, ev, calendar, busy, now, edited, abandoned, moved>>

\* The query for overlapping confirmed reservations, under the advisory lock.
SlotQueried(h, r) ==
    /\ job' = [job EXCEPT ![h].pc = "settling",
                 ![h].blocked = @ \/ ReservedBlockers(plan[res[r].plan], res[r].start,
                                                      res[r].end, {}) # {}]
    /\ edited' = IF res[r].status = "RESERVED" THEN edited ELSE edited \ {r}

\* The transaction begins: receipt, advisory lock, reservation, in this order.
AcceptLock(h) ==
    LET e == job[h].ev  r == job[h].res IN
    /\ job[h].pc = "accept"
    /\ ~EvidenceLocked(e)
    /\ \/ /\ ev[e].review # "PENDING_REVIEW" \/ ev[e].failed
          /\ Done(h)
          /\ UNCHANGED edited
       \/ /\ ev[e].review = "PENDING_REVIEW" /\ ~ev[e].failed
          /\ IF r = NoRes THEN Go(h, "settling") /\ UNCHANGED edited
             ELSE /\ ~BookingLocked /\ ~ReservationLocked(r)
                  /\ IF res[r].status \in Reviewable THEN SlotQueried(h, r)
                     ELSE Done(h) /\ UNCHANGED edited
    /\ UNCHANGED <<plan, res, ev, calendar, busy, now, abandoned, moved>>

\* Mutant: the last payment leaves the balance date in place.
BalancePaidStillDue(row) ==
    IF row.paid >= row.price THEN [row EXCEPT !.kind = "FULL"] ELSE row
\* What one more accepted amount makes of a reservation.
BalancePaid(row) ==
    IF row.paid >= row.price
    THEN [row EXCEPT !.kind = "FULL", !.due = NoTime, !.overdue = FALSE] ELSE row
Confirmed(row) ==
    LET full == row.paid >= row.price IN
    [row EXCEPT !.status = "RESERVED", !.kind = IF full THEN "FULL" ELSE "DEPOSIT",
                !.due = IF full THEN NoTime ELSE row.start - DayLen, !.confirmed = now]
\* Mutant: a partial payment sends the reservation back without asking for other receipts.
SettledIgnoringOthers(row, blocked, others) ==
    IF row.status = "RESERVED" THEN BalancePaid(row)
    ELSE IF row.paid < deposit_amount(row.price) THEN [row EXCEPT !.status = "PAYMENT_PENDING"]
    ELSE IF blocked THEN [row EXCEPT !.status = "PAYMENT_REVIEW"]
    ELSE Confirmed(row)
Settled(row, blocked, others) ==
    IF row.status = "RESERVED" THEN BalancePaid(row)
    ELSE IF row.paid < deposit_amount(row.price)
         THEN [row EXCEPT !.status = IF others = {} THEN "PAYMENT_PENDING" ELSE "PAYMENT_REVIEW"]
    ELSE IF blocked THEN [row EXCEPT !.status = "PAYMENT_REVIEW"]
    ELSE Confirmed(row)

\* accept_payment commits; only a new confirmation goes on to the calendar.
AcceptCommit(h) ==
    LET e == job[h].ev  r == job[h].res IN
    /\ job[h].pc = "settling"
    /\ ev' = [ev EXCEPT ![e].review = "ACCEPTED", ![e].amount = job[h].amount]
    /\ \/ /\ r = NoRes
          /\ Done(h)
          /\ UNCHANGED res
       \/ /\ r # NoRes
          /\ LET paid == [res[r] EXCEPT !.paid = @ + job[h].amount]
                 new == Settled(paid, job[h].blocked, PendingEvidence(r) \ {e})
             IN /\ res' = [res EXCEPT ![r] = new]
                /\ IF new.status = "RESERVED" /\ res[r].status # "RESERVED"
                   THEN StartOver(h, "sync", r) ELSE Done(h)
    /\ UNCHANGED <<plan, calendar, busy, now, edited, abandoned, moved>>

RejectPayment(e) ==
    LET r == ev[e].res IN
    /\ ev[e].review = "PENDING_REVIEW"
    /\ ~EvidenceLocked(e) /\ ~ReservationLocked(r)
    /\ ev' = [ev EXCEPT ![e].review = "REJECTED"]
    /\ res' = IF r # NoRes /\ res[r].status = "PAYMENT_REVIEW" /\ PendingEvidence(r) = {e}
              THEN [res EXCEPT ![r].status = "PAYMENT_PENDING"] ELSE res
    /\ UNCHANGED <<plan, calendar, busy, now, job, edited, abandoned, moved>>

(***************************************************************************)
(* Expiry, rescheduling, cancellation, plans.                              *)
(***************************************************************************)
\* Every due row the scan can lock: a locked one is skipped until the next hour.
Expirable == {r \in Reservations : /\ res[r].status = "PAYMENT_PENDING"
                                   /\ res[r].start < now
                                   /\ ~ReservationLocked(r)}

ExpirePendingReservations ==
    /\ Expirable # {}
    /\ res' = [r \in Reservations |->
                 IF r \in Expirable THEN [res[r] EXCEPT !.status = "EXPIRED"] ELSE res[r]]
    /\ UNCHANGED <<plan, ev, calendar, busy, now, job, edited, abandoned, moved>>

\* The plan row is read and detached here; the commit still uses this copy.
ScheduleCheck(h, r, s) ==
    LET p == plan[res[r].plan]  end == booking_ends_at(p, s) IN
    /\ job[h].pc = "idle"
    /\ res[r].status \in Reviewable
    /\ p.active
    /\ validate_booking_window(p, s, end)
    /\ ReservedBlockers(p, s, end, {r}) \cup CalendarBlockers(s, end, {r}) = {}
    /\ job' = [job EXCEPT ![h] = [Idle EXCEPT !.pc = "move", !.res = r, !.start = s, !.end = end,
                                              !.flags = p]]
    /\ UNCHANGED <<plan, res, ev, calendar, busy, now, edited, abandoned, moved>>

Moved(row, s, e) ==
    [row EXCEPT !.start = s, !.end = e,
                !.due = IF row.kind = "DEPOSIT" THEN s - DayLen ELSE @,
                !.overdue = @ /\ ~(row.kind = "DEPOSIT" /\ s - DayLen > now),
                !.calendar_status = IF row.status = "RESERVED" THEN "NONE" ELSE @]

ScheduleCommit(h) ==
    LET r == job[h].res  s == job[h].start  e == job[h].end IN
    /\ job[h].pc = "move"
    /\ ~BookingLocked /\ ~ReservationLocked(r)
    /\ \/ /\ \/ res[r].status \notin Reviewable
             \/ ReservedBlockers(job[h].flags, s, e, {r}) # {}
          /\ Done(h)
          /\ UNCHANGED <<res, edited, moved>>
       \/ /\ res[r].status \in Reviewable
          /\ ReservedBlockers(job[h].flags, s, e, {r}) = {}
          /\ res' = [res EXCEPT ![r] = Moved(@, s, e)]
          /\ edited' = IF job[h].flags = plan[res[r].plan] THEN edited \ {r} ELSE edited \cup {r}
          /\ moved' = IF res[r].status = "RESERVED" /\ <<s, e>> # <<res[r].start, res[r].end>>
                      THEN moved \cup {r} ELSE moved
          /\ IF res[r].status = "RESERVED" THEN StartOver(h, "sync", r) ELSE Done(h)
    /\ UNCHANGED <<plan, ev, calendar, busy, now, abandoned>>

\* Only an event the row knows of is released.
CancelReservation(h, r) ==
    /\ job[h].pc = "idle"
    /\ ~BookingLocked /\ ~ReservationLocked(r)
    /\ res[r].status \in Reviewable
    /\ res' = [res EXCEPT ![r].status = "CANCELLED"]
    /\ IF res[r].status = "RESERVED" /\ res[r].external
       THEN StartOver(h, "release", r)
       ELSE UNCHANGED job
    /\ UNCHANGED <<plan, ev, calendar, busy, now, edited, abandoned, moved>>

UpdatePlan(p, f) ==
    /\ f # plan[p]
    /\ plan' = [plan EXCEPT ![p] = f]
    /\ edited' = edited \cup {r \in Reservations : res[r].plan = p}
    /\ UNCHANGED <<res, ev, calendar, busy, now, job, abandoned, moved>>

(***************************************************************************)
(* The calendar event, written after the commit with no transaction open.  *)
(***************************************************************************)
RetryCalendar(h, r) ==
    /\ job[h].pc = "idle"
    /\ res[r].status = "RESERVED" /\ res[r].calendar_status = "NONE"
    /\ StartOver(h, "sync", r)
    /\ UNCHANGED <<plan, res, ev, calendar, busy, now, edited, abandoned, moved>>

SyncRead(h) ==
    LET r == job[h].res IN
    /\ job[h].pc = "sync"
    /\ IF res[r].status # "RESERVED" THEN Done(h)
       ELSE job' = [job EXCEPT ![h].pc = "call", ![h].start = res[r].start, ![h].end = res[r].end,
                               ![h].flags = plan[res[r].plan]]
    /\ UNCHANGED <<plan, res, ev, calendar, busy, now, edited, abandoned, moved>>

\* Update, or create if there is none; create, or update what is there: either
\* way the event ends up as this request read the reservation.
Written(h) == [calendar EXCEPT ![job[h].res] =
                  Event(job[h].start, job[h].end, job[h].flags.exclusive)]

SyncCall(h) ==
    /\ job[h].pc = "call"
    /\ calendar' = Written(h)
    /\ Go(h, "record")
    /\ UNCHANGED <<plan, res, ev, busy, now, edited, abandoned, moved>>

\* The provider fails, before or after it wrote the event.
SyncUnavailable(h) ==
    /\ "calendar" \in Faults
    /\ job[h].pc = "call"
    /\ calendar' \in {calendar, Written(h)}
    /\ Go(h, "failed")
    /\ abandoned' = abandoned \cup {job[h].res}
    /\ UNCHANGED <<plan, res, ev, busy, now, edited, moved>>

\* The id of a deleted event is burned: create and update raise, uncaught.
SyncBurned(h) ==
    /\ job[h].pc = "call"
    /\ calendar[job[h].res].kind = "DELETED"
    /\ Done(h)
    /\ UNCHANGED <<plan, res, ev, calendar, busy, now, edited, abandoned, moved>>

SyncFailed(h) ==
    /\ job[h].pc = "failed"
    /\ ~ReservationLocked(job[h].res)
    /\ res' = [res EXCEPT ![job[h].res].calendar_status = "NONE"]
    /\ Done(h)
    /\ UNCHANGED <<plan, ev, calendar, busy, now, edited, abandoned, moved>>

\* Mutant: a cancellation during the call is not noticed.
SyncRecordKeepsEvent(h) ==
    LET r == job[h].res IN
    /\ job[h].pc = "record"
    /\ ~ReservationLocked(r)
    /\ res' = IF res[r].status = "RESERVED"
              THEN [res EXCEPT ![r].external = TRUE, ![r].calendar_status = "CONFIRMED"] ELSE res
    /\ Done(h)
    /\ UNCHANGED <<plan, ev, calendar, busy, now, edited, abandoned, moved>>

SyncRecord(h) ==
    LET r == job[h].res
        superseded == \/ res[r].status # "RESERVED"
                      \/ <<res[r].start, res[r].end>> # <<job[h].start, job[h].end>>
    IN
    /\ job[h].pc = "record"
    /\ ~ReservationLocked(r)
    /\ \/ /\ ~superseded
          /\ res' = [res EXCEPT ![r].external = TRUE, ![r].calendar_status = "CONFIRMED"]
          /\ Done(h)
       \/ /\ superseded
          /\ IF res[r].status = "CANCELLED" THEN StartOver(h, "release", r) ELSE Done(h)
          /\ UNCHANGED res
    /\ UNCHANGED <<plan, ev, calendar, busy, now, edited, abandoned, moved>>

Removed(r) == [calendar EXCEPT ![r] = IF @.kind = "EVENT" THEN Deleted ELSE @]

ReleaseCall(h) ==
    /\ job[h].pc = "release"
    /\ calendar' = Removed(job[h].res)
    /\ Go(h, "clear")
    /\ UNCHANGED <<plan, res, ev, busy, now, edited, abandoned, moved>>

ReleaseUnavailable(h) ==
    /\ "calendar" \in Faults
    /\ job[h].pc = "release"
    /\ calendar' \in {calendar, Removed(job[h].res)}
    /\ abandoned' = abandoned \cup {job[h].res}
    /\ Done(h)
    /\ UNCHANGED <<plan, res, ev, busy, now, edited, moved>>

ReleaseClear(h) ==
    /\ job[h].pc = "clear"
    /\ ~ReservationLocked(job[h].res)
    /\ res' = [res EXCEPT ![job[h].res].external = FALSE, ![job[h].res].calendar_status = "NONE"]
    /\ Done(h)
    /\ UNCHANGED <<plan, ev, calendar, busy, now, edited, abandoned, moved>>

(***************************************************************************)
(* Environment.                                                            *)
(***************************************************************************)
\* The process dies: open transactions roll back, the request is forgotten.
HandlerCrash(h) ==
    /\ "crash" \in Faults
    /\ job[h].pc # "idle"
    /\ Done(h)
    /\ abandoned' = IF job[h].res = NoRes THEN abandoned ELSE abandoned \cup {job[h].res}
    /\ UNCHANGED <<plan, res, ev, calendar, busy, now, edited, moved>>

StaffEvent(b) ==
    /\ busy' = IF b \in busy THEN busy \ {b} ELSE busy \cup {b}
    /\ UNCHANGED <<plan, res, ev, calendar, now, job, edited, abandoned, moved>>

Tick ==
    /\ now < MaxNow
    /\ now' = now + 1
    /\ UNCHANGED <<plan, res, ev, calendar, busy, job, edited, abandoned, moved>>

HandlerStep(h) ==
    \/ AcceptLock(h) \/ AcceptCommit(h) \/ ScheduleCommit(h)
    \/ SyncRead(h) \/ SyncCall(h) \/ SyncUnavailable(h) \/ SyncBurned(h) \/ SyncFailed(h)
    \/ SyncRecord(h) \/ ReleaseCall(h) \/ ReleaseUnavailable(h) \/ ReleaseClear(h)

RNext ==
    \/ \E r \in Reservations, c \in Customers, p \in Plans, s \in Slots :
          CreatePendingReservation(r, c, p, s) \/ CreateManualReservation(r, c, p, s)
    \/ \E e \in Evidence, c \in Customers : ReceiveEvidence(e, c)
    \/ \E e \in Evidence : DownloadSettles(e) \/ RejectPayment(e)
    \/ \E h \in Handlers, e \in Evidence, a \in Amounts : AcceptCheck(h, e, a)
    \/ \E h \in Handlers, r \in Reservations, s \in Slots : ScheduleCheck(h, r, s)
    \/ \E h \in Handlers, r \in Reservations : CancelReservation(h, r) \/ RetryCalendar(h, r)
    \/ \E h \in Handlers : HandlerStep(h) \/ HandlerCrash(h)
    \/ ExpirePendingReservations
    \/ \E p \in Plans, f \in PlanSettings : UpdatePlan(p, f)
    \/ \E b \in BusySlots : StaffEvent(b)
    \/ Tick

RSpec == RInit /\ [][RNext]_rvars

(***************************************************************************)
(* Properties.                                                             *)
(***************************************************************************)
Clash(q, r) == /\ res[q].status = "RESERVED" /\ res[r].status = "RESERVED"
               /\ Overlap(res[q].start, res[q].end, res[r].start, res[r].end)
               /\ Excludes(plan[res[q].plan], plan[res[r].plan])

\* Two confirmed reservations never share a slot that one of their plans wants
\* for itself, whatever acceptances and reschedulings race for it, unless a plan
\* was edited after the slot was checked.
NoDoubleBooking ==
    \A q, r \in Reservations : q # r /\ Clash(q, r) => q \in edited \/ r \in edited

\* A reservation with a receipt still to be reviewed is never left where the
\* hourly scan can expire it, nor expired.
NoExpiryUnderReview ==
    \A r \in Reservations :
        res[r].status \in {"PAYMENT_PENDING", "EXPIRED"} => PendingEvidence(r) = {}

\* No handler, whatever it read before, takes a reservation off the matrix that
\* transition_reservation enforces: it would be refused halfway, after the money
\* of the same transaction was counted.
StatusFollowsMatrix ==
    [][\A r \in Reservations : res[r].status \notin {"ABSENT", res'[r].status} =>
            res'[r].status \in RESERVATION_TRANSITIONS[res[r].status]]_rvars

\* A confirmed reservation has its deposit; a fully paid one owes nothing and has
\* no date to owe it by.
ConfirmedIsPaid ==
    \A r \in Reservations : res[r].status = "RESERVED" =>
        /\ res[r].paid >= deposit_amount(res[r].price)
        /\ (res[r].kind = "FULL") <=> (res[r].paid >= res[r].price)
        /\ (res[r].due = NoTime) <=> (res[r].kind = "FULL")

\* What a reservation says has been paid is the sum of its accepted receipts, however
\* many reviewers accept them at once.
PaidIsSumOfAccepted ==
    \A r \in Reservations :
        res[r].paid = SumFunctionOnSet([e \in Evidence |-> ev[e].amount], AcceptedEvidence(r))

\* A reservation's row agrees with its receipts: what it says has been paid is the sum of the
\* accepted ones, it is confirmed only if that covers the deposit, and it does not expire while
\* one of them is under review.
RowAgreesWithReceipts ==
    RTypeOK /\ ConfirmedIsPaid /\ PaidIsSumOfAccepted /\ NoExpiryUnderReview

Working(r) == {h \in Handlers : job[h].res = r /\ job[h].pc \in {"sync", "call", "record",
                                                                "failed", "release"}}

NotOrphaned(r) ==
    /\ res[r].status = "CANCELLED" /\ calendar[r].kind = "EVENT"
    /\ r \notin abandoned
    => Working(r) # {}

\* A cancelled reservation keeps its event only while some request is still going
\* to remove it, or after a calendar call failed or a process died.
NoOrphanEvent == \A r \in Reservations : NotOrphaned(r)

\* The event of a cancelled reservation that was not given another time after it was
\* confirmed is not forgotten: a request will remove it, unless a calendar call failed or a
\* process died, whichever confirmations, retries and cancellations of it overlap.
UnmovedNotOrphaned == \A r \in Reservations \ moved : NotOrphaned(r)

\* When nobody is working on it and no call failed, a reservation marked as
\* synchronised has its event at its own time.
ConfirmedEventMatches ==
    \A r \in Reservations :
        /\ res[r].status = "RESERVED" /\ res[r].calendar_status = "CONFIRMED"
        /\ Working(r) = {} /\ r \notin abandoned
        => /\ calendar[r].kind = "EVENT"
           /\ <<calendar[r].start, calendar[r].end>> = <<res[r].start, res[r].end>>

\* The request about to confirm a reservation has looked at the calendar for it.
CalendarAskedBeforeConfirming ==
    \A h \in Holders : LET r == job[h].res IN
        /\ r # NoRes
        /\ res[r].status # "RESERVED" /\ ~job[h].blocked
        /\ res[r].paid + job[h].amount >= deposit_amount(res[r].price)
        => job[h].asked
=============================================================================
