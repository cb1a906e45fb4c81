-------------------------- MODULE BalanceReminders --------------------------
(***************************************************************************)
(* Reminders of an unpaid balance (app/reservation/reminders.py and        *)
(* app/notifications/customer_worker.py), composed with the notice queue.  *)
(*                                                                         *)
(* A scan looks at the confirmed bookings that still owe money: it inserts *)
(* a reminder when its hour has come, and marks the booking and tells the  *)
(* staff once the deadline is past.  Bookings are seen only as far as the  *)
(* scan reads them; Reservation has the rest of their life.                *)
(*                                                                         *)
(* A day has DayLen steps of the clock, and reminders go out at its step   *)
(* ReminderTime.                                                           *)
(***************************************************************************)
EXTENDS Notifications

CONSTANTS
    Bookings,
    Starts,       \* starts_at a booking may be given
    Price, Deposit,
    DayLen,       \* steps of the clock per day
    ReminderTime, \* booking_reminder_time
    DaysBefore,   \* booking_reminder_days_before
    Template      \* is customer_template_balance_reminder_name configured?

ReminderKinds == {"BALANCE_REMINDER_EARLY", "BALANCE_REMINDER_DUE"}

ASSUME RemindersAssumption ==
    /\ Starts \subseteq Nat
    /\ Price \in Nat /\ Deposit \in 1..Price
    /\ DayLen \in Nat \ {0} /\ ReminderTime \in 0..(DayLen - 1) /\ DaysBefore \in Nat \ {0}
    /\ Template \in BOOLEAN
    /\ Reminders = [to : Bookings, kind : ReminderKinds, src : {0}]

VARIABLE booking \* [Bookings -> what the scan reads of a reservation row]

bvars == <<nvars, booking>>

NoBooking == [status |-> "ABSENT", start |-> 0, paid |-> 0, due |-> NoTime, overdue |-> FALSE,
              confirmed |-> 0]

BInit == NInit /\ booking = [b \in Bookings |-> NoBooking]

(***************************************************************************)
(* The booking                                                             *)
(***************************************************************************)
Owes(row) == row.status = "RESERVED" /\ row.paid < Price /\ row.start > now

\* A payment is accepted that confirms the booking: settlement.accept_payment.
Confirm(b, start, amount) ==
    /\ booking[b].status = "ABSENT" /\ start > now
    /\ amount >= Deposit
    /\ booking' = [booking EXCEPT ![b] =
          [status |-> "RESERVED", start |-> start, paid |-> amount,
           due |-> IF amount >= Price THEN NoTime ELSE start - DayLen,
           overdue |-> FALSE, confirmed |-> now]]
    /\ UNCHANGED nvars

Paid(row, amount) ==
    IF row.paid + amount >= Price
    THEN [row EXCEPT !.paid = @ + amount, !.due = NoTime, !.overdue = FALSE]
    ELSE [row EXCEPT !.paid = @ + amount]

AcceptBalance(b, amount) ==
    /\ booking[b].status = "RESERVED" /\ booking[b].paid < Price
    /\ booking' = [booking EXCEPT ![b] = Paid(@, amount)]
    /\ UNCHANGED nvars

\* Mutant: the mark survives a new deadline.
MovedStillOverdue(row, start) ==
    [row EXCEPT !.start = start, !.due = IF row.due # NoTime THEN start - DayLen ELSE @]

\* payment_kind DEPOSIT is due # NoTime here: both are written together.
Moved(row, start) ==
    IF row.due = NoTime THEN [row EXCEPT !.start = start]
    ELSE [row EXCEPT !.start = start, !.due = start - DayLen,
                     !.overdue = @ /\ start - DayLen <= now]

schedule_reservation(b, start) ==
    /\ booking[b].status = "RESERVED" /\ start > now
    /\ booking' = [booking EXCEPT ![b] = Moved(@, start)]
    /\ UNCHANGED nvars

cancel_reservation(b) ==
    /\ booking[b].status = "RESERVED"
    /\ booking' = [booking EXCEPT ![b].status = "CANCELLED"]
    /\ UNCHANGED nvars

(***************************************************************************)
(* The scan (enqueue_balance_reminders)                                    *)
(***************************************************************************)
DayStart(t) == t - (t % DayLen)

\* Both at booking_reminder_time, of the day DaysBefore days earlier or of the deadline.
ScheduledAt(kind, row) ==
    (IF kind = "BALANCE_REMINDER_EARLY" THEN DayStart(row.start) - DaysBefore * DayLen
                                        ELSE DayStart(row.due)) + ReminderTime

\* A reminder whose hour passed before the booking was confirmed is skipped and audited,
\* and so is one without a template; neither leaves a row.
Remind(n) ==
    LET row == booking[n.to] IN
    /\ ScheduledAt(n.kind, row) <= now
    /\ row.confirmed < ScheduledAt(n.kind, row)
    /\ now < row.due
    /\ Template

Lapsed(row) == now >= row.due /\ ~row.overdue

\* The bookings whose customer and row nobody else has locked.
enqueue_balance_reminders ==
    \E seen \in SUBSET {b \in Bookings : Owes(booking[b]) /\ booking[b].due # NoTime} :
        LET lapsed == {b \in seen : Lapsed(booking[b])}
            told   == {n \in StaffKeys : /\ n.kind = "BALANCE_OVERDUE" /\ n.src \in lapsed
                                         /\ Wants(n.to, n.kind)}
            due    == {n \in Reminders : n.to \in seen /\ Remind(n)}
        IN /\ InTime
           /\ notices' = Enqueued(told \cup due)
           /\ booking' = [b \in Bookings |-> IF b \in lapsed THEN [booking[b] EXCEPT !.overdue = TRUE]
                                             ELSE booking[b]]
           /\ UNCHANGED <<recipients, batch, messages, heard, missed, now>>

(***************************************************************************)
(* The customer loop (process_customer_notifications_once)                 *)
(***************************************************************************)
\* Mutant: only the status of the booking is read.
AdmissibleUnpaid(n) == booking[n.to].status = "RESERVED" /\ booking[n.to].start > now

admissible(n) == Owes(booking[n.to])

claim_customer_batch(w) ==
    /\ batch[w] = << >>
    /\ \E rows \in Batches(Reminders) :
          claim_batch(w, rows, {n \in rows : admissible(n)}, [n \in rows |-> "TEMPLATE"])
    /\ UNCHANGED booking

BNext ==
    \/ QueueNext /\ UNCHANGED booking
    \/ \E b \in Bookings, start \in Starts :
          \/ \E amount \in {Deposit, Price} : Confirm(b, start, amount)
          \/ schedule_reservation(b, start)
    \/ \E b \in Bookings :
          \/ \E amount \in 1..(Price - Deposit) : AcceptBalance(b, amount)
          \/ cancel_reservation(b)
    \/ enqueue_balance_reminders
    \/ \E w \in ReminderLoops : claim_customer_batch(w)

BSpec == BInit /\ [][BNext]_bvars

\* The loops poll; nobody has to pay.
BFairness ==
    /\ WF_bvars(Tick /\ UNCHANGED booking)
    /\ \A w \in ReminderLoops :
          /\ WF_bvars(maintain_queue(w, Reminders) /\ UNCHANGED booking)
          /\ WF_bvars(claim_customer_batch(w))
          /\ WF_bvars(Send(w) /\ UNCHANGED booking)
          /\ WF_bvars(settle_claim(w) /\ UNCHANGED booking)

FairBSpec == BSpec /\ BFairness

(***************************************************************************)
(* Properties                                                              *)
(***************************************************************************)
\* The columns of bookings and of both kinds of notice have their types.
BTypeOK ==
    /\ NTypeOK
    /\ booking \in [Bookings -> [status : {"ABSENT", "RESERVED", "CANCELLED"}, start : Nat,
                                 paid : Nat, due : Int \cup {NoTime}, overdue : BOOLEAN,
                                 confirmed : Nat]]

\* Notices and bookings are well formed, and a delivery report finds the notice of the message
\* it is about, also after a stale claim has sent that notice again.
NoticesAccountedFor == BTypeOK /\ ReportFindsItsMessage

\* A confirmed booking shown as overdue owes money whose deadline is past, through partial
\* and full payments, new dates and scans in any order.
OverdueMeansPastDue ==
    \A b \in Bookings : booking[b].status = "RESERVED" /\ booking[b].overdue =>
        /\ booking[b].paid < Price
        /\ booking[b].due # NoTime /\ booking[b].due <= now

\* A reminder still queued when its booking is paid or cancelled for good is not sent any
\* more: it ends EXPIRED at its next claim ("sin HTTP").
SettledReminderExpires ==
    \A n \in Reminders :
        [](notices[n].status = "PENDING" /\ []~Owes(booking[n.to]) => <>(notices[n].status = "EXPIRED"))

\* A reminder is claimed for sending only while the balance is not yet due.
RemindedBeforeDeadline ==
    [][\A n \in Reminders : notices[n].status = "PENDING" /\ notices'[n].status = "SENDING" =>
          booking[n.to].due # NoTime /\ now < booking[n.to].due]_bvars
=============================================================================
