------------------------- MODULE ReservationProofs -------------------------
(***************************************************************************)
(* No double booking, no step off the status matrix and no forgotten       *)
(* calendar event, for any number of reservations, receipts, plans and     *)
(* requests in progress.                                                   *)
(*                                                                         *)
(* NoDoubleBooking is not inductive: a request that settles has looked for *)
(* overlapping reservations one step before it commits.  What it saw stays *)
(* true because every step that confirms or moves a reservation needs the  *)
(* advisory lock that the request holds (Checked, OneHolder).              *)
(***************************************************************************)
EXTENDS Reservation, FiniteSetTheorems, WellFoundedInduction, TLAPS

\* Only one request at a time holds the advisory lock, and only one a receipt.
OneHolder ==
    /\ \A g, h \in Holders : job[g].res # NoRes /\ job[h].res # NoRes => g = h
    /\ \A g, h \in Holders : job[g].ev = job[h].ev => g = h

\* A request past the review works on a reservation.
Targets == \A h \in Handlers : job[h].pc \notin {"idle", "accept", "settling"} =>
                                    job[h].res \in Reservations

\* A reviewing request works on a receipt that exists and the reservation it is linked to.
Linked == \A h \in Handlers : job[h].pc \in {"accept", "settling"} =>
             /\ job[h].ev \in Evidence
             /\ ev[job[h].ev].review # "ABSENT"
             /\ ev[job[h].ev].res = job[h].res

\* From the lock to the commit the receipt is unreviewed and the reservation can take money.
HeldRows == \A h \in Holders :
             /\ ev[job[h].ev].review = "PENDING_REVIEW"
             /\ job[h].res # NoRes => res[job[h].res].status \in Reviewable

\* NoExpiryUnderReview, and no receipt is linked to a row that does not exist.
NothingToReview ==
    \A r \in Reservations :
        res[r].status \in {"ABSENT", "PAYMENT_PENDING", "EXPIRED"} => PendingEvidence(r) = {}

\* Rows are created in the order of their ids.
Dense == \E k \in 0..MaxRes : \A r \in Reservations : res[r].status # "ABSENT" <=> r <= k

\* Confirming r would clash with q.
WouldClash(q, r) ==
    /\ res[q].status = "RESERVED"
    /\ Overlap(res[q].start, res[q].end, res[r].start, res[r].end)
    /\ Excludes(plan[res[q].plan], plan[res[r].plan])

\* A request that found no blocker can confirm its reservation.
Checked ==
    \A h \in Holders : LET r == job[h].res IN
        r # NoRes /\ ~job[h].blocked /\ res[r].status # "RESERVED" =>
            \A q \in Reservations \ {r} : WouldClash(q, r) => q \in edited \/ r \in edited

RInv ==
    /\ RTypeOK /\ Targets /\ Linked /\ Dense
    /\ OneHolder /\ HeldRows /\ NothingToReview
    /\ Checked /\ NoDoubleBooking

(***************************************************************************)
(* Types                                                                   *)
(***************************************************************************)
LEMMA EndsLater ==
    ASSUME NEW p \in Flags, NEW s \in Nat
    PROVE  booking_ends_at(p, s) \in Nat
  <1>1. DayLen \in Nat \ {0} /\ Checkout \in Nat /\ Duration \in Nat
    BY ReservationAssumption
  <1>2. s \div DayLen \in Nat
    BY <1>1
  <1>3. ((s \div DayLen) + 1) * DayLen \in Nat
    BY <1>1, <1>2
  <1> QED
    BY <1>1, <1>3 DEF booking_ends_at, Day

\* Absent rows, idle requests and empty calendar entries are of their types.
LEMMA Defaults ==
    /\ NoRow \in ReservationRow /\ NoEvidenceRow \in EvidenceRow
    /\ Idle \in Request /\ NoEvent \in CalendarEvent /\ Deleted \in CalendarEvent
  <1>1. (CHOOSE c \in Customers : TRUE) \in Customers /\ (CHOOSE p \in Plans : TRUE) \in Plans
    BY ReservationAssumption
  <1>2. (CHOOSE f \in Flags : TRUE) \in Flags
    <2>1. [exclusive |-> TRUE, overnight |-> TRUE, weekend_only |-> TRUE, active |-> TRUE] \in Flags
      BY DEF Flags
    <2> QED
      BY <2>1
  <1> QED
    BY <1>1, <1>2 DEF NoRow, ReservationRow, NoEvidenceRow, EvidenceRow, Idle, Request, Steps,
                      NoEvent, Deleted, CalendarEvent

\* The first state is well formed.
LEMMA InitType == RInit => RTypeOK
  BY Defaults, ReservationAssumption DEF RInit, RTypeOK

\* The requests that reset, restart or advance keep their type.
LEMMA RequestSteps ==
    ASSUME job \in [Handlers -> Request], NEW h \in Handlers, NEW r \in Reservations \cup {NoRes},
           NEW pc \in Steps, Done(h) \/ Go(h, pc) \/ StartOver(h, pc, r)
    PROVE  job' \in [Handlers -> Request]
  <1>1. CASE Done(h)
    BY <1>1, Defaults DEF Done
  <1>2. CASE Go(h, pc)
    BY <1>2 DEF Go, Request
  <1>3. CASE StartOver(h, pc, r)
    BY <1>3, Defaults DEF StartOver, Request
  <1> QED
    BY <1>1, <1>2, <1>3

\* The newest reservation of the best rank exists whenever there is a candidate.
LEMMA CandidateExists ==
    ASSUME NEW c \in Customers, RTypeOK
    PROVE  payment_reservation_candidate(c) \in Candidates(c) \cup {NoRes}
  <1> DEFINE Better(r, q) == Rank(r) < Rank(q) \/ (Rank(r) = Rank(q) /\ r >= q)
             Weight(r) == IF Rank(r) = 0 THEN MaxRes - r
                          ELSE IF Rank(r) = 1 THEN 2 * MaxRes - r ELSE 3 * MaxRes - r
             Weights == {Weight(r) : r \in Candidates(c)}
  <1>1. Candidates(c) \subseteq 1..MaxRes /\ MaxRes \in Nat
    BY ReservationAssumption DEF Candidates, Reservations
  <1>2. \A r \in Candidates(c) : Rank(r) \in {0, 1, 2}
    BY DEF Rank
  <1>3. \A r \in Candidates(c) : Weight(r) \in Nat
    BY <1>1, <1>2
  <1>4. ASSUME Candidates(c) # {} PROVE \E r \in Candidates(c) : \A q \in Candidates(c) : Better(r, q)
    <2>1. Weights \subseteq Nat /\ Weights # {}
      BY <1>3, <1>4
    <2>2. PICK w \in Weights : \A v \in Weights : ~(<<v, w>> \in OpToRel(<, Nat))
      BY <2>1, NatLessThanWellFounded, WFMin
    <2>3. \A v \in Weights : ~(v < w)
      BY <2>1, <2>2 DEF OpToRel
    <2>4. PICK r \in Candidates(c) : w = Weight(r)
      OBVIOUS
    <2>5. ASSUME NEW q \in Candidates(c) PROVE Better(r, q)
      <3>1. ~(Weight(q) < Weight(r))
        BY <2>3, <2>4, <2>5
      <3>2. r \in 1..MaxRes /\ q \in 1..MaxRes /\ Rank(r) \in {0, 1, 2} /\ Rank(q) \in {0, 1, 2}
        BY <1>1, <1>2, <2>4, <2>5
      <3> QED
        BY <1>1, <3>1, <3>2
    <2> QED
      BY <2>4, <2>5
  <1> QED
    BY <1>4 DEF payment_reservation_candidate

\* A row with another status is a row.
LEMMA StatusType ==
    ASSUME NEW row \in ReservationRow, NEW st \in RESERVATION_STATUSES
    PROVE  [row EXCEPT !.status = st] \in ReservationRow
  BY DEF ReservationRow

\* What an accepted amount makes of a row is a row.
LEMMA SettledType ==
    ASSUME NEW row \in ReservationRow, NEW blocked, NEW others, now \in Nat
    PROVE  Settled(row, blocked, others) \in ReservationRow
  <1>1. BalancePaid(row) \in ReservationRow
    BY DEF BalancePaid, ReservationRow
  <1>2. DayLen \in Int /\ row.start \in Int
    BY ReservationAssumption DEF ReservationRow
  <1>3. Confirmed(row) \in ReservationRow
    <2>1. ASSUME NEW k \in {"DEPOSIT", "FULL"}, NEW d \in Int \cup {NoTime}
          PROVE  [row EXCEPT !.status = "RESERVED", !.kind = k, !.due = d, !.confirmed = now]
                   \in ReservationRow
      BY <2>1 DEF ReservationRow, RESERVATION_STATUSES
    <2>2. CASE row.paid >= row.price
      BY <2>1, <2>2 DEF Confirmed
    <2>3. CASE ~(row.paid >= row.price)
      <3>1. row.start - DayLen \in Int
        BY <1>2
      <3> QED
        BY <2>1, <2>3, <3>1 DEF Confirmed
    <2> QED
      BY <2>2, <2>3
  <1> QED
    BY <1>1, <1>3, StatusType DEF Settled, RESERVATION_STATUSES

\* Requests, receipts, decisions and the environment keep the types.
LEMMA RequestTypes ==
    ASSUME RTypeOK,
           \/ \E r \in Reservations, c \in Customers, p \in Plans, s \in Slots :
                CreatePendingReservation(r, c, p, s) \/ CreateManualReservation(r, c, p, s)
           \/ \E e \in Evidence, c \in Customers : ReceiveEvidence(e, c)
           \/ \E e \in Evidence : DownloadSettles(e) \/ RejectPayment(e)
           \/ ExpirePendingReservations
           \/ \E p \in Plans, f \in PlanSettings : UpdatePlan(p, f)
           \/ \E b \in BusySlots : StaffEvent(b)
           \/ Tick
    PROVE  RTypeOK'
  <1> USE DEF RTypeOK
  <1>1. ASSUME NEW r \in Reservations, NEW c \in Customers, NEW p \in Plans, NEW s \in Slots,
               NewReservation(r, c, p, s)
        PROVE  RTypeOK'
    <2>1. s \in Nat /\ plan[p] \in Flags /\ Price[p] \in Nat
      BY <1>1, ReservationAssumption
    <2>2. booking_ends_at(plan[p], s) \in Nat
      BY <2>1, EndsLater
    <2>3. ASSUME NEW t \in Nat, NEW e \in Nat, NEW x \in Nat
          PROVE  [NoRow EXCEPT !.status = "PAYMENT_PENDING", !.customer = c, !.plan = p,
                               !.start = t, !.end = e, !.price = x] \in ReservationRow
      BY <1>1, <2>3, Defaults DEF ReservationRow, RESERVATION_STATUSES
    <2> QED
      BY <1>1, <2>1, <2>2, <2>3 DEF NewReservation
  <1>2. ASSUME NEW e \in Evidence, NEW c \in Customers, ReceiveEvidence(e, c) PROVE RTypeOK'
    <2>1. payment_reservation_candidate(c) \in Reservations \cup {NoRes}
      BY CandidateExists DEF Candidates
    <2>2. \A r \in Reservations \cup {NoRes} :
             [NoEvidenceRow EXCEPT !.review = "PENDING_REVIEW", !.customer = c, !.res = r]
                \in EvidenceRow
      BY <1>2, Defaults DEF EvidenceRow
    <2>3. ev' \in [Evidence -> EvidenceRow]
      BY <1>2, <2>1, <2>2 DEF ReceiveEvidence
    <2>4. res' \in [Reservations -> ReservationRow]
      BY <1>2, <2>1, StatusType DEF ReceiveEvidence, RESERVATION_STATUSES
    <2> QED
      BY <1>2, <2>3, <2>4 DEF ReceiveEvidence
  <1>3. ASSUME NEW e \in Evidence, DownloadSettles(e) PROVE RTypeOK'
    BY <1>3 DEF DownloadSettles, EvidenceRow
  <1>4. ASSUME NEW e \in Evidence, RejectPayment(e) PROVE RTypeOK'
    <2>1. ev' \in [Evidence -> EvidenceRow]
      BY <1>4 DEF RejectPayment, EvidenceRow
    <2>2. ev[e].res \in Reservations \cup {NoRes}
      BY <1>4 DEF EvidenceRow
    <2>3. res' \in [Reservations -> ReservationRow]
      BY <1>4, <2>2, StatusType DEF RejectPayment, RESERVATION_STATUSES
    <2> QED
      BY <1>4, <2>1, <2>3 DEF RejectPayment
  <1>5. ASSUME ExpirePendingReservations PROVE RTypeOK'
    BY <1>5, StatusType DEF ExpirePendingReservations, RESERVATION_STATUSES
  <1>6. ASSUME NEW p \in Plans, NEW f \in PlanSettings, UpdatePlan(p, f) PROVE RTypeOK'
    BY <1>6 DEF UpdatePlan
  <1>7. ASSUME NEW b \in BusySlots, StaffEvent(b) PROVE RTypeOK'
    BY <1>7 DEF StaffEvent
  <1>8. ASSUME Tick PROVE RTypeOK'
    BY <1>8 DEF Tick
  <1> QED
    BY <1>1, <1>2, <1>3, <1>4, <1>5, <1>6, <1>7, <1>8
       DEF CreatePendingReservation, CreateManualReservation

\* The steps of a request keep the types.
LEMMA HandlerTypes ==
    ASSUME RTypeOK, Targets, NEW h \in Handlers,
           \/ \E e \in Evidence, a \in Amounts : AcceptCheck(h, e, a)
           \/ \E r \in Reservations, s \in Slots : ScheduleCheck(h, r, s)
           \/ \E r \in Reservations : CancelReservation(h, r) \/ RetryCalendar(h, r)
           \/ HandlerStep(h)
           \/ HandlerCrash(h)
    PROVE  RTypeOK'
  <1> USE DEF RTypeOK
  <1>0. job[h] \in Request /\ job[h].res \in Reservations \cup {NoRes} /\ Idle \in Request
    BY Defaults DEF Request
  <1>a. {"idle", "accept", "settling", "move", "sync", "call", "record", "failed", "release",
         "clear"} = Steps
    BY DEF Steps
  <1>1. ASSUME NEW e \in Evidence, NEW a \in Amounts, AcceptCheck(h, e, a) PROVE RTypeOK'
    <2>1. ev[e].res \in Reservations \cup {NoRes} /\ a \in Nat
      BY <1>1, ReservationAssumption DEF EvidenceRow
    <2>2. ASSUME NEW x \in BOOLEAN, NEW y \in BOOLEAN
          PROVE  [Idle EXCEPT !.pc = "accept", !.ev = e, !.res = ev[e].res, !.amount = a,
                              !.asked = x, !.blocked = y] \in Request
      BY <1>0, <1>1, <1>a, <2>1, <2>2 DEF Request
    <2> QED
      BY <1>1, <2>1, <2>2 DEF AcceptCheck
  <1>2. ASSUME NEW r \in Reservations, NEW s \in Slots, ScheduleCheck(h, r, s) PROVE RTypeOK'
    <2>1. s \in Nat /\ plan[res[r].plan] \in Flags
      BY <1>2, ReservationAssumption DEF ReservationRow
    <2>2. booking_ends_at(plan[res[r].plan], s) \in Nat
      BY <2>1, EndsLater
    <2>3. ASSUME NEW t \in Nat, NEW e \in Nat, NEW f \in Flags
          PROVE  [Idle EXCEPT !.pc = "move", !.res = r, !.start = t, !.end = e, !.flags = f]
                    \in Request
      BY <1>0, <1>2, <1>a, <2>3 DEF Request
    <2> QED
      BY <1>2, <2>1, <2>2, <2>3 DEF ScheduleCheck
  <1>3. ASSUME NEW r \in Reservations, CancelReservation(h, r) PROVE RTypeOK'
    <2>1. res' \in [Reservations -> ReservationRow]
      BY <1>3, StatusType DEF CancelReservation, RESERVATION_STATUSES
    <2>2. job' \in [Handlers -> Request]
      BY <1>3, <1>a, RequestSteps DEF CancelReservation
    <2> QED
      BY <1>3, <2>1, <2>2 DEF CancelReservation
  <1>4. ASSUME NEW r \in Reservations, RetryCalendar(h, r) PROVE RTypeOK'
    <2>1. job' \in [Handlers -> Request]
      BY <1>4, <1>a, RequestSteps DEF RetryCalendar
    <2> QED
      BY <1>4, <2>1 DEF RetryCalendar
  <1>5. CASE AcceptLock(h)
    <2>1. job' \in [Handlers -> Request]
      <3>1. CASE Done(h) \/ Go(h, "settling")
        BY <3>1, <1>a, <1>0, RequestSteps
      <3>2. CASE SlotQueried(h, job[h].res)
        BY <3>2, <1>0, <1>a DEF SlotQueried, Request
      <3> QED
        BY <1>5, <3>1, <3>2 DEF AcceptLock
    <2>2. edited' \subseteq Reservations
      BY <1>5 DEF AcceptLock, SlotQueried
    <2> QED
      BY <1>5, <2>1, <2>2 DEF AcceptLock
  <1>6. CASE AcceptCommit(h)
    <2>1. job[h].amount \in Nat
      BY <1>0 DEF Request
    <2>2. ev' \in [Evidence -> EvidenceRow]
      <3>1. [ev EXCEPT ![job[h].ev].review = "ACCEPTED"] \in [Evidence -> EvidenceRow]
        BY DEF EvidenceRow
      <3>2. ASSUME NEW f \in [Evidence -> EvidenceRow]
            PROVE  [f EXCEPT ![job[h].ev].amount = job[h].amount] \in [Evidence -> EvidenceRow]
        BY <2>1, <3>2 DEF EvidenceRow
      <3> QED
        BY <1>6, <3>1, <3>2 DEF AcceptCommit
    <2>3. job' \in [Handlers -> Request]
      BY <1>6, <1>a, <1>0, RequestSteps DEF AcceptCommit
    <2>4. ASSUME NEW r \in Reservations
          PROVE  [res[r] EXCEPT !.paid = @ + job[h].amount] \in ReservationRow
      BY <2>1, <2>4 DEF ReservationRow
    <2>5. res' \in [Reservations -> ReservationRow]
      BY <1>0, <1>6, <2>4, SettledType DEF AcceptCommit
    <2> QED
      BY <1>6, <2>2, <2>3, <2>5 DEF AcceptCommit
  <1>7. CASE ScheduleCommit(h)
    <2>1. job[h].start \in Nat /\ job[h].end \in Nat /\ DayLen \in Nat
      BY <1>0, ReservationAssumption DEF Request
    <2>2. ASSUME NEW row \in ReservationRow, NEW s \in Nat, NEW e \in Nat
          PROVE  Moved(row, s, e) \in ReservationRow
      <3>1. s - DayLen \in Int
        BY <2>1, <2>2
      <3>2. ASSUME NEW d \in Int \cup {NoTime}, NEW o \in BOOLEAN, NEW k \in {"NONE", "CONFIRMED"}
            PROVE  [row EXCEPT !.start = s, !.end = e, !.due = d, !.overdue = o,
                               !.calendar_status = k] \in ReservationRow
        BY <2>2, <3>2 DEF ReservationRow
      <3>3. row.due \in Int \cup {NoTime} /\ row.overdue \in BOOLEAN
            /\ row.calendar_status \in {"NONE", "CONFIRMED"}
        BY <2>2 DEF ReservationRow
      <3> QED
        BY <3>1, <3>2, <3>3 DEF Moved
    <2>3. res' \in [Reservations -> ReservationRow]
      BY <1>0, <1>7, <2>1, <2>2 DEF ScheduleCommit
    <2>4. job' \in [Handlers -> Request]
      BY <1>7, <1>a, <1>0, RequestSteps DEF ScheduleCommit
    <2>5. edited' \subseteq Reservations /\ moved' \subseteq Reservations
      BY <1>7, <1>0, <1>a DEF ScheduleCommit, Targets
    <2> QED
      BY <1>7, <2>3, <2>4, <2>5 DEF ScheduleCommit
  <1>8. CASE SyncRead(h)
    <2>1. CASE Done(h)
      BY <2>1, <1>a, RequestSteps, <1>8 DEF SyncRead
    <2>2. CASE job' = [job EXCEPT ![h].pc = "call", ![h].start = res[job[h].res].start,
                                  ![h].end = res[job[h].res].end,
                                  ![h].flags = plan[res[job[h].res].plan]]
      <3>1. res[job[h].res] \in ReservationRow
        BY <1>8, <1>a DEF SyncRead, Targets
      <3>2. /\ res[job[h].res].start \in Nat /\ res[job[h].res].end \in Nat
            /\ plan[res[job[h].res].plan] \in Flags
        BY <3>1, ReservationAssumption DEF ReservationRow
      <3>3. ASSUME NEW s \in Nat, NEW e \in Nat, NEW f \in Flags
            PROVE  [job[h] EXCEPT !.pc = "call", !.start = s, !.end = e, !.flags = f] \in Request
        BY <1>0, <1>a, <3>3 DEF Request
      <3>4. job' = [job EXCEPT ![h] = [job[h] EXCEPT !.pc = "call",
                      !.start = res[job[h].res].start, !.end = res[job[h].res].end,
                      !.flags = plan[res[job[h].res].plan]]]
        BY <2>2
      <3>5. job' \in [Handlers -> Request]
        BY <3>2, <3>3, <3>4
      <3> QED
        BY <1>8, <3>5 DEF SyncRead
    <2> QED
      BY <1>8, <2>1, <2>2 DEF SyncRead
  <1>9. Written(h) \in [Reservations -> CalendarEvent]
    <2>1. job[h].start \in Nat /\ job[h].end \in Nat /\ job[h].flags.exclusive \in BOOLEAN
      BY <1>0 DEF Request, Flags
    <2> QED
      BY <2>1 DEF Written, Event, CalendarEvent
  <1>10. CASE SyncCall(h) \/ SyncBurned(h)
    <2>1. job' \in [Handlers -> Request]
      BY <1>10, <1>0, <1>a, RequestSteps DEF SyncCall, SyncBurned
    <2> QED
      BY <1>10, <1>9, <2>1 DEF SyncCall, SyncBurned
  <1>11. CASE SyncUnavailable(h)
    <2>1. job' \in [Handlers -> Request]
      BY <1>11, <1>0, <1>a, RequestSteps DEF SyncUnavailable
    <2>2. abandoned' \subseteq Reservations
      BY <1>11, <1>a DEF SyncUnavailable, Targets
    <2> QED
      BY <1>11, <1>9, <2>1, <2>2 DEF SyncUnavailable
  <1>12. CASE SyncFailed(h) \/ ReleaseClear(h) \/ SyncRecord(h)
    <2>1. job' \in [Handlers -> Request]
      BY <1>12, <1>0, <1>a, RequestSteps DEF SyncFailed, ReleaseClear, SyncRecord
    <2>2. ASSUME NEW r \in Reservations, NEW x \in BOOLEAN, NEW k \in {"NONE", "CONFIRMED"}
          PROVE  /\ [res[r] EXCEPT !.calendar_status = k] \in ReservationRow
                 /\ [res[r] EXCEPT !.external = x, !.calendar_status = k] \in ReservationRow
      BY <2>2 DEF ReservationRow
    <2>3. res' \in [Reservations -> ReservationRow]
      <3>1. job[h].res \in Reservations
        BY <1>12, <1>a DEF SyncFailed, ReleaseClear, SyncRecord, Targets
      <3>2. \/ res' = res
            \/ res' = [res EXCEPT ![job[h].res] = [res[job[h].res] EXCEPT !.calendar_status = "NONE"]]
            \/ res' = [res EXCEPT ![job[h].res] = [res[job[h].res] EXCEPT !.external = FALSE,
                                                       !.calendar_status = "NONE"]]
            \/ res' = [res EXCEPT ![job[h].res] = [res[job[h].res] EXCEPT !.external = TRUE,
                                                       !.calendar_status = "CONFIRMED"]]
        BY <1>12, <3>1 DEF SyncFailed, ReleaseClear, SyncRecord
      <3> QED
        BY <2>2, <3>1, <3>2
    <2> QED
      BY <1>12, <2>1, <2>3 DEF SyncFailed, ReleaseClear, SyncRecord
  <1>13. CASE ReleaseCall(h) \/ ReleaseUnavailable(h)
    <2>1. Removed(job[h].res) \in [Reservations -> CalendarEvent]
      BY Defaults DEF Removed
    <2>2. job' \in [Handlers -> Request]
      BY <1>13, <1>0, <1>a, RequestSteps DEF ReleaseCall, ReleaseUnavailable
    <2>3. abandoned' \subseteq Reservations
      BY <1>13, <1>a DEF ReleaseCall, ReleaseUnavailable, Targets
    <2> QED
      BY <1>13, <2>1, <2>2, <2>3 DEF ReleaseCall, ReleaseUnavailable
  <1>14. CASE HandlerCrash(h)
    <2>1. job' \in [Handlers -> Request]
      BY <1>14, <1>0, <1>a, RequestSteps DEF HandlerCrash
    <2> QED
      BY <1>0, <1>14, <2>1 DEF HandlerCrash
  <1> QED
    BY <1>1, <1>2, <1>3, <1>4, <1>5, <1>6, <1>7, <1>8, <1>10, <1>11, <1>12, <1>13, <1>14
       DEF HandlerStep

(***************************************************************************)
(* Steps that leave the slots alone                                        *)
(***************************************************************************)
SamePlace(r) ==
    res'[r].start = res[r].start /\ res'[r].end = res[r].end /\ res'[r].plan = res[r].plan

\* No request gets a lock in this step; one that holds it still does, or ends.
KeepsHolders == \A h \in Holders' : h \in Holders /\ job'[h] = job[h]

\* No reservation is confirmed or moved; one whose plan changes is marked as edited.
KeepsSlots ==
    /\ KeepsHolders
    /\ \A r \in Reservations : res'[r].status = "RESERVED" => res[r].status = "RESERVED" /\ SamePlace(r)
    /\ \A h \in Holders' : job[h].res # NoRes =>
          /\ SamePlace(job[h].res)
          /\ res[job[h].res].status = "RESERVED" => res'[job[h].res].status = "RESERVED"
    /\ \A r \in Reservations : r \notin edited' =>
          r \notin edited /\ \A p \in Plans : res'[r].plan = p => plan'[p] = plan[p]

\* Rows, receipts and plans read the same, but for the calendar's columns.
Quiet ==
    /\ KeepsHolders
    /\ \A r \in Reservations : res'[r].status = res[r].status /\ SamePlace(r)
    /\ \A e \in Evidence : ev'[e].review = ev[e].review /\ ev'[e].res = ev[e].res
    /\ plan' = plan /\ edited' = edited

\* Two plans keep each other out, or neither does.
LEMMA ExcludesSymmetric ==
    ASSUME NEW p \in Flags, NEW q \in Flags
    PROVE  Excludes(p, q) <=> Excludes(q, p)
  BY DEF Excludes

\* A step that confirms and moves nothing keeps the slots exclusive.
LEMMA KeepsSlotsSafe ==
    ASSUME RTypeOK, RTypeOK', Linked, HeldRows, KeepsSlots, Checked, NoDoubleBooking
    PROVE  Checked' /\ NoDoubleBooking'
  <1>1. \A r \in Reservations : res'[r].plan \in Plans /\ res[r].plan \in Plans
    BY DEF RTypeOK, ReservationRow
  <1>2. ASSUME NEW q \in Reservations, NEW r \in Reservations, q # r, Clash(q, r)',
               q \notin edited', r \notin edited'
        PROVE  FALSE
    <2>1. res[q].status = "RESERVED" /\ SamePlace(q) /\ res[r].status = "RESERVED" /\ SamePlace(r)
      BY <1>2 DEF KeepsSlots, Clash
    <2>2. plan'[res'[q].plan] = plan[res[q].plan] /\ plan'[res'[r].plan] = plan[res[r].plan]
      BY <1>1, <1>2, <2>1 DEF KeepsSlots, SamePlace
    <2>3. Clash(q, r)
      BY <1>2, <2>1, <2>2 DEF Clash, SamePlace
    <2>4. q \notin edited /\ r \notin edited
      BY <1>2 DEF KeepsSlots
    <2> QED
      BY <1>2, <2>3, <2>4 DEF NoDoubleBooking
  <1>3. ASSUME NEW h \in Holders', NEW r, r = job'[h].res, r # NoRes, ~job'[h].blocked,
               res'[r].status # "RESERVED", NEW q \in Reservations \ {r}, WouldClash(q, r)',
               q \notin edited', r \notin edited'
        PROVE  FALSE
    <2>1. h \in Holders /\ job'[h] = job[h]
      BY <1>3 DEF KeepsSlots, KeepsHolders
    <2>2. r \in Reservations
      BY <1>3, <2>1 DEF RTypeOK, Request, Holders
    <2>3. SamePlace(r) /\ res[r].status # "RESERVED"
      BY <1>3, <2>1 DEF KeepsSlots
    <2>4. res[q].status = "RESERVED" /\ SamePlace(q)
      BY <1>3 DEF KeepsSlots, WouldClash
    <2>5. plan'[res'[q].plan] = plan[res[q].plan] /\ plan'[res'[r].plan] = plan[res[r].plan]
      BY <1>1, <1>3, <2>2, <2>3, <2>4 DEF KeepsSlots, SamePlace
    <2>6. WouldClash(q, r)
      BY <1>3, <2>3, <2>4, <2>5 DEF WouldClash, SamePlace
    <2>7. q \notin edited /\ r \notin edited
      BY <1>3, <2>2 DEF KeepsSlots
    <2> QED
      BY <1>3, <2>1, <2>3, <2>6, <2>7 DEF Checked
  <1>4. Checked'
    BY <1>3 DEF Checked
  <1> QED
    BY <1>2, <1>4 DEF NoDoubleBooking

\* A step that gives no lock away keeps the lock with one holder.
LEMMA KeepsHoldersOne ==
    ASSUME KeepsHolders, OneHolder
    PROVE  OneHolder'
  BY DEF KeepsHolders, OneHolder

\* A quiet step preserves the invariant, but for what it says of requests without the lock.
LEMMA QuietSafe ==
    ASSUME RInv, RTypeOK', Targets', Linked', Quiet
    PROVE  RInv'
  <1> USE DEF RInv
  <1>1. OneHolder'
    BY KeepsHoldersOne DEF Quiet
  <1>2. HeldRows'
    <2>1. ASSUME NEW h \in Holders'
          PROVE  /\ h \in Holders /\ job'[h] = job[h] /\ job[h].ev \in Evidence
                 /\ job[h].res \in Reservations \cup {NoRes}
      BY <2>1 DEF Quiet, KeepsHolders, Linked, Holders, RTypeOK, Request
    <2> QED
      BY <2>1 DEF HeldRows, Quiet
  <1>3. NothingToReview'
    BY DEF NothingToReview, PendingEvidence, Quiet
  <1>4. Dense'
    BY DEF Dense, Quiet
  <1>5. KeepsSlots
    <2>1. \A h \in Holders' : job[h].res # NoRes => job[h].res \in Reservations
      BY DEF Quiet, KeepsHolders, Holders, RTypeOK, Request
    <2> QED
      BY <2>1 DEF KeepsSlots, Quiet
  <1> QED
    BY <1>1, <1>2, <1>3, <1>4, <1>5, KeepsSlotsSafe

(***************************************************************************)
(* What requests work on                                                   *)
(***************************************************************************)
Reviewing == {"accept", "settling"}

\* A request goes on, ends, turns to a reservation or picks up a receipt.
Advances(h) ==
    \/ /\ job'[h].res = job[h].res /\ job'[h].ev = job[h].ev
       /\ job'[h].pc \in Reviewing => job[h].pc \in Reviewing
       /\ job'[h].pc \notin Reviewing \cup {"idle"} => job[h].pc \notin Reviewing \cup {"idle"}
    \/ job'[h].pc = "idle"
    \/ job'[h].pc \notin Reviewing /\ job'[h].res \in Reservations
    \/ /\ job'[h].pc \in Reviewing /\ job'[h].ev \in Evidence
       /\ ev[job'[h].ev].review # "ABSENT" /\ ev[job'[h].ev].res = job'[h].res

\* A receipt that exists stays, linked as it is.
ReceiptsStay ==
    \A e \in Evidence : ev[e].review # "ABSENT" =>
        ev'[e].review # "ABSENT" /\ ev'[e].res = ev[e].res

\* Requests that advance keep their reservation and their receipt.
LEMMA AdvancesSafe ==
    ASSUME Targets, Linked, ReceiptsStay, \A h \in Handlers : Advances(h)
    PROVE  Targets' /\ Linked'
  BY DEF Targets, Linked, ReceiptsStay, Advances, Reviewing

Others(h) == \A g \in Handlers \ {h} : job'[g] = job[g]

\* A request that ends is idle and touches no other.
LEMMA DoneJob ==
    ASSUME RTypeOK, NEW h \in Handlers, Done(h)
    PROVE  job'[h].pc = "idle" /\ Others(h)
  BY DEF RTypeOK, Done, Idle, Others

\* A request that goes on keeps its reservation and its receipt.
LEMMA GoJob ==
    ASSUME RTypeOK, NEW h \in Handlers, NEW pc, Go(h, pc)
    PROVE  job'[h].pc = pc /\ job'[h].res = job[h].res /\ job'[h].ev = job[h].ev /\ Others(h)
  BY DEF RTypeOK, Request, Go, Others

\* A request that starts over works on the reservation it is given.
LEMMA StartJob ==
    ASSUME RTypeOK, NEW h \in Handlers, NEW pc, NEW r, StartOver(h, pc, r)
    PROVE  job'[h].pc = pc /\ job'[h].res = r /\ Others(h)
  <1>1. [Idle EXCEPT !.pc = pc, !.res = r].pc = pc /\ [Idle EXCEPT !.pc = pc, !.res = r].res = r
    BY DEF Idle
  <1> QED
    BY <1>1 DEF RTypeOK, StartOver, Others

\* The transaction of an acceptance begins: the request ends, or takes the lock.
LEMMA LockJob ==
    ASSUME RTypeOK, NEW h \in Handlers, AcceptLock(h)
    PROVE  /\ Others(h)
           /\ \/ Done(h) /\ UNCHANGED edited
              \/ /\ job[h].pc = "accept" /\ job'[h].pc = "settling"
                 /\ job'[h].res = job[h].res /\ job'[h].ev = job[h].ev
                 /\ ev[job[h].ev].review = "PENDING_REVIEW" /\ ~EvidenceLocked(job[h].ev)
                 /\ \/ job[h].res = NoRes /\ UNCHANGED edited
                    \/ /\ job[h].res # NoRes /\ ~BookingLocked
                       /\ res[job[h].res].status \in Reviewable
                       /\ SlotQueried(h, job[h].res)
  <1>1. /\ job[h].pc = "accept" /\ ~EvidenceLocked(job[h].ev)
        /\ \/ Done(h) /\ UNCHANGED edited
           \/ /\ ev[job[h].ev].review = "PENDING_REVIEW"
              /\ job[h].res = NoRes /\ Go(h, "settling") /\ UNCHANGED edited
           \/ /\ ev[job[h].ev].review = "PENDING_REVIEW"
              /\ job[h].res # NoRes /\ ~BookingLocked
              /\ res[job[h].res].status \in Reviewable
              /\ SlotQueried(h, job[h].res)
    BY DEF AcceptLock
  <1>2. CASE Done(h) /\ UNCHANGED edited
    BY <1>2, DoneJob
  <1>3. CASE Go(h, "settling") /\ job[h].res = NoRes
    BY <1>1, <1>3, GoJob DEF Go, SlotQueried
  <1>4. CASE SlotQueried(h, job[h].res) /\ job[h].res # NoRes
    <2>1. job'[h].pc = "settling" /\ job'[h].res = job[h].res /\ job'[h].ev = job[h].ev /\ Others(h)
      BY <1>4 DEF SlotQueried, RTypeOK, Request, Others
    <2> QED
      BY <1>1, <1>4, <2>1
  <1> QED
    BY <1>1, <1>2, <1>3, <1>4

\* Every step lets requests advance.
LEMMA RequestsAdvance ==
    ASSUME RTypeOK, Targets, Linked, RNext
    PROVE  Targets' /\ Linked'
  <1> USE DEF RTypeOK
  <1>1. ASSUME UNCHANGED job, ReceiptsStay PROVE Targets' /\ Linked'
    BY <1>1, AdvancesSafe DEF Advances
  <1>2. ASSUME NEW h \in Handlers, Advances(h), Others(h),
               ReceiptsStay
        PROVE  Targets' /\ Linked'
    BY <1>2, AdvancesSafe DEF Advances, Others
  <1>3. UNCHANGED ev => ReceiptsStay
    BY DEF ReceiptsStay
  <1>4. ASSUME NEW r \in Reservations, NEW c \in Customers, NEW p \in Plans, NEW s \in Slots,
               NewReservation(r, c, p, s)
        PROVE  Targets' /\ Linked'
    BY <1>1, <1>3, <1>4 DEF NewReservation
  <1>5. ASSUME NEW e \in Evidence, NEW c \in Customers, ReceiveEvidence(e, c)
        PROVE  Targets' /\ Linked'
    <2>1. ReceiptsStay
      BY <1>5 DEF ReceiveEvidence, ReceiptsStay
    <2> QED
      BY <1>1, <1>5, <2>1 DEF ReceiveEvidence
  <1>6. ASSUME NEW e \in Evidence, DownloadSettles(e) \/ RejectPayment(e) PROVE Targets' /\ Linked'
    <2>1. ReceiptsStay
      BY <1>6 DEF DownloadSettles, RejectPayment, ReceiptsStay, EvidenceRow
    <2> QED
      BY <1>1, <1>6, <2>1 DEF DownloadSettles, RejectPayment
  <1>7. CASE \/ ExpirePendingReservations \/ Tick
             \/ \E p \in Plans, f \in PlanSettings : UpdatePlan(p, f)
             \/ \E b \in BusySlots : StaffEvent(b)
    BY <1>1, <1>3, <1>7 DEF ExpirePendingReservations, Tick, UpdatePlan, StaffEvent
  <1>8. ASSUME NEW h \in Handlers, NEW e \in Evidence, NEW a \in Amounts, AcceptCheck(h, e, a)
        PROVE  Targets' /\ Linked'
    <2>1. job'[h].pc = "accept" /\ job'[h].ev = e /\ job'[h].res = ev[e].res
          /\ Others(h)
      BY <1>8, Defaults DEF AcceptCheck, Request, Idle, Others
    <2>2. Advances(h)
      BY <1>8, <2>1 DEF AcceptCheck, Advances, Reviewing
    <2> QED
      BY <1>2, <1>3, <1>8, <2>1, <2>2 DEF AcceptCheck
  <1>9. ASSUME NEW h \in Handlers, NEW r \in Reservations, NEW s \in Slots, ScheduleCheck(h, r, s)
        PROVE  Targets' /\ Linked'
    <2>1. job'[h].pc = "move" /\ job'[h].res = r /\ Others(h)
      BY <1>9, Defaults DEF ScheduleCheck, Request, Idle, Others
    <2>2. Advances(h)
      BY <1>9, <2>1 DEF Advances, Reviewing
    <2> QED
      BY <1>2, <1>3, <1>9, <2>1, <2>2 DEF ScheduleCheck
  <1>10. ASSUME NEW h \in Handlers, NEW r \in Reservations,
                CancelReservation(h, r) \/ RetryCalendar(h, r)
         PROVE  Targets' /\ Linked'
    <2>1. CASE UNCHANGED job
      BY <1>1, <1>3, <1>10, <2>1 DEF CancelReservation, RetryCalendar
    <2>2. CASE StartOver(h, "release", r) \/ StartOver(h, "sync", r)
      BY <1>2, <1>3, <1>10, <2>2, StartJob DEF CancelReservation, RetryCalendar, Advances, Reviewing
    <2> QED
      BY <1>10, <2>1, <2>2 DEF CancelReservation, RetryCalendar
  <1>11. ASSUME NEW h \in Handlers, AcceptLock(h) PROVE Targets' /\ Linked'
    <2>1. Advances(h) /\ Others(h)
      BY <1>11, LockJob, DoneJob DEF Advances, Reviewing
    <2> QED
      BY <1>2, <1>3, <1>11, <2>1 DEF AcceptLock
  <1>12. ASSUME NEW h \in Handlers, AcceptCommit(h) PROVE Targets' /\ Linked'
    <2>1. ReceiptsStay
      BY <1>12 DEF AcceptCommit, ReceiptsStay, EvidenceRow
    <2>2. job[h].res \in Reservations \cup {NoRes}
      BY DEF Request
    <2>3. Advances(h) /\ Others(h)
      <3>1. Done(h) \/ (job[h].res # NoRes /\ StartOver(h, "sync", job[h].res))
        BY <1>12 DEF AcceptCommit
      <3> QED
        BY <2>2, <3>1, DoneJob, StartJob DEF Advances, Reviewing
    <2> QED
      BY <1>2, <2>1, <2>3
  <1>13. ASSUME NEW h \in Handlers,
                \/ ScheduleCommit(h) \/ SyncCall(h) \/ SyncUnavailable(h) \/ SyncBurned(h)
                \/ SyncFailed(h) \/ SyncRecord(h) \/ ReleaseCall(h) \/ ReleaseUnavailable(h)
                \/ ReleaseClear(h) \/ HandlerCrash(h)
         PROVE  Targets' /\ Linked'
    <2>1. HandlerCrash(h) \/ job[h].res \in Reservations
      BY <1>13 DEF Targets, ScheduleCommit, SyncCall, SyncUnavailable, SyncBurned, SyncFailed,
                   SyncRecord, ReleaseCall, ReleaseUnavailable, ReleaseClear
    <2>2. \/ Done(h) \/ StartOver(h, "sync", job[h].res) \/ StartOver(h, "release", job[h].res)
          \/ Go(h, "record") \/ Go(h, "failed") \/ Go(h, "clear")
      BY <1>13 DEF ScheduleCommit, SyncCall, SyncUnavailable, SyncBurned, SyncFailed,
                   SyncRecord, ReleaseCall, ReleaseUnavailable, ReleaseClear, HandlerCrash
    <2>3. ~HandlerCrash(h) \/ Done(h)
      BY DEF HandlerCrash
    <2>4. Advances(h) /\ Others(h)
      <3>1. CASE Done(h)
        BY <3>1, DoneJob DEF Advances
      <3>2. CASE job[h].res \in Reservations
        BY <2>2, <3>1, <3>2, StartJob, GoJob DEF Advances, Reviewing
      <3> QED
        BY <2>1, <2>3, <3>1, <3>2
    <2>5. UNCHANGED ev
      BY <1>13 DEF ScheduleCommit, SyncCall, SyncUnavailable, SyncBurned, SyncFailed,
                   SyncRecord, ReleaseCall, ReleaseUnavailable, ReleaseClear, HandlerCrash
    <2> QED
      BY <1>2, <1>3, <2>4, <2>5
  <1>14. ASSUME NEW h \in Handlers, SyncRead(h) PROVE Targets' /\ Linked'
    <2>1. CASE Done(h)
      BY <1>2, <1>3, <1>14, <2>1, DoneJob DEF SyncRead, Advances
    <2>2. CASE ~Done(h)
      <3>1. /\ job[h].pc = "sync" /\ job'[h].pc = "call" /\ Others(h)
            /\ job'[h].res = job[h].res /\ job'[h].ev = job[h].ev
        BY <1>14, <2>2 DEF SyncRead, Request, Others
      <3>2. Advances(h)
        BY <3>1 DEF Advances, Reviewing
      <3> QED
        BY <1>2, <1>3, <1>14, <3>1, <3>2 DEF SyncRead
    <2> QED
      BY <2>1, <2>2
  <1> QED
    BY <1>4, <1>5, <1>6, <1>7, <1>8, <1>9, <1>10, <1>11, <1>12, <1>13, <1>14
       DEF RNext, HandlerStep, CreatePendingReservation, CreateManualReservation

(***************************************************************************)
(* Quiet steps                                                             *)
(***************************************************************************)
\* A step of a request that neither holds nor takes the lock.
LEMMA OtherHolders ==
    ASSUME NEW h \in Handlers, job'[h].pc # "settling", Others(h)
    PROVE  KeepsHolders
  BY DEF Others, KeepsHolders, Holders

QuietStep ==
    \/ \E e \in Evidence : DownloadSettles(e)
    \/ \E h \in Handlers, e \in Evidence, a \in Amounts : AcceptCheck(h, e, a)
    \/ \E h \in Handlers, r \in Reservations, s \in Slots : ScheduleCheck(h, r, s)
    \/ \E h \in Handlers, r \in Reservations : RetryCalendar(h, r)
    \/ \E h \in Handlers :
          \/ SyncRead(h) \/ SyncCall(h) \/ SyncUnavailable(h) \/ SyncBurned(h) \/ SyncFailed(h)
          \/ SyncRecord(h) \/ ReleaseCall(h) \/ ReleaseUnavailable(h) \/ ReleaseClear(h)
          \/ HandlerCrash(h)
    \/ \E b \in BusySlots : StaffEvent(b)
    \/ Tick

\* Reads, calendar calls and the environment change no status, time, receipt or plan.
LEMMA QuietSteps ==
    ASSUME RTypeOK, Targets, QuietStep
    PROVE  Quiet
  <1> USE DEF RTypeOK
  <1>1. UNCHANGED job => KeepsHolders
    BY DEF KeepsHolders, Holders
  <1>2. ASSUME KeepsHolders, UNCHANGED <<plan, res, ev, edited>> PROVE Quiet
    BY <1>2 DEF Quiet, SamePlace
  <1>3. ASSUME NEW e \in Evidence, DownloadSettles(e) PROVE Quiet
    BY <1>1, <1>3 DEF DownloadSettles, Quiet, SamePlace, EvidenceRow
  <1>4. CASE Tick \/ \E b \in BusySlots : StaffEvent(b)
    BY <1>1, <1>2, <1>4 DEF Tick, StaffEvent
  <1>5. ASSUME NEW h \in Handlers, NEW e \in Evidence, NEW a \in Amounts, AcceptCheck(h, e, a)
        PROVE  Quiet
    <2>1. job'[h].pc = "accept" /\ Others(h)
      BY <1>5, Defaults DEF AcceptCheck, Request, Idle, Others
    <2> QED
      BY <1>2, <1>5, <2>1, OtherHolders DEF AcceptCheck
  <1>6. ASSUME NEW h \in Handlers, NEW r \in Reservations, NEW s \in Slots, ScheduleCheck(h, r, s)
        PROVE  Quiet
    <2>1. job'[h].pc = "move" /\ Others(h)
      BY <1>6, Defaults DEF ScheduleCheck, Request, Idle, Others
    <2> QED
      BY <1>2, <1>6, <2>1, OtherHolders DEF ScheduleCheck
  <1>7. ASSUME NEW h \in Handlers, NEW r \in Reservations, RetryCalendar(h, r) PROVE Quiet
    BY <1>2, <1>7, StartJob, OtherHolders DEF RetryCalendar
  <1>8. ASSUME NEW h \in Handlers,
               SyncCall(h) \/ SyncUnavailable(h) \/ SyncBurned(h) \/ ReleaseCall(h)
               \/ ReleaseUnavailable(h) \/ HandlerCrash(h)
        PROVE  Quiet
    <2>1. Done(h) \/ Go(h, "record") \/ Go(h, "failed") \/ Go(h, "clear")
      BY <1>8 DEF SyncCall, SyncUnavailable, SyncBurned, ReleaseCall, ReleaseUnavailable,
                  HandlerCrash
    <2>2. KeepsHolders
      BY <2>1, DoneJob, GoJob, OtherHolders
    <2> QED
      BY <1>2, <1>8, <2>2 DEF SyncCall, SyncUnavailable, SyncBurned, ReleaseCall,
                              ReleaseUnavailable, HandlerCrash
  <1>9. ASSUME NEW h \in Handlers, SyncRead(h) PROVE Quiet
    <2>1. job'[h].pc # "settling" /\ Others(h)
      <3>1. CASE Done(h)
        BY <3>1, DoneJob
      <3>2. CASE ~Done(h)
        BY <1>9, <3>2 DEF SyncRead, Request, Others
      <3> QED
        BY <3>1, <3>2
    <2> QED
      BY <1>2, <1>9, <2>1, OtherHolders DEF SyncRead
  <1>10. ASSUME NEW h \in Handlers, SyncFailed(h) \/ SyncRecord(h) \/ ReleaseClear(h) PROVE Quiet
    <2>1. Done(h) \/ StartOver(h, "release", job[h].res)
      BY <1>10 DEF SyncFailed, SyncRecord, ReleaseClear
    <2>2. KeepsHolders
      BY <2>1, DoneJob, StartJob, OtherHolders
    <2>3. \A r \in Reservations : res'[r].status = res[r].status /\ SamePlace(r)
      BY <1>10 DEF SyncFailed, SyncRecord, ReleaseClear, SamePlace, ReservationRow
    <2> QED
      BY <1>10, <2>2, <2>3 DEF SyncFailed, SyncRecord, ReleaseClear, Quiet
  <1> QED
    BY <1>3, <1>4, <1>5, <1>6, <1>7, <1>8, <1>9, <1>10 DEF QuietStep

(***************************************************************************)
(* Requests, receipts, expiry, cancellation and plans                      *)
(***************************************************************************)
LEMMA SameRows ==
    ASSUME Dense, \A r \in Reservations : res'[r].status = "ABSENT" <=> res[r].status = "ABSENT"
    PROVE  Dense'
  BY DEF Dense

\* A new reservation takes a row that does not exist yet.
LEMMA NewRow ==
    ASSUME RTypeOK, Dense, NEW r \in Reservations,
           r = 1 + Cardinality({q \in Reservations : res[q].status # "ABSENT"})
    PROVE  /\ res[r].status = "ABSENT"
           /\ \A q \in Reservations : res[q].status # "ABSENT" <=> q <= r - 1
  <1>1. PICK k \in 0..MaxRes : \A q \in Reservations : res[q].status # "ABSENT" <=> q <= k
    BY DEF Dense
  <1>2. MaxRes \in Nat
    BY ReservationAssumption
  <1>3. {q \in Reservations : res[q].status # "ABSENT"} = 1..k
    BY <1>1, <1>2 DEF Reservations
  <1>4. Cardinality(1..k) = k
    BY <1>2, FS_Interval
  <1>5. r = 1 + k
    BY <1>3, <1>4, Cardinality({q \in Reservations : res[q].status # "ABSENT"}) = k
  <1>6. k \in Nat /\ r - 1 = k /\ ~(r <= k)
    BY <1>2, <1>5
  <1> QED
    BY <1>1, <1>6

\* A new reservation holds no slot.
LEMMA NewReservationSafe ==
    ASSUME RInv, RTypeOK', Targets', Linked', NEW r \in Reservations, NEW c, NEW p, NEW s,
           NewReservation(r, c, p, s)
    PROVE  RInv'
  <1> USE DEF RInv
  <1>1. res[r].status = "ABSENT" /\ \A q \in Reservations : res[q].status # "ABSENT" <=> q <= r - 1
    BY NewRow DEF NewReservation
  <1>2. res'[r].status = "PAYMENT_PENDING" /\ \A q \in Reservations \ {r} : res'[q] = res[q]
    BY DEF NewReservation, RTypeOK, NoRow
  <1>3. KeepsHolders
    BY DEF NewReservation, KeepsHolders, Holders
  <1>4. OneHolder'
    BY <1>3, KeepsHoldersOne
  <1>5. \A h \in Holders' : job[h].res # r /\ job[h].res \in Reservations \cup {NoRes}
    <2>1. ASSUME NEW h \in Holders' PROVE h \in Holders /\ h \in Handlers
      BY <1>3, <2>1 DEF KeepsHolders, Holders
    <2>2. ASSUME NEW h \in Holders PROVE job[h].res \in Reservations \cup {NoRes}
      BY <2>2 DEF Holders, RTypeOK, Request
    <2>3. ASSUME NEW h \in Holders, job[h].res = r PROVE FALSE
      <3>1. r # NoRes
        BY ReservationAssumption
      <3> QED
        BY <1>1, <2>3, <3>1 DEF HeldRows, Reviewable
    <2> QED
      BY <2>1, <2>2, <2>3
  <1>6. HeldRows'
    BY <1>2, <1>3, <1>5 DEF HeldRows, KeepsHolders, NewReservation
  <1>7. NothingToReview'
    BY <1>1, <1>2 DEF NothingToReview, PendingEvidence, NewReservation
  <1>8. Dense'
    <2>1. MaxRes \in Nat /\ r \in 0..MaxRes
      BY ReservationAssumption DEF Reservations
    <2>2. \A q \in Reservations : res'[q].status # "ABSENT" <=> q <= r
      BY <1>1, <1>2, <2>1 DEF Reservations
    <2> QED
      BY <2>1, <2>2 DEF Dense
  <1>9. KeepsSlots
    BY <1>2, <1>3, <1>5 DEF KeepsSlots, SamePlace, NewReservation
  <1> QED
    BY <1>4, <1>6, <1>7, <1>8, <1>9, KeepsSlotsSafe

\* A receipt sends the reservation it is linked to into review.
LEMMA ReceiveSafe ==
    ASSUME RInv, RTypeOK', Targets', Linked', NEW e \in Evidence, NEW c \in Customers,
           ReceiveEvidence(e, c)
    PROVE  RInv'
  <1> USE DEF RInv
  <1> DEFINE r == payment_reservation_candidate(c)
  <1>1. r \in Candidates(c) \cup {NoRes}
    BY CandidateExists
  <1>2. r # NoRes => r \in Reservations /\ res[r].status \in Reviewable
    BY <1>1 DEF Candidates, Reviewable
  <1>3. /\ ev[e].review = "ABSENT" /\ ev'[e].review = "PENDING_REVIEW" /\ ev'[e].res = r
        /\ \A f \in Evidence \ {e} : ev'[f] = ev[f]
    BY DEF ReceiveEvidence, RTypeOK, NoEvidenceRow
  <1>4. /\ \A q \in Reservations : SamePlace(q) /\ (q # r => res'[q] = res[q])
        /\ r # NoRes => res'[r].status = IF res[r].status = "PAYMENT_PENDING"
                                         THEN "PAYMENT_REVIEW" ELSE res[r].status
    BY <1>2 DEF ReceiveEvidence, RTypeOK, ReservationRow, SamePlace
  <1>5. KeepsHolders /\ \A h \in Holders' : job'[h] = job[h] /\ job[h].ev \in Evidence \ {e}
    BY <1>3 DEF ReceiveEvidence, KeepsHolders, Holders, Linked
  <1>6. OneHolder'
    BY <1>5, KeepsHoldersOne
  <1>7. \A h \in Holders' : job[h].res \in Reservations \cup {NoRes}
    BY <1>5 DEF KeepsHolders, Holders, RTypeOK, Request
  <1>8. HeldRows'
    BY <1>2, <1>3, <1>4, <1>5, <1>7 DEF HeldRows, KeepsHolders, Reviewable
  <1>9. NothingToReview'
    <2>1. ASSUME NEW q \in Reservations, res'[q].status \in {"ABSENT", "PAYMENT_PENDING", "EXPIRED"}
          PROVE  PendingEvidence(q)' = {}
      <3>1. q # r
        <4>1. q # NoRes
          BY ReservationAssumption
        <4> QED
          BY <1>2, <1>4, <2>1, <4>1 DEF Reviewable
      <3>2. PendingEvidence(q)' = PendingEvidence(q)
        BY <1>3, <3>1 DEF PendingEvidence
      <3> QED
        BY <1>4, <2>1, <3>1, <3>2 DEF NothingToReview
    <2> QED
      BY <2>1 DEF NothingToReview
  <1>10. Dense'
    <2>1. ASSUME NEW q \in Reservations
          PROVE  res'[q].status = "ABSENT" <=> res[q].status = "ABSENT"
      <3>1. q # NoRes
        BY ReservationAssumption
      <3> QED
        BY <1>2, <1>4, <3>1 DEF Reviewable
    <2> QED
      BY <2>1, SameRows
  <1>11. KeepsSlots
    BY <1>2, <1>4, <1>5, <1>7 DEF KeepsSlots, ReceiveEvidence, Reviewable
  <1> QED
    BY <1>6, <1>8, <1>9, <1>10, <1>11, KeepsSlotsSafe


\* A rejection sends a reservation back only if nothing else is under review.
LEMMA RejectSafe ==
    ASSUME RInv, RTypeOK', Targets', Linked', NEW e \in Evidence, RejectPayment(e)
    PROVE  RInv'
  <1> USE DEF RInv
  <1>1. PICK r : r = ev[e].res
    OBVIOUS
  <1>2. r \in Reservations \cup {NoRes} /\ NoRes \notin Reservations
    BY <1>1, ReservationAssumption DEF RTypeOK, EvidenceRow
  <1>3. /\ ev[e].review = "PENDING_REVIEW" /\ ev'[e].review = "REJECTED" /\ ev'[e].res = r
        /\ \A f \in Evidence \ {e} : ev'[f] = ev[f]
    BY <1>1 DEF RejectPayment, RTypeOK, EvidenceRow
  <1>4. /\ \A q \in Reservations : SamePlace(q) /\ (q # r => res'[q] = res[q])
        /\ r # NoRes => \/ res'[r].status = res[r].status
                        \/ /\ res[r].status = "PAYMENT_REVIEW" /\ PendingEvidence(r) = {e}
                           /\ res'[r].status = "PAYMENT_PENDING"
    BY <1>1, <1>2 DEF RejectPayment, RTypeOK, ReservationRow, SamePlace
  <1>5. KeepsHolders /\ \A h \in Holders' : job'[h] = job[h] /\ job[h].ev \in Evidence \ {e}
    BY DEF RejectPayment, KeepsHolders, Holders, Linked, EvidenceLocked
  <1>6. OneHolder'
    BY <1>5, KeepsHoldersOne
  <1>7. \A h \in Holders' : job[h].res \in Reservations \cup {NoRes}
    BY <1>5 DEF KeepsHolders, Holders, RTypeOK, Request
  <1>8. HeldRows'
    BY <1>2, <1>3, <1>4, <1>5, <1>7 DEF HeldRows, KeepsHolders, Reviewable
  <1>9. NothingToReview'
    <2>1. \A q \in Reservations : PendingEvidence(q)' = PendingEvidence(q) \ {e}
      BY <1>3 DEF PendingEvidence
    <2>2. ASSUME NEW q \in Reservations, res'[q].status \in {"ABSENT", "PAYMENT_PENDING", "EXPIRED"}
          PROVE  PendingEvidence(q)' = {}
      <3>1. CASE q = r /\ PendingEvidence(r) = {e}
        BY <2>1, <3>1
      <3>2. CASE res'[q].status = res[q].status
        BY <2>1, <2>2, <3>2 DEF NothingToReview
      <3> QED
        BY <1>2, <1>4, <3>1, <3>2
    <2> QED
      BY <2>2 DEF NothingToReview
  <1>10. Dense'
    <2>1. \A q \in Reservations : res'[q].status = "ABSENT" <=> res[q].status = "ABSENT"
      BY <1>2, <1>4
    <2> QED
      BY <2>1, SameRows
  <1>11. KeepsSlots
    BY <1>2, <1>4, <1>5, <1>7 DEF KeepsSlots, RejectPayment
  <1> QED
    BY <1>6, <1>8, <1>9, <1>10, <1>11, KeepsSlotsSafe

\* The scan skips a locked row, so it takes nothing from a request that settles.
LEMMA ExpireSafe ==
    ASSUME RInv, RTypeOK', Targets', Linked', ExpirePendingReservations
    PROVE  RInv'
  <1> USE DEF RInv
  <1>1. \A q \in Reservations :
           /\ SamePlace(q)
           /\ q \in Expirable => res[q].status = "PAYMENT_PENDING" /\ res'[q].status = "EXPIRED"
           /\ q \notin Expirable => res'[q] = res[q]
    BY DEF ExpirePendingReservations, RTypeOK, ReservationRow, SamePlace, Expirable
  <1>2. KeepsHolders /\ UNCHANGED <<job, ev, plan, edited>>
    BY DEF ExpirePendingReservations, KeepsHolders, Holders
  <1>3. OneHolder'
    BY <1>2, KeepsHoldersOne
  <1>4. \A h \in Holders' : /\ h \in Holders /\ job[h].res \notin Expirable
                            /\ job[h].res \in Reservations \cup {NoRes}
    BY <1>2 DEF KeepsHolders, Holders, RTypeOK, Request, Expirable, ReservationLocked
  <1>5. HeldRows'
    BY <1>1, <1>2, <1>4 DEF HeldRows
  <1>6. NothingToReview'
    BY <1>1, <1>2 DEF NothingToReview, PendingEvidence
  <1>7. Dense'
    <2>1. \A q \in Reservations : res'[q].status = "ABSENT" <=> res[q].status = "ABSENT"
      BY <1>1
    <2> QED
      BY <2>1, SameRows
  <1>8. KeepsSlots
    BY <1>1, <1>2, <1>4 DEF KeepsSlots
  <1> QED
    BY <1>3, <1>5, <1>6, <1>7, <1>8, KeepsSlotsSafe

\* A cancellation frees a slot.
LEMMA CancelSafe ==
    ASSUME RInv, RTypeOK', Targets', Linked', NEW h \in Handlers, NEW r \in Reservations,
           CancelReservation(h, r)
    PROVE  RInv'
  <1> USE DEF RInv
  <1>1. /\ res[r].status \in Reviewable /\ res'[r].status = "CANCELLED"
        /\ \A q \in Reservations : SamePlace(q) /\ (q # r => res'[q] = res[q])
    BY DEF CancelReservation, RTypeOK, ReservationRow, SamePlace
  <1>2. KeepsHolders
    <2>1. CASE UNCHANGED job
      BY <2>1 DEF KeepsHolders, Holders
    <2>2. CASE StartOver(h, "release", r)
      BY <2>2, StartJob, OtherHolders
    <2> QED
      BY <2>1, <2>2 DEF CancelReservation
  <1>3. UNCHANGED <<ev, plan, edited>>
    BY DEF CancelReservation
  <1>4. OneHolder'
    BY <1>2, KeepsHoldersOne
  <1>5. \A g \in Holders' : /\ g \in Holders /\ job'[g] = job[g] /\ job[g].res # r
                            /\ job[g].res \in Reservations \cup {NoRes}
    BY <1>2 DEF KeepsHolders, Holders, RTypeOK, Request, CancelReservation, ReservationLocked
  <1>6. HeldRows'
    BY <1>1, <1>3, <1>5 DEF HeldRows
  <1>7. NothingToReview'
    BY <1>1, <1>3 DEF NothingToReview, PendingEvidence
  <1>8. Dense'
    <2>1. \A q \in Reservations : res'[q].status = "ABSENT" <=> res[q].status = "ABSENT"
      BY <1>1 DEF Reviewable
    <2> QED
      BY <2>1, SameRows
  <1>9. KeepsSlots
    BY <1>1, <1>2, <1>3, <1>5 DEF KeepsSlots
  <1> QED
    BY <1>4, <1>6, <1>7, <1>8, <1>9, KeepsSlotsSafe

\* A plan that is edited marks its reservations.
LEMMA UpdatePlanSafe ==
    ASSUME RInv, RTypeOK', Targets', Linked', NEW p \in Plans, NEW f \in PlanSettings,
           UpdatePlan(p, f)
    PROVE  RInv'
  <1> USE DEF RInv
  <1>1. KeepsHolders /\ UNCHANGED <<job, ev, res>>
    BY DEF UpdatePlan, KeepsHolders, Holders
  <1>2. OneHolder'
    BY <1>1, KeepsHoldersOne
  <1>3. HeldRows' /\ NothingToReview' /\ Dense'
    BY <1>1 DEF HeldRows, KeepsHolders, NothingToReview, PendingEvidence, Dense
  <1>4. \A q \in Reservations : q \notin edited' =>
           q \notin edited /\ \A x \in Plans : res'[q].plan = x => plan'[x] = plan[x]
    BY <1>1 DEF UpdatePlan, RTypeOK
  <1>5. KeepsSlots
    BY <1>1, <1>4 DEF KeepsSlots, SamePlace
  <1> QED
    BY <1>2, <1>3, <1>5, KeepsSlotsSafe

(***************************************************************************)
(* Taking the lock                                                         *)
(***************************************************************************)
\* The slot was found free while nobody else held the advisory lock.
LEMMA LockSafe ==
    ASSUME RInv, RTypeOK', Targets', Linked', NEW h \in Handlers, AcceptLock(h)
    PROVE  RInv'
  <1> USE DEF RInv
  <1>1. UNCHANGED <<plan, res, ev>>
    BY DEF AcceptLock
  <1>2. CASE Done(h) /\ UNCHANGED edited
    <2>1. KeepsHolders
      BY <1>2, DoneJob, OtherHolders
    <2>2. Quiet
      BY <1>1, <1>2, <2>1 DEF Quiet, SamePlace
    <2> QED
      BY <2>2, QuietSafe
  <1>3. ASSUME job[h].pc = "accept", job'[h].pc = "settling", NEW r, r = job[h].res,
               job'[h].res = r, job'[h].ev = job[h].ev, Others(h),
               ev[job[h].ev].review = "PENDING_REVIEW", ~EvidenceLocked(job[h].ev),
               \/ r = NoRes /\ UNCHANGED edited
               \/ /\ r # NoRes /\ ~BookingLocked /\ res[r].status \in Reviewable
                  /\ SlotQueried(h, r)
        PROVE  RInv'
    <2>1. /\ Holders' = Holders \cup {h} /\ h \notin Holders
          /\ \A g \in Holders : g # h /\ job'[g] = job[g]
      BY <1>3 DEF Holders, Others
    <2>2. r # NoRes => r \in Reservations /\ \A g \in Holders : job[g].res = NoRes
      BY <1>3 DEF BookingLocked, RTypeOK, Request
    <2>3. OneHolder'
      <3>1. \A g, k \in Holders' : job'[g].res # NoRes /\ job'[k].res # NoRes => g = k
        BY <1>3, <2>1, <2>2 DEF OneHolder
      <3>2. \A g, k \in Holders' : job'[g].ev = job'[k].ev => g = k
        BY <1>3, <2>1 DEF OneHolder, EvidenceLocked
      <3> QED
        BY <3>1, <3>2 DEF OneHolder
    <2>4. HeldRows'
      BY <1>1, <1>3, <2>1 DEF HeldRows
    <2>5. NothingToReview' /\ Dense'
      BY <1>1 DEF NothingToReview, PendingEvidence, Dense
    <2>6. \A q \in Reservations : res[q].status = "RESERVED" /\ q \in edited => q \in edited'
      BY <1>3 DEF SlotQueried
    <2>7. NoDoubleBooking'
      BY <1>1, <2>6 DEF NoDoubleBooking, Clash
    <2>8. Checked'
      <3>1. CASE r = NoRes
        BY <1>1, <1>3, <2>1, <3>1 DEF Checked, WouldClash
      <3>2. CASE r # NoRes
        <4>1. ASSUME ~job'[h].blocked, NEW q \in Reservations, WouldClash(q, r) PROVE FALSE
          <5>1. ReservedBlockers(plan[res[r].plan], res[r].start, res[r].end, {}) = {}
            BY <1>3, <3>2, <4>1 DEF SlotQueried, RTypeOK, Request
          <5> QED
            BY <4>1, <5>1 DEF ReservedBlockers, WouldClash
        <4>2. \A q : WouldClash(q, r)' = WouldClash(q, r)
          BY <1>1 DEF WouldClash
        <4>3. ASSUME NEW g \in Holders', job'[g].res # NoRes PROVE g = h
          BY <2>1, <2>2, <3>2, <4>3
        <4> QED
          BY <1>3, <4>1, <4>2, <4>3 DEF Checked
      <3> QED
        BY <3>1, <3>2
    <2> QED
      BY <2>3, <2>4, <2>5, <2>7, <2>8
  <1> QED
    BY <1>2, <1>3, LockJob

(***************************************************************************)
(* Confirming and moving a reservation                                     *)
(***************************************************************************)
LEMMA SettledFacts ==
    ASSUME NEW row \in ReservationRow, NEW blocked \in BOOLEAN, NEW others, NEW new,
           new = Settled(row, blocked, others), row.status \in Reviewable
    PROVE  /\ new.start = row.start /\ new.end = row.end /\ new.plan = row.plan
           /\ new.external = row.external /\ new.status \in Reviewable
           /\ new.status = "PAYMENT_PENDING" => others = {}
           /\ new.status = "RESERVED" => row.status = "RESERVED" \/ ~blocked
           /\ row.status = "RESERVED" => new.status = "RESERVED"
  <1>1. CASE row.status = "RESERVED"
    BY <1>1 DEF Settled, BalancePaid, ReservationRow, Reviewable
  <1>2. CASE row.status # "RESERVED" /\ row.paid < deposit_amount(row.price)
    BY <1>2 DEF Settled, ReservationRow, Reviewable
  <1>3. CASE row.status # "RESERVED" /\ ~(row.paid < deposit_amount(row.price)) /\ blocked
    BY <1>3 DEF Settled, ReservationRow, Reviewable
  <1>4. CASE row.status # "RESERVED" /\ ~(row.paid < deposit_amount(row.price)) /\ ~blocked
    BY <1>4 DEF Settled, Confirmed, ReservationRow, Reviewable
  <1> QED
    BY <1>1, <1>2, <1>3, <1>4

\* What the commit of an acceptance does to rows, receipts and requests.
LEMMA CommitFacts ==
    ASSUME RInv, NEW h \in Handlers, AcceptCommit(h), NEW r, r = job[h].res, NEW e, e = job[h].ev
    PROVE  /\ h \in Holders /\ Others(h) /\ job'[h].pc # "settling"
           /\ UNCHANGED <<plan, edited>>
           /\ e \in Evidence /\ ev'[e].review = "ACCEPTED" /\ ev[e].res = r /\ ev'[e].res = r
           /\ ev[e].review = "PENDING_REVIEW"
           /\ \A f \in Evidence \ {e} : ev'[f] = ev[f]
           /\ r = NoRes => UNCHANGED res
           /\ r # NoRes =>
                /\ r \in Reservations /\ res[r].status \in Reviewable
                /\ \A q \in Reservations : SamePlace(q) /\ (q # r => res'[q] = res[q])
                /\ res'[r].external = res[r].external /\ res'[r].status \in Reviewable
                /\ res'[r].status = "PAYMENT_PENDING" => PendingEvidence(r) \ {e} = {}
                /\ res'[r].status = "RESERVED" => res[r].status = "RESERVED" \/ ~job[h].blocked
                /\ res[r].status = "RESERVED" => res'[r].status = "RESERVED"
  <1> USE DEF RInv
  <1>1. h \in Holders /\ job[h] \in Request /\ UNCHANGED <<plan, edited>>
    BY DEF AcceptCommit, Holders, RTypeOK
  <1>2. e \in Evidence /\ ev[e].res = r /\ ev[e].review = "PENDING_REVIEW"
    BY <1>1 DEF Linked, HeldRows, Holders
  <1>3. /\ ev'[e].review = "ACCEPTED" /\ ev'[e].res = r
        /\ \A f \in Evidence \ {e} : ev'[f] = ev[f]
    BY <1>2 DEF AcceptCommit, RTypeOK, EvidenceRow
  <1>4. Others(h) /\ job'[h].pc # "settling"
    <2>1. Done(h) \/ StartOver(h, "sync", job[h].res)
      BY DEF AcceptCommit
    <2> QED
      BY <2>1, DoneJob, StartJob
  <1>5. r = NoRes => UNCHANGED res
    BY DEF AcceptCommit
  <1>6. ASSUME r # NoRes
        PROVE  /\ r \in Reservations /\ res[r].status \in Reviewable
               /\ \A q \in Reservations : SamePlace(q) /\ (q # r => res'[q] = res[q])
               /\ res'[r].external = res[r].external /\ res'[r].status \in Reviewable
               /\ res'[r].status = "PAYMENT_PENDING" => PendingEvidence(r) \ {e} = {}
               /\ res'[r].status = "RESERVED" => res[r].status = "RESERVED" \/ ~job[h].blocked
               /\ res[r].status = "RESERVED" => res'[r].status = "RESERVED"
    <2>1. r \in Reservations /\ res[r].status \in Reviewable /\ res[r] \in ReservationRow
      BY <1>1, <1>6 DEF Request, HeldRows, RTypeOK
    <2>2. PICK paid : paid = [res[r] EXCEPT !.paid = @ + job[h].amount]
      OBVIOUS
    <2>3. /\ paid \in ReservationRow /\ paid.status = res[r].status /\ paid.start = res[r].start
          /\ paid.end = res[r].end /\ paid.plan = res[r].plan /\ paid.external = res[r].external
      <3>1. job[h].amount \in Nat /\ res[r].paid \in Nat
        BY <1>1, <2>1 DEF Request, ReservationRow
      <3>2. res[r].paid + job[h].amount \in Nat
        BY <3>1
      <3> QED
        BY <2>1, <2>2, <3>2 DEF ReservationRow
    <2>4. PICK new : new = Settled(paid, job[h].blocked, PendingEvidence(r) \ {e})
      OBVIOUS
    <2>5. job[h].blocked \in BOOLEAN
      BY <1>1 DEF Request
    <2>6. /\ new.start = paid.start /\ new.end = paid.end /\ new.plan = paid.plan
          /\ new.external = paid.external /\ new.status \in Reviewable
          /\ new.status = "PAYMENT_PENDING" => PendingEvidence(r) \ {e} = {}
          /\ new.status = "RESERVED" => paid.status = "RESERVED" \/ ~job[h].blocked
          /\ paid.status = "RESERVED" => new.status = "RESERVED"
      BY <2>1, <2>3, <2>4, <2>5, SettledFacts
    <2>7. res' = [res EXCEPT ![r] = new]
      BY <1>6, <2>2, <2>4 DEF AcceptCommit
    <2>8. res'[r] = new /\ \A q \in Reservations \ {r} : res'[q] = res[q]
      BY <2>1, <2>7 DEF RTypeOK
    <2> QED
      BY <2>1, <2>3, <2>6, <2>8 DEF SamePlace
  <1> QED
    BY <1>1, <1>2, <1>3, <1>4, <1>5, <1>6

\* The slot is still free when the acceptance commits.
LEMMA CommitSafe ==
    ASSUME RInv, RTypeOK', Targets', Linked', NEW h \in Handlers, AcceptCommit(h)
    PROVE  RInv'
  <1> USE DEF RInv
  <1>1. PICK r : r = job[h].res
    OBVIOUS
  <1>2. PICK e : e = job[h].ev
    OBVIOUS
  <1>3. /\ h \in Holders /\ Others(h) /\ job'[h].pc # "settling"
        /\ UNCHANGED <<plan, edited>>
        /\ e \in Evidence /\ ev'[e].review = "ACCEPTED" /\ ev[e].res = r /\ ev'[e].res = r
        /\ \A f \in Evidence \ {e} : ev'[f] = ev[f]
        /\ r = NoRes => UNCHANGED res
        /\ r # NoRes =>
             /\ r \in Reservations /\ res[r].status \in Reviewable
             /\ \A q \in Reservations : SamePlace(q) /\ (q # r => res'[q] = res[q])
             /\ res'[r].status \in Reviewable
             /\ res'[r].status = "PAYMENT_PENDING" => PendingEvidence(r) \ {e} = {}
             /\ res'[r].status = "RESERVED" => res[r].status = "RESERVED" \/ ~job[h].blocked
    BY <1>1, <1>2, CommitFacts
  <1>4. KeepsHolders
    BY <1>3, OtherHolders
  <1>5. OneHolder'
    BY <1>4, KeepsHoldersOne
  <1>6. \A g \in Holders' :
           /\ g \in Holders /\ g # h /\ job'[g] = job[g]
           /\ job[g].ev \in Evidence \ {e} /\ job[g].res \in Reservations \cup {NoRes}
           /\ r # NoRes => job[g].res = NoRes
    <2>1. \A g \in Holders' : g \in Holders /\ g # h /\ job'[g] = job[g]
      BY <1>3, <1>4 DEF KeepsHolders, Holders
    <2>2. \A g \in Holders : job[g].ev \in Evidence /\ job[g].res \in Reservations \cup {NoRes}
      BY DEF Linked, Holders, RTypeOK, Request
    <2> QED
      BY <1>1, <1>2, <1>3, <2>1, <2>2 DEF OneHolder
  <1>7. HeldRows'
    BY <1>3, <1>6 DEF HeldRows
  <1>8. NothingToReview'
    <2>1. \A q \in Reservations : PendingEvidence(q)' = PendingEvidence(q) \ {e}
      BY <1>3 DEF PendingEvidence
    <2>2. ASSUME NEW q \in Reservations, res'[q].status \in {"ABSENT", "PAYMENT_PENDING", "EXPIRED"}
          PROVE  PendingEvidence(q)' = {}
      <3>1. CASE q = r /\ r # NoRes
        BY <1>3, <2>1, <2>2, <3>1 DEF Reviewable
      <3>2. CASE res'[q] = res[q]
        BY <2>1, <2>2, <3>2 DEF NothingToReview
      <3>3. q # NoRes
        BY ReservationAssumption
      <3> QED
        BY <1>3, <3>1, <3>2, <3>3
    <2> QED
      BY <2>2 DEF NothingToReview
  <1>9. Dense'
    <2>1. \A q \in Reservations : res'[q].status = "ABSENT" <=> res[q].status = "ABSENT"
      BY <1>3 DEF Reviewable
    <2> QED
      BY <2>1, SameRows
  <1>10. Checked'
    BY <1>3, <1>6 DEF Checked, WouldClash
  <1>11. NoDoubleBooking'
    <2>1. CASE r = NoRes
      BY <1>3, <2>1 DEF NoDoubleBooking, Clash
    <2>2. CASE r # NoRes
      <3>1. \A q \in Reservations : plan[res[q].plan] \in Flags /\ plan'[res'[q].plan] = plan[res[q].plan]
        BY <1>3, <2>2, ReservationAssumption DEF RTypeOK, ReservationRow, SamePlace
      <3>2. ASSUME NEW q \in Reservations, NEW x \in Reservations, Clash(q, x)'
            PROVE  /\ Overlap(res[q].start, res[q].end, res[x].start, res[x].end)
                   /\ Overlap(res[x].start, res[x].end, res[q].start, res[q].end)
                   /\ Excludes(plan[res[q].plan], plan[res[x].plan])
                   /\ Excludes(plan[res[x].plan], plan[res[q].plan])
        <4>1. /\ Overlap(res[q].start, res[q].end, res[x].start, res[x].end)
              /\ Excludes(plan[res[q].plan], plan[res[x].plan])
          BY <1>3, <2>2, <3>1, <3>2 DEF Clash, SamePlace
        <4>2. Overlap(res[x].start, res[x].end, res[q].start, res[q].end)
          BY <4>1 DEF Overlap
        <4> QED
          BY <3>1, <4>1, <4>2, ExcludesSymmetric
      <3>3. ASSUME NEW q \in Reservations \ {r}, res[q].status = "RESERVED", res'[r].status = "RESERVED",
                   Overlap(res[q].start, res[q].end, res[r].start, res[r].end),
                   Excludes(plan[res[q].plan], plan[res[r].plan])
            PROVE  q \in edited \/ r \in edited
        <4>1. CASE res[r].status = "RESERVED"
          BY <1>3, <2>2, <3>3, <4>1 DEF NoDoubleBooking, Clash
        <4>2. CASE res[r].status # "RESERVED"
          BY <1>1, <1>3, <2>2, <3>3, <4>2 DEF Checked, WouldClash
        <4> QED
          BY <4>1, <4>2
      <3>4. ASSUME NEW q \in Reservations, NEW x \in Reservations, q # x, Clash(q, x)'
            PROVE  q \in edited' \/ x \in edited'
        <4>1. CASE x = r
          BY <1>3, <2>2, <3>2, <3>3, <3>4, <4>1 DEF Clash
        <4>2. CASE q = r
          BY <1>3, <2>2, <3>2, <3>3, <3>4, <4>2 DEF Clash
        <4>3. CASE q # r /\ x # r
          BY <1>3, <2>2, <3>2, <3>4, <4>3 DEF Clash, NoDoubleBooking
        <4> QED
          BY <4>1, <4>2, <4>3
      <3> QED
        BY <3>4 DEF NoDoubleBooking
    <2> QED
      BY <2>1, <2>2
  <1> QED
    BY <1>5, <1>7, <1>8, <1>9, <1>10, <1>11

\* A reservation is moved while nobody settles, to a slot found free under the
\* settings its request read: other settings leave a mark.
LEMMA MoveSafe ==
    ASSUME RInv, RTypeOK', Targets', Linked', NEW h \in Handlers, ScheduleCommit(h)
    PROVE  RInv'
  <1> USE DEF RInv
  <1>1. PICK r : r = job[h].res
    OBVIOUS
  <1>2. job[h].pc = "move" /\ job[h] \in Request /\ r \in Reservations /\ res[r] \in ReservationRow
    BY <1>1 DEF ScheduleCommit, RTypeOK, Targets
  <1>3. UNCHANGED <<plan, ev>> /\ ~BookingLocked
    BY DEF ScheduleCommit
  <1>4. Done(h) \/ StartOver(h, "sync", r)
    BY <1>1 DEF ScheduleCommit
  <1>5. KeepsHolders
    BY <1>4, DoneJob, StartJob, OtherHolders
  <1>6. CASE UNCHANGED <<res, edited>>
    <2>1. Quiet
      BY <1>3, <1>5, <1>6 DEF Quiet, SamePlace
    <2> QED
      BY <2>1, QuietSafe
  <1>7. CASE /\ ReservedBlockers(job[h].flags, job[h].start, job[h].end, {r}) = {}
             /\ res' = [res EXCEPT ![r] = Moved(@, job[h].start, job[h].end)]
             /\ edited' = IF job[h].flags = plan[res[r].plan] THEN edited \ {r} ELSE edited \cup {r}
    <2>1. /\ res'[r].start = job[h].start /\ res'[r].end = job[h].end
          /\ res'[r].status = res[r].status /\ res'[r].plan = res[r].plan
          /\ \A q \in Reservations \ {r} : res'[q] = res[q]
      BY <1>2, <1>7 DEF Moved, ReservationRow, RTypeOK
    <2>2. \A g \in Holders' : g \in Holders /\ job'[g] = job[g] /\ job[g].res = NoRes
      BY <1>3, <1>5 DEF KeepsHolders, BookingLocked
    <2>3. OneHolder'
      BY <1>5, KeepsHoldersOne
    <2>4. HeldRows' /\ Checked'
      BY <1>3, <2>2 DEF HeldRows, Checked
    <2>5. NothingToReview'
      BY <1>3, <2>1 DEF NothingToReview, PendingEvidence
    <2>6. Dense'
      <3>1. \A q \in Reservations : res'[q].status = "ABSENT" <=> res[q].status = "ABSENT"
        BY <2>1
      <3> QED
        BY <3>1, SameRows
    <2>7. \A q \in Reservations : /\ res'[q].plan = res[q].plan
                                  /\ plan'[res'[q].plan] = plan[res[q].plan]
                                  /\ plan[res[q].plan] \in Flags
      BY <1>2, <1>3, <2>1, ReservationAssumption DEF RTypeOK, ReservationRow
    <2>8. ASSUME NEW q \in Reservations \ {r}, r \notin edited', res[q].status = "RESERVED",
                 Overlap(res[q].start, res[q].end, job[h].start, job[h].end),
                 Excludes(plan[res[q].plan], plan[res[r].plan])
          PROVE  FALSE
      BY <1>7, <2>8 DEF ReservedBlockers
    <2>9. ASSUME NEW q \in Reservations, NEW x \in Reservations, q # x, Clash(q, x)'
          PROVE  q \in edited' \/ x \in edited'
      <3>1. CASE x = r
        BY <2>1, <2>7, <2>8, <2>9, <3>1 DEF Clash
      <3>2. CASE q = r
        <4>1. /\ Overlap(res[x].start, res[x].end, job[h].start, job[h].end)
              /\ res[x].status = "RESERVED"
          BY <2>1, <2>9, <3>2 DEF Clash, Overlap
        <4>2. Excludes(plan[res[x].plan], plan[res[r].plan])
          BY <2>7, <2>9, <3>2, ExcludesSymmetric DEF Clash
        <4> QED
          BY <2>8, <2>9, <3>2, <4>1, <4>2
      <3>3. CASE q # r /\ x # r
        <4>1. Clash(q, x)
          BY <2>1, <2>7, <2>9, <3>3 DEF Clash
        <4> QED
          BY <1>7, <2>9, <3>3, <4>1 DEF NoDoubleBooking
      <3> QED
        BY <3>1, <3>2, <3>3
    <2> QED
      BY <2>3, <2>4, <2>5, <2>6, <2>9 DEF NoDoubleBooking
  <1> QED
    BY <1>1, <1>6, <1>7 DEF ScheduleCommit

(***************************************************************************)
(* The invariant                                                           *)
(***************************************************************************)
LEMMA InitInv == RInit => RInv
  <1> SUFFICES ASSUME RInit PROVE RInv
    OBVIOUS
  <1>1. RTypeOK
    BY InitType
  <1>2. /\ \A h \in Handlers : job[h].pc = "idle"
        /\ \A r \in Reservations : res[r].status = "ABSENT"
        /\ \A e \in Evidence : ev[e].review = "ABSENT"
    BY DEF RInit, Idle, NoRow, NoEvidenceRow
  <1>3. Dense
    <2>1. MaxRes \in Nat /\ 0 \in 0..MaxRes
      BY ReservationAssumption
    <2>2. \A r \in Reservations : ~(r <= 0)
      BY DEF Reservations
    <2> QED
      BY <1>2, <2>1, <2>2 DEF Dense
  <1>4. Targets /\ Linked /\ Holders = {} /\ NothingToReview
    BY <1>2 DEF Targets, Linked, Holders, NothingToReview, PendingEvidence
  <1>5. NoDoubleBooking
    BY <1>2 DEF NoDoubleBooking, Clash
  <1> QED
    BY <1>1, <1>3, <1>4, <1>5 DEF RInv, OneHolder, HeldRows, Checked

\* Every step keeps the invariant.
LEMMA NextInv == RInv /\ [RNext]_rvars => RInv'
  <1> SUFFICES ASSUME RInv, [RNext]_rvars PROVE RInv'
    OBVIOUS
  <1>1. CASE UNCHANGED rvars
    BY <1>1 DEF rvars, RInv, RTypeOK, Targets, Linked, Dense, OneHolder, HeldRows, NothingToReview,
                Checked, NoDoubleBooking, Holders, PendingEvidence, Clash, WouldClash
  <1>2. CASE RNext
    <2>1. Targets' /\ Linked'
      BY <1>2, RequestsAdvance DEF RInv
    <2>2. RTypeOK'
      BY <1>2, RequestTypes, HandlerTypes DEF RInv, RNext
    <2>3. CASE QuietStep
      BY <2>1, <2>2, <2>3, QuietSteps, QuietSafe DEF RInv
    <2>4. ASSUME NEW r \in Reservations, NEW c \in Customers, NEW p \in Plans, NEW s \in Slots,
                 CreatePendingReservation(r, c, p, s) \/ CreateManualReservation(r, c, p, s)
          PROVE  RInv'
      BY <2>1, <2>2, <2>4, NewReservationSafe
         DEF CreatePendingReservation, CreateManualReservation
    <2>5. ASSUME NEW e \in Evidence, NEW c \in Customers, ReceiveEvidence(e, c) PROVE RInv'
      BY <2>1, <2>2, <2>5, ReceiveSafe
    <2>6. ASSUME NEW e \in Evidence, RejectPayment(e) PROVE RInv'
      BY <2>1, <2>2, <2>6, RejectSafe
    <2>7. ASSUME NEW h \in Handlers, NEW r \in Reservations, CancelReservation(h, r) PROVE RInv'
      BY <2>1, <2>2, <2>7, CancelSafe
    <2>8. ASSUME NEW h \in Handlers, AcceptLock(h) \/ AcceptCommit(h) \/ ScheduleCommit(h)
          PROVE  RInv'
      BY <2>1, <2>2, <2>8, LockSafe, CommitSafe, MoveSafe
    <2>9. CASE ExpirePendingReservations
      BY <2>1, <2>2, <2>9, ExpireSafe
    <2>10. ASSUME NEW p \in Plans, NEW f \in PlanSettings, UpdatePlan(p, f) PROVE RInv'
      BY <2>1, <2>2, <2>10, UpdatePlanSafe
    <2> QED
      BY <1>2, <2>3, <2>4, <2>5, <2>6, <2>7, <2>8, <2>9, <2>10 DEF RNext, HandlerStep, QuietStep
  <1> QED
    BY <1>1, <1>2

(***************************************************************************)
(* The status matrix                                                       *)
(***************************************************************************)
OnMatrix(r) == res[r].status \notin {"ABSENT", res'[r].status} =>
                  res'[r].status \in RESERVATION_TRANSITIONS[res[r].status]

\* An acceptance never finds its reservation waiting for a payment: its own
\* receipt has sent it to review.
LEMMA CommitOnMatrix ==
    ASSUME RInv, NEW h \in Handlers, AcceptCommit(h), NEW q \in Reservations
    PROVE  OnMatrix(q)
  <1>1. PICK r : r = job[h].res
    OBVIOUS
  <1>2. PICK e : e = job[h].ev
    OBVIOUS
  <1>3. /\ e \in Evidence /\ ev[e].res = r /\ ev[e].review = "PENDING_REVIEW"
        /\ r = NoRes => UNCHANGED res
        /\ r # NoRes =>
             /\ r \in Reservations /\ res[r].status \in Reviewable
             /\ \A x \in Reservations : x # r => res'[x] = res[x]
             /\ res'[r].status \in Reviewable
             /\ res[r].status = "RESERVED" => res'[r].status = "RESERVED"
    BY <1>1, <1>2, CommitFacts
  <1>4. CASE r = NoRes \/ q # r
    BY <1>3, <1>4 DEF OnMatrix
  <1>5. CASE r # NoRes /\ q = r
    <2>1. e \in PendingEvidence(r)
      BY <1>3 DEF PendingEvidence
    <2>2. res[r].status # "PAYMENT_PENDING"
      BY <1>3, <1>5, <2>1 DEF RInv, NothingToReview
    <2> QED
      BY <1>3, <1>5, <2>2 DEF OnMatrix, Reviewable, RESERVATION_TRANSITIONS
  <1> QED
    BY <1>4, <1>5

\* Every step follows the status matrix.
LEMMA NextOnMatrix ==
    ASSUME RInv, [RNext]_rvars, NEW q \in Reservations
    PROVE  OnMatrix(q)
  <1> USE DEF RInv
  <1>1. UNCHANGED res => OnMatrix(q)
    BY DEF OnMatrix
  <1>2. CASE UNCHANGED rvars
    BY <1>1, <1>2 DEF rvars
  <1>3. CASE QuietStep
    BY <1>3, QuietSteps DEF Quiet, OnMatrix
  <1>4. ASSUME NEW r \in Reservations, NEW c, NEW p, NEW s, NewReservation(r, c, p, s)
        PROVE  OnMatrix(q)
    <2>1. res[r].status = "ABSENT"
      BY <1>4, NewRow DEF NewReservation
    <2>2. q # r => res'[q] = res[q]
      BY <1>4 DEF NewReservation, RTypeOK
    <2> QED
      BY <2>1, <2>2 DEF OnMatrix
  <1>5. ASSUME NEW e \in Evidence, NEW c \in Customers, ReceiveEvidence(e, c) PROVE OnMatrix(q)
    BY <1>5 DEF ReceiveEvidence, OnMatrix, RTypeOK, ReservationRow, RESERVATION_TRANSITIONS
  <1>6. ASSUME NEW e \in Evidence, RejectPayment(e) PROVE OnMatrix(q)
    BY <1>6 DEF RejectPayment, OnMatrix, RTypeOK, ReservationRow, RESERVATION_TRANSITIONS
  <1>7. ASSUME NEW h \in Handlers, NEW r \in Reservations, CancelReservation(h, r)
        PROVE  OnMatrix(q)
    BY <1>7 DEF CancelReservation, OnMatrix, RTypeOK, ReservationRow, RESERVATION_TRANSITIONS,
                Reviewable
  <1>8. CASE ExpirePendingReservations
    BY <1>8 DEF ExpirePendingReservations, Expirable, OnMatrix, RTypeOK, ReservationRow,
                RESERVATION_TRANSITIONS
  <1>9. ASSUME NEW h \in Handlers, ScheduleCommit(h) PROVE OnMatrix(q)
    <2>1. CASE UNCHANGED res
      BY <1>1, <2>1
    <2>2. CASE res' = [res EXCEPT ![job[h].res] = Moved(@, job[h].start, job[h].end)]
      BY <2>2 DEF Moved, OnMatrix, RTypeOK, ReservationRow
    <2> QED
      BY <1>9, <2>1, <2>2 DEF ScheduleCommit
  <1>10. CASE (\E h \in Handlers : AcceptLock(h)) \/ \E p \in Plans, f \in PlanSettings : UpdatePlan(p, f)
    BY <1>1, <1>10 DEF AcceptLock, UpdatePlan
  <1> QED
    BY <1>2, <1>3, <1>4, <1>5, <1>6, <1>7, <1>8, <1>9, <1>10, CommitOnMatrix
       DEF RNext, HandlerStep, QuietStep, CreatePendingReservation, CreateManualReservation

(***************************************************************************)
(* Money                                                                   *)
(***************************************************************************)
\* ConfirmedIsPaid for one row.
PaidRow(row) ==
    row.status = "RESERVED" =>
        /\ row.paid >= deposit_amount(row.price)
        /\ (row.kind = "FULL") <=> (row.paid >= row.price)
        /\ (row.due = NoTime) <=> (row.kind = "FULL")

\* The deposit is a natural number.
LEMMA DepositType ==
    ASSUME NEW price \in Nat
    PROVE  deposit_amount(price) \in Int
  <1>1. price * Percent \in Nat
    BY ReservationAssumption
  <1>2. (price * Percent + 100000 - 1) \div 100000 \in Int
    BY <1>1
  <1> QED
    BY <1>2 DEF deposit_amount

\* One more amount leaves a paid row paid, and confirms only one that is.
LEMMA SettledPaid ==
    ASSUME NEW row \in ReservationRow, NEW a \in Nat, NEW blocked \in BOOLEAN, NEW others,
           PaidRow(row), NEW paid, paid = [row EXCEPT !.paid = @ + a]
    PROVE  PaidRow(Settled(paid, blocked, others))
  <1>1. row.paid \in Nat /\ row.price \in Nat /\ row.start \in Nat
    BY DEF ReservationRow
  <1>2. /\ paid.paid = row.paid + a /\ paid.paid \in Nat /\ paid.price = row.price
        /\ paid.kind = row.kind /\ paid.due = row.due /\ paid.status = row.status
        /\ paid.start = row.start /\ paid \in ReservationRow
    BY <1>1 DEF ReservationRow
  <1>3. PICK d : d = deposit_amount(row.price)
    OBVIOUS
  <1>4. d \in Int /\ DayLen \in Nat /\ NoTime \notin Int
    BY <1>1, <1>3, DepositType, ReservationAssumption
  <1>5. CASE row.status = "RESERVED"
    <2>1. Settled(paid, blocked, others) = BalancePaid(paid)
      BY <1>2, <1>5 DEF Settled
    <2>2. paid.paid >= d
      BY <1>1, <1>2, <1>3, <1>4, <1>5 DEF PaidRow
    <2>3. CASE paid.paid >= paid.price
      <3>1. /\ BalancePaid(paid).paid = paid.paid /\ BalancePaid(paid).price = paid.price
            /\ BalancePaid(paid).kind = "FULL" /\ BalancePaid(paid).due = NoTime
        BY <1>2, <2>3 DEF BalancePaid, ReservationRow
      <3> QED
        BY <1>2, <1>3, <2>1, <2>2, <2>3, <3>1 DEF PaidRow
    <2>4. CASE ~(paid.paid >= paid.price)
      <3>1. BalancePaid(paid) = paid
        BY <2>4 DEF BalancePaid
      <3>2. ~(row.paid >= row.price)
        BY <1>1, <1>2, <2>4
      <3> QED
        BY <1>2, <1>3, <1>5, <2>1, <2>2, <2>4, <3>1, <3>2 DEF PaidRow
    <2> QED
      BY <2>3, <2>4
  <1>6. CASE row.status # "RESERVED" /\ ~(paid.paid < deposit_amount(paid.price)) /\ ~blocked
    <2>1. Settled(paid, blocked, others) = Confirmed(paid)
      BY <1>2, <1>6 DEF Settled
    <2>2. paid.paid >= d
      BY <1>2, <1>3, <1>4, <1>6
    <2>3. row.start - DayLen \in Int
      BY <1>1, <1>4
    <2>4. /\ Confirmed(paid).paid = paid.paid /\ Confirmed(paid).price = paid.price
          /\ Confirmed(paid).kind = IF paid.paid >= paid.price THEN "FULL" ELSE "DEPOSIT"
          /\ Confirmed(paid).due = IF paid.paid >= paid.price THEN NoTime ELSE row.start - DayLen
      BY <1>2 DEF Confirmed, ReservationRow
    <2> QED
      BY <1>2, <1>3, <1>4, <2>1, <2>2, <2>3, <2>4 DEF PaidRow
  <1>7. CASE row.status # "RESERVED" /\ (paid.paid < deposit_amount(paid.price) \/ blocked)
    <2>1. Settled(paid, blocked, others).status # "RESERVED"
      BY <1>2, <1>7 DEF Settled, ReservationRow
    <2> QED
      BY <2>1 DEF PaidRow
  <1> QED
    BY <1>5, <1>6, <1>7

\* A confirmed row was confirmed before, with the same money.
KeepsMoney ==
    \A r \in Reservations : res'[r].status = "RESERVED" =>
        /\ res[r].status = "RESERVED"
        /\ res'[r].paid = res[r].paid /\ res'[r].price = res[r].price
        /\ res'[r].kind = res[r].kind /\ res'[r].due = res[r].due

\* Every step keeps confirmed reservations paid.
LEMMA NextPaid ==
    ASSUME RInv, ConfirmedIsPaid, [RNext]_rvars
    PROVE  ConfirmedIsPaid'
  <1> USE DEF RInv
  <1>0. \A r \in Reservations : PaidRow(res[r])
    BY DEF ConfirmedIsPaid, PaidRow
  <1>1. ASSUME KeepsMoney PROVE ConfirmedIsPaid'
    BY <1>1 DEF KeepsMoney, ConfirmedIsPaid
  <1>2. UNCHANGED res => KeepsMoney
    BY DEF KeepsMoney
  <1>3. CASE UNCHANGED rvars
    BY <1>1, <1>2, <1>3 DEF rvars
  <1>4. ASSUME NEW r \in Reservations, NEW c, NEW p, NEW s, NewReservation(r, c, p, s)
        PROVE  KeepsMoney
    BY <1>4 DEF NewReservation, NoRow, RTypeOK, KeepsMoney
  <1>5. ASSUME NEW e \in Evidence, NEW c \in Customers, ReceiveEvidence(e, c) PROVE KeepsMoney
    BY <1>5 DEF ReceiveEvidence, RTypeOK, ReservationRow, KeepsMoney
  <1>6. ASSUME NEW e \in Evidence, DownloadSettles(e) \/ RejectPayment(e) PROVE KeepsMoney
    BY <1>6 DEF DownloadSettles, RejectPayment, RTypeOK, ReservationRow, KeepsMoney
  <1>7. ASSUME NEW h \in Handlers, NEW r \in Reservations,
               CancelReservation(h, r) \/ RetryCalendar(h, r)
        PROVE  KeepsMoney
    BY <1>7 DEF CancelReservation, RetryCalendar, RTypeOK, ReservationRow, KeepsMoney
  <1>8. CASE ExpirePendingReservations
    BY <1>8, <1>1 DEF ExpirePendingReservations, RTypeOK, ReservationRow, KeepsMoney
  <1>9. ASSUME NEW h \in Handlers, SyncFailed(h) \/ SyncRecord(h) \/ ReleaseClear(h) PROVE KeepsMoney
    BY <1>9 DEF SyncFailed, SyncRecord, ReleaseClear, RTypeOK, ReservationRow, KeepsMoney
  <1>10. ASSUME NEW h \in Handlers, ScheduleCommit(h) PROVE ConfirmedIsPaid'
    <2>1. CASE UNCHANGED res
      BY <1>1, <1>2, <2>1
    <2>2. CASE res' = [res EXCEPT ![job[h].res] = Moved(@, job[h].start, job[h].end)]
      <3>1. job[h].start \in Nat /\ DayLen \in Nat /\ NoTime \notin Int
        BY ReservationAssumption DEF RTypeOK, Request
      <3>2. job[h].start - DayLen \in Int
        BY <3>1
      <3>3. ASSUME NEW r \in Reservations PROVE PaidRow(res'[r])
        <4>1. /\ res'[r].status = res[r].status /\ res'[r].paid = res[r].paid
              /\ res'[r].price = res[r].price /\ res'[r].kind = res[r].kind
              /\ res'[r].due \in {res[r].due, IF res[r].kind = "DEPOSIT" THEN job[h].start - DayLen
                                             ELSE res[r].due}
          BY <2>2 DEF Moved, RTypeOK, ReservationRow
        <4> QED
          BY <1>0, <3>1, <3>2, <4>1 DEF PaidRow
      <3> QED
        BY <3>3 DEF ConfirmedIsPaid, PaidRow
    <2> QED
      BY <1>10, <2>1, <2>2 DEF ScheduleCommit
  <1>11. ASSUME NEW h \in Handlers, AcceptCommit(h) PROVE ConfirmedIsPaid'
    <2>1. CASE job[h].res = NoRes
      BY <1>1, <1>2, <1>11, <2>1 DEF AcceptCommit
    <2>2. CASE job[h].res # NoRes
      <3>1. job[h].res \in Reservations /\ job[h].amount \in Nat /\ job[h].blocked \in BOOLEAN
        BY <2>2 DEF RTypeOK, Request
      <3>2. PICK paid : paid = [res[job[h].res] EXCEPT !.paid = @ + job[h].amount]
        OBVIOUS
      <3>3. res' = [res EXCEPT ![job[h].res] =
                       Settled(paid, job[h].blocked, PendingEvidence(job[h].res) \ {job[h].ev})]
        BY <1>11, <2>2, <3>2 DEF AcceptCommit
      <3>4. PaidRow(Settled(paid, job[h].blocked, PendingEvidence(job[h].res) \ {job[h].ev}))
        BY <1>0, <3>1, <3>2, SettledPaid DEF RTypeOK
      <3>5. \A r \in Reservations : PaidRow(res'[r])
        BY <1>0, <3>1, <3>3, <3>4 DEF RTypeOK
      <3> QED
        BY <3>5 DEF ConfirmedIsPaid, PaidRow
    <2> QED
      BY <2>1, <2>2
  <1>12. CASE \/ \E h \in Handlers, e \in Evidence, a \in Amounts : AcceptCheck(h, e, a)
              \/ \E h \in Handlers, r \in Reservations, s \in Slots : ScheduleCheck(h, r, s)
              \/ \E h \in Handlers :
                    \/ AcceptLock(h) \/ SyncRead(h) \/ SyncCall(h) \/ SyncUnavailable(h)
                    \/ SyncBurned(h) \/ ReleaseCall(h) \/ ReleaseUnavailable(h) \/ HandlerCrash(h)
              \/ \E p \in Plans, f \in PlanSettings : UpdatePlan(p, f)
              \/ \E b \in BusySlots : StaffEvent(b)
              \/ Tick
    BY <1>1, <1>2, <1>12
       DEF AcceptCheck, ScheduleCheck, AcceptLock, SyncRead, SyncCall, SyncUnavailable, SyncBurned,
           ReleaseCall, ReleaseUnavailable, HandlerCrash, UpdatePlan, StaffEvent, Tick
  <1> QED
    BY <1>1, <1>3, <1>4, <1>5, <1>6, <1>7, <1>8, <1>9, <1>10, <1>11, <1>12
       DEF RNext, HandlerStep, CreatePendingReservation, CreateManualReservation

(***************************************************************************)
(* Sums                                                                    *)
(***************************************************************************)
\* One pair for each unit of money of each element.
Units(f, T) == UNION {{x} \X (1..f[x]) : x \in T}

\* The units of one element.
LEMMA UnitsOfOne ==
    ASSUME NEW f, NEW x, f[x] \in Nat
    PROVE  IsFiniteSet({x} \X (1..f[x])) /\ Cardinality({x} \X (1..f[x])) = f[x]
  <1>1. IsFiniteSet({x}) /\ Cardinality({x}) = 1
    BY FS_Singleton
  <1>2. IsFiniteSet(1..f[x]) /\ Cardinality(1..f[x]) = f[x]
    BY FS_Interval
  <1>3. /\ IsFiniteSet({x} \X (1..f[x]))
        /\ Cardinality({x} \X (1..f[x])) = Cardinality({x}) * Cardinality(1..f[x])
    BY <1>1, <1>2, FS_Product, Zenon
  <1>4. 1 * f[x] = f[x]
    OBVIOUS
  <1> QED
    BY <1>1, <1>2, <1>3, <1>4

\* There are finitely many units of finitely many elements.
LEMMA UnitsFinite ==
    ASSUME NEW f, NEW T, IsFiniteSet(T), \A x \in T : f[x] \in Nat
    PROVE  IsFiniteSet(Units(f, T))
  <1> DEFINE g == [x \in T |-> {x} \X (1..f[x])]
             B == {{x} \X (1..f[x]) : x \in T}
  <1>1. g \in Surjection(T, B)
    BY DEF Surjection
  <1>2. IsFiniteSet(B)
    BY <1>1, FS_Surjection
  <1>3. \A b \in B : IsFiniteSet(b)
    BY UnitsOfOne
  <1> QED
    BY <1>2, <1>3, FS_UNION DEF Units

\* Taking one element out takes its units out.
LEMMA UnitsSplit ==
    ASSUME NEW f, NEW T, IsFiniteSet(T), \A y \in T : f[y] \in Nat, NEW x \in T
    PROVE  Cardinality(Units(f, T)) = f[x] + Cardinality(Units(f, T \ {x}))
  <1> DEFINE A == {x} \X (1..f[x])
             B == Units(f, T \ {x})
  <1>1. Units(f, T) = A \cup B
    BY DEF Units
  <1>2. A \cap B = {}
    BY DEF Units
  <1>3. IsFiniteSet(A) /\ Cardinality(A) = f[x]
    BY UnitsOfOne
  <1>4. IsFiniteSet(B)
    BY UnitsFinite, FS_RemoveElement
  <1>5. Cardinality(A \cap B) = 0
    BY <1>2, FS_EmptySet
  <1>6. Cardinality(B) \in Nat /\ f[x] \in Nat
    BY <1>4, FS_CardinalityType
  <1>7. Cardinality(A \cup B) = Cardinality(A) + Cardinality(B) - Cardinality(A \cap B)
    BY <1>3, <1>4, FS_Union
  <1> HIDE DEF A, B
  <1>8. Cardinality(A \cup B) = f[x] + Cardinality(B)
    BY <1>3, <1>5, <1>6, <1>7
  <1> QED
    BY <1>1, <1>8 DEF B

\* The equation the sum is defined by.
Summed(f, D, g) ==
    g = [s \in SUBSET D |-> IF s = {} THEN 0
                            ELSE f[CHOOSE x \in s : TRUE] + g[s \ {CHOOSE x \in s : TRUE}]]

\* Only the number of units satisfies it.
LEMMA SummedUnits ==
    ASSUME NEW f, NEW D, IsFiniteSet(D), \A x \in D : f[x] \in Nat,
           NEW g, Summed(f, D, g)
    PROVE  \A T \in SUBSET D : g[T] = Cardinality(Units(f, T))
  <1> DEFINE Bad == {T \in SUBSET D : g[T] # Cardinality(Units(f, T))}
  <1> SUFFICES ASSUME Bad # {} PROVE FALSE
    OBVIOUS
  <1>1. IsWellFoundedOn(StrictSubsetOrdering(D), SUBSET D)
    BY FS_StrictSubsetOrderingWellFounded, FS_FiniteSubsetsOfFinite
  <1>2. PICK T \in Bad : \A U \in Bad : ~(<<U, T>> \in StrictSubsetOrdering(D))
    <2>1. Bad \subseteq SUBSET D
      OBVIOUS
    <2> HIDE DEF Bad
    <2> QED
      BY <1>1, <2>1, WFMin
  <1>3. CASE T = {}
    <2>1. Units(f, {}) = {}
      BY DEF Units
    <2>2. g[{}] = 0
      BY DEF Summed
    <2> QED
      BY <1>3, <2>1, <2>2, FS_EmptySet
  <1>4. CASE T # {}
    <2>1. PICK x : x = CHOOSE y \in T : TRUE
      OBVIOUS
    <2>2. x \in T
      BY <1>4, <2>1
    <2>3. g[T] = f[x] + g[T \ {x}]
      BY <1>4, <2>1 DEF Summed
    <2>4. T \ {x} \in SUBSET D /\ <<T \ {x}, T>> \in StrictSubsetOrdering(D)
      BY <2>2 DEF StrictSubsetOrdering
    <2>5. g[T \ {x}] = Cardinality(Units(f, T \ {x}))
      BY <1>2, <2>4
    <2>6. IsFiniteSet(T) /\ \A y \in T : f[y] \in Nat
      BY FS_Subset
    <2>7. Cardinality(Units(f, T)) = f[x] + Cardinality(Units(f, T \ {x}))
      BY <2>2, <2>6, UnitsSplit
    <2> QED
      BY <2>3, <2>5, <2>7
  <1> QED
    BY <1>3, <1>4

\* The number of units satisfies it.
LEMMA UnitsSummed ==
    ASSUME NEW f, NEW D, IsFiniteSet(D), \A x \in D : f[x] \in Nat
    PROVE  Summed(f, D, [T \in SUBSET D |-> Cardinality(Units(f, T))])
  <1> DEFINE h == [T \in SUBSET D |-> Cardinality(Units(f, T))]
  <1>1. h[{}] = 0
    <2>1. Units(f, {}) = {}
      BY DEF Units
    <2> QED
      BY <2>1, FS_EmptySet
  <1>2. ASSUME NEW T \in SUBSET D, T # {}, NEW x, x = CHOOSE y \in T : TRUE
        PROVE  h[T] = f[x] + h[T \ {x}]
    <2>1. x \in T
      BY <1>2
    <2>2. IsFiniteSet(T) /\ \A y \in T : f[y] \in Nat
      BY FS_Subset
    <2>3. Cardinality(Units(f, T)) = f[x] + Cardinality(Units(f, T \ {x}))
      BY <2>1, <2>2, UnitsSplit
    <2>4. T \ {x} \in SUBSET D
      OBVIOUS
    <2> QED
      BY <2>3, <2>4
  <1>3. DOMAIN h = SUBSET D /\ h = [T \in SUBSET D |-> h[T]]
    OBVIOUS
  <1> HIDE DEF h
  <1>4. h = [s \in SUBSET D |-> IF s = {} THEN 0
                       ELSE f[CHOOSE x \in s : TRUE] + h[s \ {CHOOSE x \in s : TRUE}]]
    <2>1. \A s \in SUBSET D : h[s] = IF s = {} THEN 0
                       ELSE f[CHOOSE x \in s : TRUE] + h[s \ {CHOOSE x \in s : TRUE}]
      BY <1>1, <1>2
    <2> QED
      BY <1>3, <2>1
  <1> QED
    BY <1>4 DEF Summed, h

\* A sum of natural numbers over a finite set counts units.
LEMMA SumIsUnits ==
    ASSUME NEW f, NEW D, IsFiniteSet(D), \A x \in D : f[x] \in Nat
    PROVE  SumFunctionOnSet(f, D) = Cardinality(Units(f, D))
  <1> DEFINE it == CHOOSE g : Summed(f, D, g)
  <1>1. SumFunctionOnSet(f, D) = it[D]
    BY Zenon DEF SumFunctionOnSet, FoldFunctionOnSet, MapThenFoldSet, Summed
  <1>2. Summed(f, D, it)
    BY UnitsSummed
  <1> HIDE DEF it
  <1>3. it[D] = Cardinality(Units(f, D))
    BY <1>2, SummedUnits
  <1> QED
    BY <1>1, <1>3

\* One more element adds its value.
LEMMA SumAdds ==
    ASSUME NEW f, NEW D, IsFiniteSet(D), NEW x, x \notin D, \A y \in D \cup {x} : f[y] \in Nat
    PROVE  SumFunctionOnSet(f, D \cup {x}) = f[x] + SumFunctionOnSet(f, D)
  <1>1. IsFiniteSet(D \cup {x}) /\ (D \cup {x}) \ {x} = D
    BY FS_AddElement
  <1>2. SumFunctionOnSet(f, D) = Cardinality(Units(f, D))
    BY SumIsUnits
  <1>3. SumFunctionOnSet(f, D \cup {x}) = Cardinality(Units(f, D \cup {x}))
    BY <1>1, SumIsUnits
  <1>4. PICK E : E = D \cup {x}
    OBVIOUS
  <1>5. Cardinality(Units(f, E)) = f[x] + Cardinality(Units(f, E \ {x}))
    BY <1>1, <1>4, UnitsSplit
  <1> QED
    BY <1>1, <1>2, <1>3, <1>4, <1>5

\* A sum depends only on the values in its set.
LEMMA SumSame ==
    ASSUME NEW f, NEW g, NEW D, IsFiniteSet(D), \A y \in D : f[y] = g[y] /\ f[y] \in Nat
    PROVE  SumFunctionOnSet(f, D) = SumFunctionOnSet(g, D)
  <1>1. Units(f, D) = Units(g, D)
    BY DEF Units
  <1> QED
    BY <1>1, SumIsUnits

\* Nothing adds up to zero.
LEMMA SumEmpty == ASSUME NEW f PROVE SumFunctionOnSet(f, {}) = 0
  <1>1. Units(f, {}) = {}
    BY DEF Units
  <1> QED
    BY <1>1, SumIsUnits, FS_EmptySet
(***************************************************************************)
(* What has been paid                                                      *)
(***************************************************************************)
\* The amounts of the receipts.
Amounted == [e \in Evidence |-> ev[e].amount]

\* Every row counts its accepted receipts, which are finitely many, and a row that does not
\* exist has none.
Counted ==
    \A r \in Reservations :
        /\ IsFiniteSet(AcceptedEvidence(r))
        /\ res[r].paid = SumFunctionOnSet(Amounted, AcceptedEvidence(r))
        /\ res[r].status = "ABSENT" => AcceptedEvidence(r) = {}

\* Receipts are accepted only once, and keep their amount and their reservation.
SameAccepted ==
    \A e \in Evidence :
        /\ ev'[e].review = "ACCEPTED" <=> ev[e].review = "ACCEPTED"
        /\ ev[e].review = "ACCEPTED" => ev'[e].res = ev[e].res /\ ev'[e].amount = ev[e].amount

\* A row keeps what has been paid, or is new and starts at nothing.
SamePaid ==
    \A r \in Reservations :
        /\ res'[r].status = "ABSENT" => res[r].status = "ABSENT"
        /\ \/ res'[r].paid = res[r].paid
           \/ res'[r].paid = 0 /\ res[r].status = "ABSENT"

\* A step that touches neither keeps the count.
LEMMA SameCounted ==
    ASSUME RTypeOK, Counted, SameAccepted, SamePaid
    PROVE  Counted'
  <1>1. ASSUME NEW r \in Reservations
        PROVE  /\ IsFiniteSet(AcceptedEvidence(r)')
               /\ res'[r].paid = SumFunctionOnSet(Amounted', AcceptedEvidence(r)')
               /\ res'[r].status = "ABSENT" => AcceptedEvidence(r)' = {}
    <2>1. PICK A : A = AcceptedEvidence(r)
      OBVIOUS
    <2>2. AcceptedEvidence(r)' = A
      BY <2>1 DEF AcceptedEvidence, SameAccepted
    <2>3. IsFiniteSet(A) /\ res[r].paid = SumFunctionOnSet(Amounted, A)
      BY <2>1 DEF Counted
    <2>4. PICK f, g : f = Amounted /\ g = Amounted'
      OBVIOUS
    <2>5. \A e \in A : f[e] = g[e] /\ f[e] \in Nat
      BY <2>1, <2>4 DEF Amounted, AcceptedEvidence, SameAccepted, RTypeOK, EvidenceRow
    <2>6. SumFunctionOnSet(f, A) = SumFunctionOnSet(g, A)
      BY <2>3, <2>5, SumSame
    <2>7. CASE res'[r].paid = res[r].paid
      BY <2>1, <2>2, <2>3, <2>4, <2>6, <2>7 DEF Counted, SamePaid
    <2>8. CASE res'[r].paid = 0 /\ res[r].status = "ABSENT"
      <3>1. A = {}
        BY <2>1, <2>8 DEF Counted
      <3>2. SumFunctionOnSet(g, A) = 0
        BY <3>1, SumEmpty
      <3> QED
        BY <2>2, <2>3, <2>4, <2>8, <3>1, <3>2
    <2> QED
      BY <2>7, <2>8 DEF SamePaid
  <1> QED
    BY <1>1 DEF Counted

\* Settling keeps what has been paid.
LEMMA SettledKeepsPaid ==
    ASSUME NEW row \in ReservationRow, NEW blocked, NEW others
    PROVE  Settled(row, blocked, others).paid = row.paid
  BY DEF Settled, BalancePaid, Confirmed, ReservationRow

\* The commit of an acceptance adds its amount to the row and its receipt to the accepted ones.
LEMMA CommitCounted ==
    ASSUME RInv, Counted, NEW h \in Handlers, AcceptCommit(h)
    PROVE  Counted'
  <1> USE DEF RInv
  <1>1. PICK e, q, a : e = job[h].ev /\ q = job[h].res /\ a = job[h].amount
    OBVIOUS
  <1>2. /\ e \in Evidence /\ ev'[e].review = "ACCEPTED" /\ ev[e].res = q /\ ev'[e].res = q
        /\ ev[e].review = "PENDING_REVIEW"
        /\ \A f \in Evidence \ {e} : ev'[f] = ev[f]
        /\ q = NoRes => UNCHANGED res
        /\ q # NoRes => /\ q \in Reservations /\ res[q].status \in Reviewable
                        /\ \A r \in Reservations : r # q => res'[r] = res[r]
                        /\ res'[q].status \in Reviewable
    BY <1>1, CommitFacts
  <1>3. a \in Nat /\ ev'[e].amount = a
    <2>1. job[h] \in Request
      BY DEF RTypeOK
    <2>2. ev[e] \in EvidenceRow
      BY <1>2 DEF RTypeOK
    <2>3. ev' = [ev EXCEPT ![e].review = "ACCEPTED", ![e].amount = a]
      BY <1>1 DEF AcceptCommit
    <2> QED
      BY <1>1, <1>2, <2>1, <2>2, <2>3 DEF Request, RTypeOK, EvidenceRow
  <1>4. q # NoRes => res'[q].paid = res[q].paid + a
    <2> SUFFICES ASSUME q # NoRes PROVE res'[q].paid = res[q].paid + a
      OBVIOUS
    <2>1. q \in Reservations /\ res[q] \in ReservationRow
      BY <1>2 DEF RTypeOK
    <2>2. PICK paid : paid = [res[q] EXCEPT !.paid = @ + a]
      OBVIOUS
    <2>3. res[q].paid + a \in Nat
      BY <1>3, <2>1 DEF ReservationRow
    <2>4. paid \in ReservationRow /\ paid.paid = res[q].paid + a
      BY <2>1, <2>2, <2>3 DEF ReservationRow
    <2>5. PICK new : new = Settled(paid, job[h].blocked, PendingEvidence(q) \ {e})
      OBVIOUS
    <2>6. res' = [res EXCEPT ![q] = new]
      BY <1>1, <2>2, <2>5 DEF AcceptCommit
    <2>7. res'[q] = new
      BY <2>1, <2>6 DEF RTypeOK
    <2>8. new.paid = paid.paid
      BY <2>4, <2>5, SettledKeepsPaid
    <2> QED
      BY <2>4, <2>7, <2>8
  <1>5. ASSUME NEW r \in Reservations
        PROVE  /\ IsFiniteSet(AcceptedEvidence(r)')
               /\ res'[r].paid = SumFunctionOnSet(Amounted', AcceptedEvidence(r)')
               /\ res'[r].status = "ABSENT" => AcceptedEvidence(r)' = {}
    <2>1. PICK A : A = AcceptedEvidence(r)
      OBVIOUS
    <2>2. e \notin A /\ A \subseteq Evidence
      BY <1>2, <2>1 DEF AcceptedEvidence
    <2>3. IsFiniteSet(A) /\ res[r].paid = SumFunctionOnSet(Amounted, A)
      BY <2>1 DEF Counted
    <2>4. PICK f, g : f = Amounted /\ g = Amounted'
      OBVIOUS
    <2>5. (\A d \in A : f[d] = g[d] /\ f[d] \in Nat) /\ g[e] = a
      BY <1>2, <1>3, <2>2, <2>4 DEF Amounted, RTypeOK, EvidenceRow
    <2>6. SumFunctionOnSet(f, A) = SumFunctionOnSet(g, A)
      BY <2>3, <2>5, SumSame
    <2>7. CASE r = q
      <3>0. r # NoRes
        BY ReservationAssumption
      <3>1. AcceptedEvidence(r)' = A \cup {e}
        BY <1>2, <2>1, <2>2, <2>7 DEF AcceptedEvidence
      <3>2. IsFiniteSet(A \cup {e})
        BY <2>3, FS_AddElement
      <3>3. SumFunctionOnSet(g, A \cup {e}) = g[e] + SumFunctionOnSet(g, A)
        BY <1>3, <2>2, <2>3, <2>5, SumAdds
      <3>4. res[r].paid \in Nat
        BY DEF RTypeOK, ReservationRow
      <3>5. res'[r].paid = g[e] + res[r].paid
        BY <1>3, <1>4, <2>5, <2>7, <3>0, <3>4
      <3> QED
        BY <1>2, <2>3, <2>4, <2>6, <2>7, <3>0, <3>1, <3>2, <3>3, <3>5 DEF Reviewable
    <2>8. CASE r # q
      <3>1. AcceptedEvidence(r)' = A
        BY <1>2, <2>1, <2>2, <2>8 DEF AcceptedEvidence
      <3>2. res'[r] = res[r]
        BY <1>2, <2>8
      <3> QED
        BY <2>1, <2>3, <2>4, <2>6, <3>1, <3>2 DEF Counted
    <2> QED
      BY <2>7, <2>8
  <1> QED
    BY <1>5 DEF Counted

\* Every step keeps the count.
LEMMA NextCounted ==
    ASSUME RInv, Counted, [RNext]_rvars
    PROVE  Counted'
  <1> USE DEF RInv
  <1>1. UNCHANGED ev => SameAccepted
    BY DEF SameAccepted
  <1>2. UNCHANGED res => SamePaid
    BY DEF SamePaid
  <1>3. CASE UNCHANGED rvars
    BY <1>1, <1>2, <1>3, SameCounted DEF rvars
  <1>4. ASSUME NEW r \in Reservations, NEW c, NEW p, NEW s, NewReservation(r, c, p, s)
        PROVE  Counted'
    <2>1. res[r].status = "ABSENT"
      BY <1>4, NewRow DEF NewReservation
    <2>2. SamePaid
      BY <1>4, <2>1 DEF NewReservation, NoRow, RTypeOK, SamePaid
    <2> QED
      BY <1>1, <1>4, <2>2, SameCounted DEF NewReservation
  <1>5. ASSUME NEW e \in Evidence, NEW c \in Customers, ReceiveEvidence(e, c) PROVE Counted'
    <2>1. SameAccepted
      BY <1>5 DEF ReceiveEvidence, NoEvidenceRow, RTypeOK, SameAccepted
    <2>2. SamePaid
      BY <1>5 DEF ReceiveEvidence, RTypeOK, ReservationRow, SamePaid
    <2> QED
      BY <2>1, <2>2, SameCounted
  <1>6. ASSUME NEW e \in Evidence, DownloadSettles(e) \/ RejectPayment(e) PROVE Counted'
    <2>1. SameAccepted
      BY <1>6 DEF DownloadSettles, RejectPayment, EvidenceRow, RTypeOK, SameAccepted
    <2>2. SamePaid
      BY <1>6 DEF DownloadSettles, RejectPayment, RTypeOK, ReservationRow, SamePaid
    <2> QED
      BY <2>1, <2>2, SameCounted
  <1>7. ASSUME NEW h \in Handlers, NEW r \in Reservations,
               CancelReservation(h, r) \/ RetryCalendar(h, r)
        PROVE  SamePaid /\ UNCHANGED ev
    BY <1>7 DEF CancelReservation, RetryCalendar, RTypeOK, ReservationRow, SamePaid
  <1>8. ASSUME ExpirePendingReservations PROVE SamePaid /\ UNCHANGED ev
    BY <1>8 DEF ExpirePendingReservations, RTypeOK, ReservationRow, SamePaid
  <1>9. ASSUME NEW h \in Handlers,
               SyncFailed(h) \/ SyncRecord(h) \/ ReleaseClear(h) \/ ScheduleCommit(h)
        PROVE  SamePaid /\ UNCHANGED ev
    <2>1. ASSUME ~ScheduleCommit(h) PROVE SamePaid /\ UNCHANGED ev
      BY <1>9, <2>1 DEF SyncFailed, SyncRecord, ReleaseClear, RTypeOK, ReservationRow, SamePaid
    <2>2. ASSUME ScheduleCommit(h) PROVE SamePaid /\ UNCHANGED ev
      <3>1. CASE UNCHANGED res
        BY <1>2, <2>2, <3>1 DEF ScheduleCommit
      <3>2. CASE res' = [res EXCEPT ![job[h].res] = Moved(@, job[h].start, job[h].end)]
        <4>1. \A r \in Reservations : /\ res'[r].status = res[r].status
                                      /\ res'[r].paid = res[r].paid
          BY <3>2 DEF Moved, RTypeOK, ReservationRow
        <4> QED
          BY <2>2, <4>1 DEF ScheduleCommit, SamePaid
      <3> QED
        BY <2>2, <3>1, <3>2 DEF ScheduleCommit
    <2> QED
      BY <2>1, <2>2
  <1>10. ASSUME \/ \E h \in Handlers, e \in Evidence, a \in Amounts : AcceptCheck(h, e, a)
                \/ \E h \in Handlers, r \in Reservations, s \in Slots : ScheduleCheck(h, r, s)
                \/ \E h \in Handlers :
                      \/ AcceptLock(h) \/ SyncRead(h) \/ SyncCall(h) \/ SyncUnavailable(h)
                      \/ SyncBurned(h) \/ ReleaseCall(h) \/ ReleaseUnavailable(h) \/ HandlerCrash(h)
                \/ \E p \in Plans, f \in PlanSettings : UpdatePlan(p, f)
                \/ \E b \in BusySlots : StaffEvent(b)
                \/ Tick
         PROVE  SamePaid /\ UNCHANGED ev
    BY <1>2, <1>10
       DEF AcceptCheck, ScheduleCheck, AcceptLock, SyncRead, SyncCall, SyncUnavailable, SyncBurned,
           ReleaseCall, ReleaseUnavailable, HandlerCrash, UpdatePlan, StaffEvent, Tick
  <1>11. ASSUME SamePaid, UNCHANGED ev PROVE Counted'
    BY <1>1, <1>11, SameCounted
  <1> QED
    BY <1>3, <1>4, <1>5, <1>6, <1>7, <1>8, <1>9, <1>10, <1>11, CommitCounted
       DEF RNext, HandlerStep, CreatePendingReservation, CreateManualReservation

(***************************************************************************)
(* The calendar                                                            *)
(***************************************************************************)
\* The statuses of a reservation that was confirmed once, and the steps of a request that
\* will find out that its reservation was cancelled, or remove its event.
Once == {"RESERVED", "CANCELLED"}
Minding == {"call", "record", "release"}

\* Requests talk to the calendar about reservations that were confirmed, and remove events of
\* cancelled ones only; one that writes an event has read the time the row still has.
JobFits(h) ==
    LET r == job[h].res IN
    /\ job[h].pc \in {"sync", "call", "record", "failed"} => res[r].status \in Once
    /\ job[h].pc \in {"release", "clear"} => res[r].status = "CANCELLED"
    /\ job[h].pc \in {"call", "record"} /\ r \notin moved =>
         job[h].start = res[r].start /\ job[h].end = res[r].end

Minds(h, r) == job[h].res = r /\ job[h].pc \in Minding
Minded(r) == \E h \in Handlers : Minds(h, r)

\* Somebody minds an event that its row does not know of, or whose reservation is off.
EventFits(r) ==
    /\ calendar[r].kind = "EVENT" => res[r].status \in Once
    /\ calendar[r].kind = "EVENT" /\ r \notin moved /\ r \notin abandoned =>
         (res[r].status = "RESERVED" /\ res[r].external) \/ Minded(r)

\* The inductive invariant of the calendar, beside RInv.
CInv == (\A h \in Handlers : JobFits(h)) /\ (\A r \in Reservations : EventFits(r))

\* A step that lets go of no event: requests that mind it go on, or it is marked.
LEMMA MindedStays ==
    ASSUME NEW h \in Handlers, Others(h), NEW r \in Reservations, Minded(r),
           Minds(h, r) => Minds(h, r)' \/ r \in abandoned'
    PROVE  Minded(r)' \/ r \in abandoned'
  <1>1. PICK g \in Handlers : Minds(g, r)
    BY DEF Minded
  <1>2. CASE g = h
    BY <1>1, <1>2 DEF Minded
  <1>3. CASE g # h
    BY <1>1, <1>3 DEF Minded, Minds, Others
  <1> QED
    BY <1>2, <1>3

\* A request that takes no step keeps its facts, since a confirmed reservation can only be
\* cancelled, and a new time is noted.
LEMMA IdleJobFits ==
    ASSUME RInv, CInv, [RNext]_rvars, NEW g \in Handlers, job'[g] = job[g], moved \subseteq moved',
           \A r \in Reservations : res[r].status \in Once /\ r \notin moved' => SamePlace(r)
    PROVE  JobFits(g)'
  <1>1. PICK r : r = job[g].res
    OBVIOUS
  <1>2. PICK k : k = job[g]
    OBVIOUS
  <1>3. CASE k.pc \notin {"sync", "call", "record", "failed", "release", "clear"}
    BY <1>2, <1>3 DEF JobFits
  <1>4. CASE k.pc \in {"sync", "call", "record", "failed", "release", "clear"}
    <2>1. r \in Reservations
      BY <1>1, <1>2, <1>4 DEF RInv, Targets
    <2>2. JobFits(g)
      BY DEF CInv
    <2>3. res[r].status \in Once
      BY <1>1, <1>2, <1>4, <2>2 DEF JobFits, Once
    <2>4. res'[r].status = res[r].status \/ res'[r].status = "CANCELLED"
      <3>1. OnMatrix(r)
        BY <2>1, NextOnMatrix
      <3> QED
        BY <2>3, <3>1 DEF OnMatrix, Once, RESERVATION_TRANSITIONS
    <2>5. r \notin moved' => r \notin moved /\ res'[r].start = res[r].start /\ res'[r].end = res[r].end
      BY <2>1, <2>3 DEF SamePlace
    <2> QED
      BY <1>1, <1>2, <2>2, <2>3, <2>4, <2>5 DEF JobFits, Once
  <1> QED
    BY <1>3, <1>4

\* An event nobody writes in this step is still minded if it has to be.
LEMMA SameEventFits ==
    ASSUME RInv, CInv, [RNext]_rvars, NEW r \in Reservations, moved \subseteq moved',
           abandoned \subseteq abandoned', calendar'[r].kind = calendar[r].kind,
           res[r].status = "RESERVED" => res'[r].external = res[r].external \/ res'[r].external,
           /\ res[r].status = "RESERVED" /\ res[r].external /\ res'[r].status = "CANCELLED"
           => Minded(r)',
           Minded(r) => \/ Minded(r)' \/ r \in abandoned'
                        \/ (res'[r].status = "RESERVED" /\ res'[r].external)
    PROVE  EventFits(r)'
  <1>1. EventFits(r) /\ OnMatrix(r)
    BY NextOnMatrix DEF CInv
  <1>2. CASE calendar[r].kind # "EVENT"
    BY <1>2 DEF EventFits
  <1>3. CASE calendar[r].kind = "EVENT"
    <2>1. res[r].status \in Once
      BY <1>1, <1>3 DEF EventFits
    <2>2. res'[r].status = res[r].status \/ res'[r].status = "CANCELLED"
      BY <1>1, <2>1 DEF OnMatrix, Once, RESERVATION_TRANSITIONS
    <2>3. res'[r].status \in Once
      BY <2>1, <2>2 DEF Once
    <2>4. ASSUME r \notin moved', r \notin abandoned', ~(res'[r].status = "RESERVED" /\ res'[r].external)
          PROVE  Minded(r)'
      <3>1. (res[r].status = "RESERVED" /\ res[r].external) \/ Minded(r)
        BY <1>1, <1>3, <2>4 DEF EventFits
      <3>2. CASE Minded(r)
        BY <2>4, <3>2
      <3>3. CASE res[r].status = "RESERVED" /\ res[r].external
        BY <2>2, <2>4, <3>3
      <3> QED
        BY <3>1, <3>2, <3>3
    <2> QED
      BY <2>3, <2>4 DEF EventFits
  <1> QED
    BY <1>2, <1>3

\* A step of a request that is not talking to the calendar, or of no request: no event is
\* written, no row loses its event's id.
LEMMA CalendarAlone ==
    ASSUME RInv, CInv, [RNext]_rvars, UNCHANGED <<calendar, abandoned>>, moved \subseteq moved',
           NEW h \in Handlers, Others(h), job[h].pc \notin Minding, JobFits(h)',
           \A r \in Reservations :
              /\ res[r].status \in Once /\ r \notin moved' => SamePlace(r)
              /\ res[r].status = "RESERVED" => res'[r].external = res[r].external
              /\ /\ res[r].status = "RESERVED" /\ res[r].external /\ res'[r].status = "CANCELLED"
                 => Minded(r)'
    PROVE  CInv'
  <1>1. ASSUME NEW g \in Handlers PROVE JobFits(g)'
    BY <1>1, IdleJobFits DEF Others
  <1>2. ASSUME NEW r \in Reservations PROVE EventFits(r)'
    <2>1. Minded(r) => Minded(r)' \/ r \in abandoned'
      BY MindedStays DEF Minds
    <2> QED
      BY <2>1, SameEventFits
  <1> QED
    BY <1>1, <1>2 DEF CInv

\* The same when no request takes a step.
LEMMA RequestsRest ==
    ASSUME RInv, CInv, [RNext]_rvars, UNCHANGED <<calendar, abandoned, moved, job>>,
           \A r \in Reservations :
              /\ res[r].status \in Once => SamePlace(r)
              /\ res[r].status = "RESERVED" => res'[r].external = res[r].external
              /\ ~(res[r].status = "RESERVED" /\ res'[r].status = "CANCELLED" /\ res[r].external)
    PROVE  CInv'
  <1>1. ASSUME NEW g \in Handlers PROVE JobFits(g)'
    BY <1>1, IdleJobFits
  <1>2. ASSUME NEW r \in Reservations PROVE EventFits(r)'
    <2>1. Minded(r) => Minded(r)'
      BY DEF Minded, Minds
    <2> QED
      BY <2>1, SameEventFits
  <1> QED
    BY <1>1, <1>2 DEF CInv

\* Requests, receipts, expiry, plans, staff events and the clock leave what is confirmed alone.
LEMMA QuietCalendar ==
    ASSUME RInv, CInv, RNext,
           \/ \E r \in Reservations, c \in Customers, p \in Plans, s \in Slots :
                 NewReservation(r, c, p, s)
           \/ \E e \in Evidence, c \in Customers : ReceiveEvidence(e, c)
           \/ \E e \in Evidence : DownloadSettles(e) \/ RejectPayment(e)
           \/ ExpirePendingReservations
           \/ \E p \in Plans, f \in PlanSettings : UpdatePlan(p, f)
           \/ (\E b \in BusySlots : StaffEvent(b)) \/ Tick
    PROVE  CInv'
  <1>1. UNCHANGED <<calendar, abandoned, moved, job>>
    BY DEF NewReservation, ReceiveEvidence, DownloadSettles, RejectPayment,
           ExpirePendingReservations, UpdatePlan, StaffEvent, Tick
  <1>2. ASSUME NEW r \in Reservations, res[r].status \in Once PROVE res'[r] = res[r]
    <2>1. res \in [Reservations -> ReservationRow]
      BY DEF RInv, RTypeOK
    <2>2. ASSUME NEW q \in Reservations, NEW c \in Customers, NEW p \in Plans, NEW s \in Slots,
                 NewReservation(q, c, p, s)
          PROVE  res'[r] = res[r]
      <3>1. res[q].status = "ABSENT"
        BY <2>2, NewRow DEF NewReservation, RInv
      <3> QED
        BY <1>2, <2>1, <2>2, <3>1 DEF NewReservation, Once
    <2>3. ASSUME NEW e \in Evidence, NEW c \in Customers, ReceiveEvidence(e, c)
          PROVE  res'[r] = res[r]
      BY <1>2, <2>1, <2>3 DEF ReceiveEvidence, Once
    <2>4. ASSUME NEW e \in Evidence, DownloadSettles(e) \/ RejectPayment(e) PROVE res'[r] = res[r]
      BY <1>2, <2>1, <2>4 DEF DownloadSettles, RejectPayment, Once
    <2>5. CASE ExpirePendingReservations
      BY <1>2, <2>1, <2>5 DEF ExpirePendingReservations, Expirable, Once
    <2>6. CASE UNCHANGED res
      BY <2>6
    <2> QED
      BY <2>2, <2>3, <2>4, <2>5, <2>6 DEF UpdatePlan, StaffEvent, Tick
  <1>3. ASSUME NEW r \in Reservations
        PROVE  /\ res[r].status \in Once => SamePlace(r)
               /\ res[r].status = "RESERVED" => res'[r].external = res[r].external
               /\ ~(res[r].status = "RESERVED" /\ res'[r].status = "CANCELLED" /\ res[r].external)
    BY <1>2, <1>3 DEF SamePlace, Once
  <1> QED
    BY <1>1, <1>3, RequestsRest

\* A new request does not talk to the calendar yet, and a retry is of a confirmed reservation.
LEMMA BeginCalendar ==
    ASSUME RInv, CInv, RNext, NEW h \in Handlers,
           \/ \E e \in Evidence, a \in Amounts : AcceptCheck(h, e, a)
           \/ \E r \in Reservations, s \in Slots : ScheduleCheck(h, r, s)
           \/ \E r \in Reservations : RetryCalendar(h, r)
           \/ AcceptLock(h)
    PROVE  CInv'
  <1> USE DEF RInv
  <1>1. UNCHANGED <<res, calendar, abandoned, moved>> /\ job[h].pc \in {"idle", "accept"}
    BY DEF AcceptCheck, ScheduleCheck, RetryCalendar, AcceptLock
  <1>2. /\ Others(h)
        /\ \/ job'[h].pc \in {"idle", "accept", "settling", "move"}
           \/ job'[h].pc = "sync" /\ res[job'[h].res].status = "RESERVED"
    <2>1. ASSUME NEW e \in Evidence, NEW a \in Amounts, AcceptCheck(h, e, a)
          PROVE  job'[h].pc = "accept" /\ Others(h)
      BY <2>1, Defaults DEF AcceptCheck, RTypeOK, Request, Idle, Others
    <2>2. ASSUME NEW r \in Reservations, NEW s \in Slots, ScheduleCheck(h, r, s)
          PROVE  job'[h].pc = "move" /\ Others(h)
      BY <2>2, Defaults DEF ScheduleCheck, RTypeOK, Request, Idle, Others
    <2>3. ASSUME NEW r \in Reservations, RetryCalendar(h, r)
          PROVE  job'[h].pc = "sync" /\ res[job'[h].res].status = "RESERVED" /\ Others(h)
      BY <2>3, StartJob DEF RetryCalendar
    <2>4. CASE AcceptLock(h)
      BY <2>4, LockJob, DoneJob
    <2> QED
      BY <2>1, <2>2, <2>3, <2>4
  <1>3. JobFits(h)'
    BY <1>1, <1>2 DEF JobFits, Once
  <1>4. job[h].pc \notin Minding
    BY <1>1 DEF Minding
  <1>5. ASSUME NEW r \in Reservations
        PROVE  /\ res[r].status \in Once /\ r \notin moved' => SamePlace(r)
               /\ res[r].status = "RESERVED" => res'[r].external = res[r].external
               /\ ~(res[r].status = "RESERVED" /\ res[r].external /\ res'[r].status = "CANCELLED")
    BY <1>1 DEF SamePlace
  <1>6. moved \subseteq moved' /\ UNCHANGED <<calendar, abandoned>>
    BY <1>1
  <1> QED
    BY <1>2, <1>3, <1>4, <1>5, <1>6, CalendarAlone

\* A confirmation commits, and goes on to write its event.
LEMMA CommitCalendar ==
    ASSUME RInv, CInv, RNext, NEW h \in Handlers, AcceptCommit(h) PROVE CInv'
  <1> USE DEF RInv
  <1>1. PICK r : r = job[h].res
    OBVIOUS
  <1>2. PICK e : e = job[h].ev
    OBVIOUS
  <1>3. /\ Others(h)
        /\ r = NoRes => UNCHANGED res
        /\ r # NoRes =>
             /\ r \in Reservations /\ res[r].status \in Reviewable
             /\ \A q \in Reservations : SamePlace(q) /\ (q # r => res'[q] = res[q])
             /\ res'[r].external = res[r].external /\ res'[r].status \in Reviewable
    BY <1>1, <1>2, CommitFacts
  <1>4. UNCHANGED <<calendar, abandoned>> /\ moved' = moved /\ job[h].pc = "settling"
    BY DEF AcceptCommit
  <1>5. JobFits(h)'
    <2>1. CASE Done(h)
      BY <2>1, DoneJob DEF JobFits
    <2>2. CASE ~Done(h)
      <3>1. PICK new : /\ res' = [res EXCEPT ![r] = new] /\ new.status = "RESERVED"
                       /\ r # NoRes /\ StartOver(h, "sync", r)
        BY <1>1, <2>2 DEF AcceptCommit
      <3>2. res'[r].status = "RESERVED"
        BY <1>3, <3>1 DEF RTypeOK
      <3>3. job'[h].pc = "sync" /\ job'[h].res = r
        BY <3>1, StartJob
      <3> QED
        BY <3>2, <3>3 DEF JobFits, Once
    <2> QED
      BY <2>1, <2>2
  <1>6. job[h].pc \notin Minding /\ moved \subseteq moved'
    BY <1>4 DEF Minding
  <1>7. ASSUME NEW q \in Reservations
        PROVE  /\ res[q].status \in Once /\ q \notin moved' => SamePlace(q)
               /\ res[q].status = "RESERVED" => res'[q].external = res[q].external
               /\ ~(res[q].status = "RESERVED" /\ res[q].external /\ res'[q].status = "CANCELLED")
    BY <1>3 DEF SamePlace, Reviewable
  <1> QED
    BY <1>3, <1>4, <1>5, <1>6, <1>7, CalendarAlone

\* A new time of a confirmed reservation is noted; of another one nobody has told the calendar.
LEMMA MoveCalendar ==
    ASSUME RInv, CInv, RNext, NEW h \in Handlers, ScheduleCommit(h) PROVE CInv'
  <1> USE DEF RInv
  <1>1. PICK r : r = job[h].res
    OBVIOUS
  <1>2. PICK k : k = job[h]
    OBVIOUS
  <1>3. k.pc = "move" /\ r \in Reservations /\ res[r] \in ReservationRow
    BY <1>1, <1>2 DEF ScheduleCommit, RTypeOK, Targets
  <1>4. UNCHANGED <<calendar, abandoned>> /\ (Done(h) \/ StartOver(h, "sync", r))
    BY <1>1 DEF ScheduleCommit
  <1>5. Others(h)
    BY <1>4, DoneJob, StartJob
  <1>6. \/ UNCHANGED <<res, moved>> /\ Done(h)
        \/ /\ res' = [res EXCEPT ![r] = Moved(res[r], k.start, k.end)]
           /\ res[r].status \in Reviewable
           /\ moved' = IF res[r].status = "RESERVED" /\ <<k.start, k.end>> # <<res[r].start, res[r].end>>
                       THEN moved \cup {r} ELSE moved
           /\ Done(h) \/ (res[r].status = "RESERVED" /\ StartOver(h, "sync", r))
    BY <1>1, <1>2 DEF ScheduleCommit
  <1>7. /\ res'[r].status = res[r].status /\ res'[r].external = res[r].external
        /\ \A q \in Reservations \ {r} : res'[q] = res[q]
        /\ moved \subseteq moved'
        /\ res[r].status \in Once /\ r \notin moved' => SamePlace(r)
        /\ Done(h) \/ (res[r].status = "RESERVED" /\ StartOver(h, "sync", r))
    <2>1. CASE UNCHANGED <<res, moved>> /\ Done(h)
      BY <2>1 DEF SamePlace
    <2>2. CASE ~(UNCHANGED <<res, moved>> /\ Done(h))
      <3>1. PICK row : row = Moved(res[r], k.start, k.end)
        OBVIOUS
      <3>2. /\ row.status = res[r].status /\ row.external = res[r].external
            /\ row.start = k.start /\ row.end = k.end /\ row.plan = res[r].plan
        BY <1>3, <3>1 DEF Moved, ReservationRow
      <3>3. res'[r] = row /\ \A q \in Reservations \ {r} : res'[q] = res[q]
        BY <1>3, <1>6, <2>2, <3>1 DEF RTypeOK
      <3>4. moved \subseteq moved'
        BY <1>6, <2>2
      <3>5. res[r].status \in Once => res[r].status = "RESERVED"
        BY <1>6, <2>2 DEF Once, Reviewable
      <3>6. res[r].status = "RESERVED" /\ r \notin moved' => k.start = res[r].start /\ k.end = res[r].end
        BY <1>6, <2>2
      <3> QED
        BY <1>6, <2>2, <3>2, <3>3, <3>4, <3>5, <3>6 DEF SamePlace
    <2> QED
      BY <2>1, <2>2
  <1>8. JobFits(h)'
    <2>1. CASE Done(h)
      BY <2>1, DoneJob DEF JobFits
    <2>2. CASE res[r].status = "RESERVED" /\ StartOver(h, "sync", r)
      <3>1. job'[h].pc = "sync" /\ job'[h].res = r
        BY <2>2, StartJob
      <3> QED
        BY <1>7, <2>2, <3>1 DEF JobFits, Once
    <2> QED
      BY <1>7, <2>1, <2>2
  <1>9. job[h].pc \notin Minding
    BY <1>2, <1>3 DEF Minding
  <1>10. ASSUME NEW q \in Reservations
         PROVE  /\ res[q].status \in Once /\ q \notin moved' => SamePlace(q)
                /\ res[q].status = "RESERVED" => res'[q].external = res[q].external
                /\ ~(res[q].status = "RESERVED" /\ res[q].external /\ res'[q].status = "CANCELLED")
    BY <1>7 DEF SamePlace
  <1> QED
    BY <1>4, <1>5, <1>7, <1>8, <1>9, <1>10, CalendarAlone

\* A cancellation removes the event its row knows of; of any other one somebody takes care.
LEMMA CancelCalendar ==
    ASSUME RInv, CInv, RNext, NEW h \in Handlers, NEW r \in Reservations, CancelReservation(h, r)
    PROVE  CInv'
  <1> USE DEF RInv
  <1>1. /\ res'[r].status = "CANCELLED" /\ res'[r].external = res[r].external
        /\ \A q \in Reservations : SamePlace(q) /\ (q # r => res'[q] = res[q])
    BY DEF CancelReservation, RTypeOK, ReservationRow, SamePlace
  <1>2. UNCHANGED <<calendar, abandoned, moved>> /\ job[h].pc = "idle"
    BY DEF CancelReservation
  <1>3. CASE ~(res[r].status = "RESERVED" /\ res[r].external)
    <2>1. UNCHANGED job
      BY <1>3 DEF CancelReservation
    <2>2. ASSUME NEW q \in Reservations
          PROVE  /\ res[q].status \in Once => SamePlace(q)
                 /\ res[q].status = "RESERVED" => res'[q].external = res[q].external
                 /\ ~(res[q].status = "RESERVED" /\ res'[q].status = "CANCELLED" /\ res[q].external)
      BY <1>1, <1>3
    <2>3. UNCHANGED <<calendar, abandoned, moved, job>>
      BY <1>2, <2>1
    <2> QED
      BY <2>2, <2>3, RequestsRest
  <1>4. CASE res[r].status = "RESERVED" /\ res[r].external
    <2>1. StartOver(h, "release", r)
      BY <1>4 DEF CancelReservation
    <2>2. job'[h].pc = "release" /\ job'[h].res = r /\ Others(h)
      BY <2>1, StartJob
    <2>3. JobFits(h)'
      BY <1>1, <2>2 DEF JobFits
    <2>4. Minded(r)'
      BY <2>2 DEF Minded, Minds, Minding
    <2>5. ASSUME NEW q \in Reservations
          PROVE  /\ res[q].status \in Once /\ q \notin moved' => SamePlace(q)
                 /\ res[q].status = "RESERVED" => res'[q].external = res[q].external
                 /\ /\ res[q].status = "RESERVED" /\ res[q].external /\ res'[q].status = "CANCELLED"
                    => Minded(q)'
      BY <1>1, <2>4
    <2>6. job[h].pc \notin Minding /\ moved \subseteq moved'
      BY <1>2 DEF Minding
    <2> QED
      BY <1>2, <2>2, <2>3, <2>5, <2>6, CalendarAlone
  <1> QED
    BY <1>3, <1>4

\* What a synchronisation reads is what its row says, and what a failure or a removal writes
\* in the row concerns no confirmed event.
LEMMA ReadCalendar ==
    ASSUME RInv, CInv, RNext, NEW h \in Handlers, SyncRead(h) \/ SyncFailed(h) \/ ReleaseClear(h)
    PROVE  CInv'
  <1> USE DEF RInv
  <1>1. PICK r : r = job[h].res
    OBVIOUS
  <1>2. r \in Reservations /\ job[h].pc \in {"sync", "failed", "clear"} /\ job[h] \in Request
    BY <1>1 DEF SyncRead, SyncFailed, ReleaseClear, Targets, RTypeOK
  <1>3. UNCHANGED <<calendar, abandoned>> /\ moved' = moved
    BY DEF SyncRead, SyncFailed, ReleaseClear
  <1>4. JobFits(h)
    BY DEF CInv
  <1>5. /\ \A q \in Reservations : SamePlace(q) /\ res'[q].status = res[q].status
        /\ \A q \in Reservations : res[q].status = "RESERVED" => res'[q].external = res[q].external
    <2>1. CASE SyncRead(h)
      BY <2>1 DEF SyncRead, SamePlace
    <2>2. CASE SyncFailed(h)
      BY <1>1, <1>2, <2>2 DEF SyncFailed, SamePlace, RTypeOK, ReservationRow
    <2>3. CASE ReleaseClear(h)
      <3>1. res[r].status = "CANCELLED"
        BY <1>1, <1>4, <2>3 DEF JobFits, ReleaseClear
      <3>2. res' = [res EXCEPT ![r].external = FALSE, ![r].calendar_status = "NONE"]
        BY <1>1, <2>3 DEF ReleaseClear
      <3>3. res[r] \in ReservationRow /\ \A q \in Reservations \ {r} : res'[q] = res[q]
        BY <1>2, <3>2 DEF RTypeOK
      <3>4. SamePlace(r) /\ res'[r].status = res[r].status
        BY <1>2, <3>2, <3>3 DEF RTypeOK, ReservationRow, SamePlace
      <3> QED
        BY <3>1, <3>3, <3>4 DEF SamePlace
    <2> QED
      BY <2>1, <2>2, <2>3
  <1>6. Others(h) /\ JobFits(h)'
    <2>1. CASE Done(h)
      BY <2>1, DoneJob DEF JobFits
    <2>2. CASE ~Done(h)
      <3>1. /\ res[r].status = "RESERVED"
            /\ job' = [job EXCEPT ![h].pc = "call", ![h].start = res[r].start, ![h].end = res[r].end,
                                  ![h].flags = plan[res[r].plan]]
        BY <1>1, <2>2 DEF SyncRead, SyncFailed, ReleaseClear
      <3>2. /\ job'[h].pc = "call" /\ job'[h].res = r /\ job'[h].start = res[r].start
            /\ job'[h].end = res[r].end /\ Others(h)
        BY <1>1, <1>2, <3>1 DEF RTypeOK, Request, Others
      <3>3. res'[r].status = "RESERVED" /\ res'[r].start = res[r].start /\ res'[r].end = res[r].end
        BY <1>2, <1>5, <3>1 DEF SamePlace
      <3> QED
        BY <3>2, <3>3 DEF JobFits, Once
    <2> QED
      BY <2>1, <2>2
  <1>7. job[h].pc \notin Minding /\ moved \subseteq moved'
    BY <1>2, <1>3 DEF Minding
  <1>8. ASSUME NEW q \in Reservations
        PROVE  /\ res[q].status \in Once /\ q \notin moved' => SamePlace(q)
               /\ res[q].status = "RESERVED" => res'[q].external = res[q].external
               /\ ~(res[q].status = "RESERVED" /\ res[q].external /\ res'[q].status = "CANCELLED")
    BY <1>5
  <1> QED
    BY <1>3, <1>6, <1>7, <1>8, CalendarAlone

\* The calendar is called, the answer is written down, or the request dies.  The event of the
\* request's reservation is judged by itself.
LEMMA CallCalendar ==
    ASSUME RInv, CInv, RNext, NEW h \in Handlers, Others(h), moved' = moved,
           abandoned \subseteq abandoned', NEW r \in Reservations, job[h].res = r,
           \A q \in Reservations \ {r} : calendar'[q] = calendar[q] /\ res'[q] = res[q],
           \A q \in Reservations : SamePlace(q),
           JobFits(h)', EventFits(r)'
    PROVE  CInv'
  <1>1. ASSUME NEW g \in Handlers PROVE JobFits(g)'
    BY <1>1, IdleJobFits DEF Others
  <1>2. ASSUME NEW q \in Reservations \ {r} PROVE EventFits(q)'
    <2>1. Minded(q) => Minded(q)' \/ q \in abandoned'
      BY <1>2, MindedStays DEF Minds
    <2>2. /\ ~(res[q].status = "RESERVED" /\ res[q].external /\ res'[q].status = "CANCELLED")
          /\ res'[q].external = res[q].external
      BY <1>2
    <2>3. calendar'[q].kind = calendar[q].kind /\ moved \subseteq moved'
      BY <1>2
    <2> QED
      BY <1>2, <2>1, <2>2, <2>3, SameEventFits
  <1> QED
    BY <1>1, <1>2 DEF CInv

\* What the calls do, done or failed, before or after their effect.
LEMMA CallsCalendar ==
    ASSUME RInv, CInv, RNext, NEW h \in Handlers,
           \/ SyncCall(h) \/ SyncUnavailable(h) \/ SyncBurned(h)
           \/ ReleaseCall(h) \/ ReleaseUnavailable(h)
    PROVE  CInv'
  <1> USE DEF RInv
  <1>1. PICK r : r = job[h].res
    OBVIOUS
  <1>2. r \in Reservations /\ job[h].pc \in {"call", "release"} /\ job[h] \in Request
    BY <1>1 DEF SyncCall, SyncUnavailable, SyncBurned, ReleaseCall, ReleaseUnavailable, Targets, RTypeOK
  <1>3. UNCHANGED res /\ moved' = moved /\ abandoned \subseteq abandoned'
    BY DEF SyncCall, SyncUnavailable, SyncBurned, ReleaseCall, ReleaseUnavailable
  <1>4. JobFits(h) /\ EventFits(r) /\ calendar \in [Reservations -> CalendarEvent]
    BY <1>2 DEF CInv, RTypeOK
  <1>5. \A q \in Reservations \ {r} : Written(h)[q] = calendar[q] /\ Removed(r)[q] = calendar[q]
    BY <1>1, <1>4 DEF Written, Removed
  <1>6. Removed(r)[r].kind # "EVENT"
    BY <1>2, <1>4 DEF Removed, Deleted, NoEvent
  <1>7. res'[r] = res[r] /\ \A q \in Reservations : res'[q] = res[q] /\ SamePlace(q)
    BY <1>2, <1>3 DEF SamePlace
  <1>8. CASE SyncCall(h)
    <2>1. job'[h].pc = "record" /\ job'[h].res = r /\ Others(h) /\ job[h].pc = "call"
      BY <1>1, <1>8, GoJob DEF SyncCall
    <2>2. job'[h].start = job[h].start /\ job'[h].end = job[h].end
      BY <1>2, <1>8 DEF SyncCall, Go, RTypeOK, Request
    <2>3. JobFits(h)'
      BY <1>1, <1>3, <1>4, <1>7, <2>1, <2>2 DEF JobFits
    <2>4. res'[r].status \in Once
      BY <1>1, <1>4, <1>7, <2>1 DEF JobFits
    <2>5. Minded(r)'
      BY <2>1 DEF Minded, Minds, Minding
    <2>6. EventFits(r)'
      BY <2>4, <2>5 DEF EventFits
    <2>7. \A q \in Reservations \ {r} : calendar'[q] = calendar[q]
      BY <1>5, <1>8 DEF SyncCall
    <2> QED
      BY <1>1, <1>2, <1>3, <1>7, <2>1, <2>3, <2>6, <2>7, CallCalendar
  <1>9. CASE SyncUnavailable(h)
    <2>1. job'[h].pc = "failed" /\ job'[h].res = r /\ Others(h) /\ job[h].pc = "call"
      BY <1>1, <1>9, GoJob DEF SyncUnavailable
    <2>2. JobFits(h)'
      BY <1>1, <1>4, <1>7, <2>1 DEF JobFits
    <2>3. res'[r].status \in Once /\ r \in abandoned'
      BY <1>1, <1>4, <1>7, <1>9, <2>1 DEF JobFits, SyncUnavailable
    <2>4. EventFits(r)'
      BY <2>3 DEF EventFits
    <2>5. \A q \in Reservations \ {r} : calendar'[q] = calendar[q]
      BY <1>5, <1>9 DEF SyncUnavailable
    <2> QED
      BY <1>1, <1>2, <1>3, <1>7, <2>1, <2>2, <2>4, <2>5, CallCalendar
  <1>10. CASE SyncBurned(h)
    <2>1. Others(h) /\ JobFits(h)'
      BY <1>10, DoneJob DEF SyncBurned, JobFits
    <2>2. calendar' = calendar /\ calendar[r].kind = "DELETED"
      BY <1>1, <1>10 DEF SyncBurned
    <2>3. EventFits(r)'
      BY <2>2 DEF EventFits
    <2>4. \A q \in Reservations \ {r} : calendar'[q] = calendar[q]
      BY <2>2
    <2> QED
      BY <1>1, <1>2, <1>3, <1>7, <2>1, <2>3, <2>4, CallCalendar
  <1>11. CASE ReleaseCall(h)
    <2>1. job'[h].pc = "clear" /\ job'[h].res = r /\ Others(h) /\ job[h].pc = "release"
      BY <1>1, <1>11, GoJob DEF ReleaseCall
    <2>2. JobFits(h)'
      BY <1>1, <1>4, <1>7, <2>1 DEF JobFits
    <2>3. calendar' = Removed(r)
      BY <1>1, <1>11 DEF ReleaseCall
    <2>4. EventFits(r)'
      BY <1>6, <2>3 DEF EventFits
    <2>5. \A q \in Reservations \ {r} : calendar'[q] = calendar[q]
      BY <1>5, <2>3
    <2> QED
      BY <1>1, <1>2, <1>3, <1>7, <2>1, <2>2, <2>4, <2>5, CallCalendar
  <1>12. CASE ReleaseUnavailable(h)
    <2>1. Others(h) /\ JobFits(h)'
      BY <1>12, DoneJob DEF ReleaseUnavailable, JobFits
    <2>2. calendar' = calendar \/ calendar' = Removed(r)
      BY <1>1, <1>12 DEF ReleaseUnavailable
    <2>3. res'[r].status \in Once /\ r \in abandoned'
      BY <1>1, <1>4, <1>7, <1>12 DEF JobFits, ReleaseUnavailable, Once
    <2>4. EventFits(r)'
      BY <2>3 DEF EventFits
    <2>5. \A q \in Reservations \ {r} : calendar'[q] = calendar[q]
      BY <1>5, <2>2
    <2> QED
      BY <1>1, <1>2, <1>3, <1>7, <2>1, <2>4, <2>5, CallCalendar
  <1> QED
    BY <1>8, <1>9, <1>10, <1>11, <1>12

\* A request that dies leaves its reservation marked.
LEMMA CrashCalendar ==
    ASSUME RInv, CInv, RNext, NEW h \in Handlers, HandlerCrash(h) PROVE CInv'
  <1> USE DEF RInv
  <1>1. PICK r : r = job[h].res
    OBVIOUS
  <1>2. UNCHANGED <<res, calendar>> /\ moved' = moved /\ abandoned \subseteq abandoned'
    BY DEF HandlerCrash
  <1>3. Others(h) /\ JobFits(h)'
    BY DoneJob DEF HandlerCrash, JobFits
  <1>4. CASE r \in Reservations
    <2>1. r \in abandoned'
      BY <1>1, <1>4, ReservationAssumption DEF HandlerCrash
    <2>2. EventFits(r)
      BY <1>4 DEF CInv
    <2>3. EventFits(r)'
      BY <1>2, <2>1, <2>2 DEF EventFits
    <2>4. /\ \A q \in Reservations \ {r} : calendar'[q] = calendar[q] /\ res'[q] = res[q]
          /\ \A q \in Reservations : SamePlace(q)
      BY <1>2 DEF SamePlace
    <2> QED
      BY <1>1, <1>2, <1>3, <1>4, <2>3, <2>4, CallCalendar
  <1>5. CASE r \notin Reservations
    <2>1. job[h].pc \notin Minding
      BY <1>1, <1>5 DEF Targets, Minding
    <2>2. abandoned' = abandoned
      BY <1>1, <1>5 DEF HandlerCrash, RTypeOK, Request
    <2>3. ASSUME NEW q \in Reservations
          PROVE  /\ res[q].status \in Once /\ q \notin moved' => SamePlace(q)
                 /\ res[q].status = "RESERVED" => res'[q].external = res[q].external
                 /\ ~(res[q].status = "RESERVED" /\ res[q].external /\ res'[q].status = "CANCELLED")
      BY <1>2 DEF SamePlace
    <2>4. UNCHANGED <<calendar, abandoned>> /\ moved \subseteq moved'
      BY <1>2, <2>2
    <2> QED
      BY <1>3, <2>1, <2>3, <2>4, CalendarAlone
  <1> QED
    BY <1>4, <1>5

\* The answer is written down.  If the reservation was cancelled meanwhile the event is
\* removed; if it has another time it was moved.
LEMMA RecordCalendar ==
    ASSUME RInv, CInv, RNext, NEW h \in Handlers, SyncRecord(h) PROVE CInv'
  <1> USE DEF RInv
  <1>1. PICK r : r = job[h].res
    OBVIOUS
  <1>2. r \in Reservations /\ job[h].pc = "record" /\ res[r] \in ReservationRow
    BY <1>1 DEF SyncRecord, Targets, RTypeOK
  <1>3. UNCHANGED <<calendar, abandoned>> /\ moved' = moved
    BY DEF SyncRecord
  <1>4. JobFits(h) /\ EventFits(r)
    BY <1>2 DEF CInv
  <1>5. res[r].status \in Once
    BY <1>1, <1>2, <1>4 DEF JobFits
  <1>6. r \notin moved => job[h].start = res[r].start /\ job[h].end = res[r].end
    BY <1>1, <1>2, <1>4 DEF JobFits
  <1>7. CASE /\ res' = [res EXCEPT ![r].external = TRUE, ![r].calendar_status = "CONFIRMED"]
             /\ res[r].status = "RESERVED" /\ Done(h)
    <2>1. Others(h) /\ JobFits(h)'
      BY <1>7, DoneJob DEF JobFits
    <2>2. \A q \in Reservations \ {r} : res'[q] = res[q]
      BY <1>2, <1>7 DEF RTypeOK
    <2>3. SamePlace(r) /\ res'[r].status = "RESERVED" /\ res'[r].external
      BY <1>2, <1>7 DEF RTypeOK, ReservationRow, SamePlace
    <2>4. EventFits(r)'
      BY <2>3 DEF EventFits, Once
    <2>5. /\ \A q \in Reservations \ {r} : calendar'[q] = calendar[q] /\ res'[q] = res[q]
          /\ \A q \in Reservations : SamePlace(q)
          /\ abandoned \subseteq abandoned'
      BY <1>3, <2>2, <2>3 DEF SamePlace
    <2> QED
      BY <1>1, <1>2, <1>3, <2>1, <2>4, <2>5, CallCalendar
  <1>8. CASE /\ UNCHANGED res
             /\ \/ res[r].status # "RESERVED"
                \/ job[h].start # res[r].start \/ job[h].end # res[r].end
             /\ IF res[r].status = "CANCELLED" THEN StartOver(h, "release", r) ELSE Done(h)
    <2>1. /\ \A q \in Reservations \ {r} : calendar'[q] = calendar[q] /\ res'[q] = res[q]
          /\ \A q \in Reservations : SamePlace(q)
          /\ abandoned \subseteq abandoned' /\ res'[r] = res[r]
      BY <1>3, <1>8 DEF SamePlace
    <2>2. CASE res[r].status = "CANCELLED"
      <3>1. job'[h].pc = "release" /\ job'[h].res = r /\ Others(h)
        BY <1>8, <2>2, StartJob
      <3>2. JobFits(h)'
        BY <2>1, <2>2, <3>1 DEF JobFits
      <3>3. Minded(r)'
        BY <3>1 DEF Minded, Minds, Minding
      <3>4. EventFits(r)'
        BY <2>1, <2>2, <3>3 DEF EventFits, Once
      <3> QED
        BY <1>1, <1>2, <1>3, <2>1, <3>1, <3>2, <3>4, CallCalendar
    <2>3. CASE res[r].status # "CANCELLED"
      <3>1. Others(h) /\ JobFits(h)'
        BY <1>8, <2>3, DoneJob DEF JobFits
      <3>2. r \in moved'
        BY <1>3, <1>5, <1>6, <1>8, <2>3 DEF Once
      <3>3. EventFits(r)'
        BY <1>5, <2>1, <3>2 DEF EventFits
      <3> QED
        BY <1>1, <1>2, <1>3, <2>1, <3>1, <3>3, CallCalendar
    <2> QED
      BY <2>2, <2>3
  <1> QED
    BY <1>1, <1>7, <1>8 DEF SyncRecord

\* Every step keeps the calendar's invariant.
LEMMA NextCalendar == RInv /\ CInv /\ [RNext]_rvars => CInv'
  <1> SUFFICES ASSUME RInv, CInv, [RNext]_rvars PROVE CInv'
    OBVIOUS
  <1>1. CASE UNCHANGED rvars
    BY <1>1 DEF rvars, CInv, JobFits, EventFits, Minded, Minds
  <1>2. CASE RNext
    <2>1. ASSUME NEW h \in Handlers, HandlerStep(h) \/ HandlerCrash(h) PROVE CInv'
      BY <1>2, <2>1, BeginCalendar, CommitCalendar, MoveCalendar, ReadCalendar, CallsCalendar,
         RecordCalendar, CrashCalendar DEF HandlerStep
    <2>2. ASSUME NEW h \in Handlers,
                 \/ \E e \in Evidence, a \in Amounts : AcceptCheck(h, e, a)
                 \/ \E r \in Reservations, s \in Slots : ScheduleCheck(h, r, s)
                 \/ \E r \in Reservations : RetryCalendar(h, r)
          PROVE  CInv'
      BY <1>2, <2>2, BeginCalendar
    <2>3. ASSUME NEW h \in Handlers, NEW r \in Reservations, CancelReservation(h, r) PROVE CInv'
      BY <1>2, <2>3, CancelCalendar
    <2>4. CASE \E r \in Reservations, c \in Customers, p \in Plans, s \in Slots :
                  CreatePendingReservation(r, c, p, s) \/ CreateManualReservation(r, c, p, s)
      BY <1>2, <2>4, QuietCalendar DEF CreatePendingReservation, CreateManualReservation
    <2>5. CASE \/ \E e \in Evidence, c \in Customers : ReceiveEvidence(e, c)
               \/ \E e \in Evidence : DownloadSettles(e) \/ RejectPayment(e)
               \/ ExpirePendingReservations
               \/ \E p \in Plans, f \in PlanSettings : UpdatePlan(p, f)
               \/ (\E b \in BusySlots : StaffEvent(b)) \/ Tick
      BY <1>2, <2>5, QuietCalendar
    <2> QED
      BY <1>2, <2>1, <2>2, <2>3, <2>4, <2>5 DEF RNext
  <1> QED
    BY <1>1, <1>2

(***************************************************************************)
(* Theorems                                                                *)
(***************************************************************************)
LEMMA ReservationInvariant == RSpec => []RInv
  BY InitInv, NextInv, PTL DEF RSpec

\* Every table of the booking module keeps its columns' types, through every
\* interleaving of panel requests, receipts, crashes and calendar failures.
THEOREM ReservationTypes == RSpec => []RTypeOK
  <1>1. RInv => RTypeOK
    BY DEF RInv
  <1> QED
    BY <1>1, ReservationInvariant, PTL

\* The advisory lock of settlement.py is enough: however many acceptances and
\* reschedulings race for a slot, two confirmed reservations clash only if a plan
\* was edited after the slot was checked.
THEOREM SlotsAreExclusive == RSpec => []NoDoubleBooking
  <1>1. RInv => NoDoubleBooking
    BY DEF RInv
  <1> QED
    BY <1>1, ReservationInvariant, PTL

\* attach, accept and reject keep the status in step with the receipts, so the
\* hourly scan never expires a request whose money is being reviewed.
THEOREM ReviewStopsExpiry == RSpec => []NoExpiryUnderReview
  <1>1. RInv => NoExpiryUnderReview
    BY DEF RInv, NothingToReview, NoExpiryUnderReview
  <1> QED
    BY <1>1, ReservationInvariant, PTL

\* accept_payment confirms only a reservation that has its deposit, and its later
\* payments, reschedulings and races never leave the balance, its kind and its date
\* at odds.
THEOREM MoneyAddsUp == RSpec => []ConfirmedIsPaid
  <1>1. RInit => ConfirmedIsPaid
    BY DEF RInit, NoRow, ConfirmedIsPaid
  <1>2. RInv /\ ConfirmedIsPaid /\ [RNext]_rvars => ConfirmedIsPaid'
    BY NextPaid
  <1> QED
    BY <1>1, <1>2, ReservationInvariant, PTL DEF RSpec

\* A reservation's row agrees with its receipts (settlement.py, booking.py and the payment routes):
\* whatever receipts, acceptances, rejections and crashes interleave, what it says has been paid
\* is the sum of its accepted receipts, it is confirmed only if that covers the deposit, and it
\* does not expire while a receipt is under review.
THEOREM MoneyIsAccountedFor == RSpec => []RowAgreesWithReceipts
  <1>1. RInit => Counted
    <2> SUFFICES ASSUME RInit, NEW r \in Reservations
                 PROVE  /\ IsFiniteSet(AcceptedEvidence(r)) /\ AcceptedEvidence(r) = {}
                        /\ res[r].paid = SumFunctionOnSet(Amounted, AcceptedEvidence(r))
      BY DEF Counted
    <2>1. AcceptedEvidence(r) = {} /\ res[r].paid = 0
      BY DEF RInit, AcceptedEvidence, NoEvidenceRow, NoRow
    <2>2. IsFiniteSet({}) /\ SumFunctionOnSet(Amounted, {}) = 0
      BY FS_EmptySet, SumEmpty
    <2> QED
      BY <2>1, <2>2
  <1>2. RInv /\ Counted /\ [RNext]_rvars => Counted'
    BY NextCounted
  <1>3. Counted => PaidIsSumOfAccepted
    BY DEF Counted, PaidIsSumOfAccepted, Amounted
  <1>4. RSpec => []PaidIsSumOfAccepted
    BY <1>1, <1>2, <1>3, ReservationInvariant, PTL DEF RSpec
  <1> QED
    BY <1>4, ReservationTypes, MoneyAddsUp, ReviewStopsExpiry, PTL DEF RowAgreesWithReceipts

\* transition_reservation never refuses a handler: in particular an acceptance
\* always finds its reservation in review, or confirmed.
THEOREM MatrixIsFollowed == RSpec => StatusFollowsMatrix
  <1>1. RInv /\ [RNext]_rvars =>
           [\A r \in Reservations : res[r].status \notin {"ABSENT", res'[r].status} =>
                res'[r].status \in RESERVATION_TRANSITIONS[res[r].status]]_rvars
    BY NextOnMatrix DEF OnMatrix
  <1> QED
    BY <1>1, ReservationInvariant, PTL DEF RSpec, StatusFollowsMatrix

\* Cancellation, confirmation and retries of one reservation may overlap in any way: the event
\* of a cancelled reservation that was not given another time is not forgotten, unless a
\* calendar call failed or a process died (sync_reservation_calendar and
\* release_reservation_calendar).
THEOREM EventsReleased == RSpec => []UnmovedNotOrphaned
  <1>1. RInit => CInv
    BY DEF RInit, CInv, JobFits, EventFits, Idle, NoEvent
  <1>2. CInv => UnmovedNotOrphaned
    <2> SUFFICES ASSUME CInv, NEW r \in Reservations \ moved, res[r].status = "CANCELLED",
                        calendar[r].kind = "EVENT", r \notin abandoned
                 PROVE  Working(r) # {}
      BY DEF UnmovedNotOrphaned, NotOrphaned
    <2>1. Minded(r)
      BY DEF CInv, EventFits
    <2> QED
      BY <2>1 DEF Minded, Minds, Minding, Working
  <1> QED
    BY <1>1, <1>2, NextCalendar, ReservationInvariant, PTL DEF RSpec
=============================================================================
