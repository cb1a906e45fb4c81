------------------------- MODULE AppointmentsProofs -------------------------
(***************************************************************************)
(* Proofs about Appointments: rows and calendar agree about the visits     *)
(* nobody disturbed, and no late settlement brings a cancelled visit back. *)
(* For any number of visits, customers and calls in progress, any agenda   *)
(* and any failures.                                                       *)
(*                                                                         *)
(* That they agree is not inductive, since a call writes the calendar and  *)
(* the row in different steps.  The strengthening says, one visit at a     *)
(* time, what each step of a call has already done.                        *)
(***************************************************************************)
EXTENDS Appointments, TLAPS

Row == [status : APPOINTMENT_STATUSES \cup {"ABSENT"}, customer : Customers, slot : Nat,
        external : BOOLEAN, flagged : BOOLEAN, remind_at : Int \cup {NoTime}, reminded : BOOLEAN]
EventRow == [kind : {"ABSENT", "EVENT", "DELETED"}, slot : Nat]
CallRow == [pc : Steps, op : {"NONE", "CONFIRM", "RESCHEDULE", "CANCEL"},
            id : Visits \cup {NoVisit}, slot : Nat, previous : Nat]

\* A call has its visit from the moment the row is inserted or offered, and its steps are
\* those of its operation.
CallOK(k) ==
    /\ k.id = NoVisit <=> k.pc \in {"idle", "insert"}
    /\ k.pc \in {"insert", "create", "confirm"} => k.op = "CONFIRM"
    /\ k.pc \in {"check", "move", "settle"} => k.op = "RESCHEDULE"
    /\ k.pc \in {"delete", "cancel"} => k.op = "CANCEL"
    /\ k.pc = "chosen" => k.op \in {"RESCHEDULE", "CANCEL"}
    /\ k.pc = "flag" => k.op \in {"CONFIRM", "CANCEL"}

Marked(v) == visit[v].flagged \/ v \in adrift

\* Nobody works on a row that was not inserted.
Fresh(v) == visit[v].status = "ABSENT" =>
    event[v] = Absent /\ \A c \in Callers : call[c].id # v

\* A call that confirms the visit has it for itself, and its event follows its steps.
Confirms(v, c) ==
    /\ \A d \in Callers : call[d].id = v => d = c
    /\ visit[v].status = "PENDING_CONFIRMATION" /\ call[c].slot = visit[v].slot
    /\ call[c].pc = "create" => event[v] = Absent
    /\ call[c].pc = "confirm" => event[v] = At(visit[v].slot)

\* A call that cancels the visit writes the row only once the event is gone.
Cancels(v, c) ==
    /\ call[c].op = "CANCEL"
    /\ call[c].pc = "cancel" => event[v].kind # "EVENT" \/ Marked(v)

CallsOf(v) == \A c \in Callers : call[c].id = v =>
    IF call[c].op = "CONFIRM" THEN Confirms(v, c) ELSE Cancels(v, c)

\* A visit that is still pending is being confirmed, or somebody was told; and what is
\* confirmed knows its event.
Pending(v) ==
    /\ visit[v].status = "PENDING_CONFIRMATION" => Confirming(v) \/ Marked(v)
    /\ visit[v].status \in {"CONFIRMED", "RESCHEDULED"} => visit[v].external

\* The event is where the row says, from the end of the confirmation to the delete request.
Placed(v) ==
    /\ event[v].kind = "EVENT" => event[v] = At(visit[v].slot)
    /\ Active(v) /\ ~Marked(v) /\ (\A c \in Callers : call[c].id = v => call[c].pc \in {"chosen", "delete"})
         => event[v].kind = "EVENT"
    /\ ~Active(v) /\ ~Marked(v) => event[v].kind # "EVENT"

VisitOK(v) == Fresh(v) /\ (v \notin disturbed => CallsOf(v) /\ Pending(v) /\ Placed(v))

\* The partial unique index.
OnePerSlot == \A v, w \in Visits : v # w /\ Active(v) /\ Active(w) => visit[v].slot # visit[w].slot

CallsOK == \A c \in Callers : CallOK(call[c])
VisitsOK == \A v \in Visits : VisitOK(v)

\* The inductive invariant.
AInv == ATypeOK /\ CallsOK /\ VisitsOK /\ OnePerSlot

\* What is used of the constants.
LEMMA Constants ==
    /\ NoVisit \notin Visits /\ DayLen \in Nat /\ 0 < DayLen /\ ReminderHour \in Nat
    /\ Slots \subseteq Nat /\ NoTime \notin Int
    /\ \A c \in Callers : CustomerOf[c] \in Customers
  BY AppointmentsAssumption

\* A call is a call record whose step fits its operation.
LEMMA CallFacts ==
    ASSUME AInv, NEW c \in Callers PROVE call[c] \in CallRow /\ CallOK(call[c])
  BY DEF AInv, ATypeOK, CallRow, CallsOK

\* A visit has a row and an event of their types, and the invariant of one visit.
LEMMA RowFacts ==
    ASSUME AInv, NEW v \in Visits
    PROVE  visit[v] \in Row /\ event[v] \in EventRow /\ VisitOK(v)
  BY DEF AInv, ATypeOK, Row, EventRow, VisitsOK

\* A call that ended works on no visit.
LEMMA IdleOK == Idle \in CallRow /\ CallOK(Idle) /\ Idle.id = NoVisit /\ Idle.pc = "idle"
  BY DEF Idle, CallRow, Steps, CallOK

\* The three kinds of calendar entry are entries.
LEMMA EventFacts ==
    /\ Absent \in EventRow /\ Absent.kind = "ABSENT"
    /\ Deleted \in EventRow /\ Deleted.kind = "DELETED"
    /\ \A s \in Nat : At(s) \in EventRow /\ At(s).kind = "EVENT"
  BY DEF Absent, Deleted, At, EventRow

\* A step of call c that writes at most the row and the event of visit v.
Writes(c, v, k, row, e) ==
    /\ call' = [call EXCEPT ![c] = k]
    /\ visit' = [visit EXCEPT ![v] = row]
    /\ event' = [event EXCEPT ![v] = e]
    /\ adrift' \in {adrift, adrift \cup {v}} /\ disturbed' \in {disturbed, disturbed \cup {v}}
    /\ UNCHANGED <<busy, holidays, blocked, now>>
    /\ call[c].id \in {v, NoVisit} /\ k.id \in {v, NoVisit}

\* What a step that writes one call, one row and one event leaves alone.
LEMMA WritesFacts ==
    ASSUME ATypeOK, NEW c \in Callers, NEW v \in Visits, NEW k \in CallRow, NEW row \in Row,
           NEW e \in EventRow, Writes(c, v, k, row, e)
    PROVE  /\ ATypeOK'
           /\ visit'[v] = row /\ event'[v] = e /\ call'[c] = k
           /\ \A w \in Visits \ {v} : visit'[w] = visit[w] /\ event'[w] = event[w]
           /\ \A d \in Callers \ {c} : call'[d] = call[d]
  <1>1. visit \in [Visits -> Row] /\ event \in [Visits -> EventRow] /\ call \in [Callers -> CallRow]
      BY DEF ATypeOK, Row, EventRow, CallRow
  <1>2. visit' \in [Visits -> Row] /\ event' \in [Visits -> EventRow] /\ call' \in [Callers -> CallRow]
      BY <1>1 DEF Writes
  <1>3. adrift' \subseteq Visits /\ disturbed' \subseteq Visits
      BY DEF Writes, ATypeOK
  <1>4. UNCHANGED <<busy, holidays, blocked, now>>
      BY DEF Writes
  <1>5. ATypeOK'
      BY <1>2, <1>3, <1>4 DEF ATypeOK, Row, EventRow, CallRow
  <1>6. visit'[v] = row /\ event'[v] = e /\ call'[c] = k
      BY <1>1 DEF Writes
  <1>7. \A w \in Visits \ {v} : visit'[w] = visit[w] /\ event'[w] = event[w]
      BY <1>1 DEF Writes
  <1>8. \A d \in Callers \ {c} : call'[d] = call[d]
      BY <1>1 DEF Writes
  <1> QED
      BY <1>5, <1>6, <1>7, <1>8

\* What is known of a visit depends on its row, its event, its marks and its calls only.
LEMMA VisitFrame ==
    ASSUME NEW w \in Visits, VisitOK(w), event'[w] = event[w],
           visit'[w].status = visit[w].status, visit'[w].slot = visit[w].slot,
           visit'[w].external = visit[w].external, visit'[w].flagged = visit[w].flagged,
           w \in adrift' <=> w \in adrift, w \in disturbed' <=> w \in disturbed,
           \A d \in Callers : call'[d].id = w \/ call[d].id = w => call'[d] = call[d]
    PROVE  VisitOK(w)'
  <1>1. Marked(w)' <=> Marked(w)
      BY DEF Marked
  <1>2. Active(w)' <=> Active(w)
      BY DEF Active
  <1>3. Fresh(w)'
      BY DEF Fresh, VisitOK
  <1>4. CASE w \in disturbed
      BY <1>3, <1>4 DEF VisitOK
  <1>5. CASE w \notin disturbed
    <2>1. CallsOf(w) /\ Pending(w) /\ Placed(w)
        BY <1>5 DEF VisitOK
    <2>2. CallsOf(w)'
      <3> SUFFICES ASSUME NEW c \in Callers, call'[c].id = w
                   PROVE  (IF call[c].op = "CONFIRM" THEN Confirms(w, c) ELSE Cancels(w, c))'
          BY DEF CallsOf
      <3>1. call'[c] = call[c] /\ call[c].id = w
          OBVIOUS
      <3>2. CASE call[c].op = "CONFIRM"
        <4>1. Confirms(w, c)
            BY <2>1, <3>1, <3>2 DEF CallsOf
        <4>2. Confirms(w, c)'
            BY <3>1, <4>1 DEF Confirms
        <4> QED
            BY <3>1, <3>2, <4>2
      <3>3. CASE call[c].op # "CONFIRM"
        <4>1. Cancels(w, c)
            BY <2>1, <3>1, <3>3 DEF CallsOf
        <4>2. Cancels(w, c)'
            BY <1>1, <3>1, <4>1 DEF Cancels
        <4> QED
            BY <3>1, <3>3, <4>2
      <3> QED
          BY <3>2, <3>3
    <2>3. Confirming(w) => Confirming(w)'
        BY DEF Confirming
    <2>4. Pending(w)'
        BY <1>1, <2>1, <2>3 DEF Pending
    <2>5. Placed(w)'
        BY <1>1, <1>2, <2>1 DEF Placed
    <2> QED
        BY <1>3, <2>2, <2>4, <2>5 DEF VisitOK
  <1> QED
      BY <1>4, <1>5

\* A step of a call keeps the invariant if it keeps what is known of its own visit.
LEMMA StepKeeps ==
    ASSUME AInv, NEW c \in Callers, NEW v \in Visits, NEW k \in CallRow, NEW row \in Row,
           NEW e \in EventRow, Writes(c, v, k, row, e), CallOK(k), VisitOK(v)',
           row.status \in ACTIVE_APPOINTMENT_STATUSES =>
              \A w \in Visits \ {v} : Active(w) => visit[w].slot # row.slot
    PROVE  AInv'
  <1>1. /\ ATypeOK' /\ visit'[v] = row /\ call'[c] = k
        /\ \A w \in Visits \ {v} : visit'[w] = visit[w] /\ event'[w] = event[w]
        /\ \A d \in Callers \ {c} : call'[d] = call[d]
      BY WritesFacts DEF AInv
  <1>2. CallsOK'
    <2> SUFFICES ASSUME NEW d \in Callers PROVE CallOK(call'[d])
        BY DEF CallsOK, CallOK
    <2> QED
        BY <1>1, CallFacts
  <1>3. ASSUME NEW w \in Visits, w # v PROVE VisitOK(w)'
    <2>1. VisitOK(w) /\ visit'[w] = visit[w] /\ event'[w] = event[w]
        BY <1>1, <1>3, RowFacts
    <2>2. (w \in adrift' <=> w \in adrift) /\ (w \in disturbed' <=> w \in disturbed)
        BY <1>3 DEF Writes
    <2>3. call[c].id # w /\ call'[c].id # w
        BY <1>1, <1>3, Constants DEF Writes
    <2>4. \A d \in Callers : call'[d].id = w \/ call[d].id = w => call'[d] = call[d]
        BY <1>1, <2>3
    <2> QED
        BY <2>1, <2>2, <2>4, VisitFrame
  <1>4. OnePerSlot'
    <2> SUFFICES ASSUME NEW w \in Visits, NEW x \in Visits, w # x, Active(w)', Active(x)'
                 PROVE  visit'[w].slot # visit'[x].slot
        BY DEF OnePerSlot
    <2>1. CASE w # v /\ x # v
        BY <1>1, <2>1 DEF AInv, OnePerSlot, Active
    <2>2. CASE w = v
      <3>1. x # v /\ visit'[x] = visit[x] /\ Active(x) /\ row.status \in ACTIVE_APPOINTMENT_STATUSES
          BY <1>1, <2>2 DEF Active
      <3> QED
          BY <1>1, <2>2, <3>1
    <2>3. CASE x = v
      <3>1. w # v /\ visit'[w] = visit[w] /\ Active(w) /\ row.status \in ACTIVE_APPOINTMENT_STATUSES
          BY <1>1, <2>3 DEF Active
      <3> QED
          BY <1>1, <2>3, <3>1
    <2> QED
        BY <2>1, <2>2, <2>3
  <1> QED
      BY <1>1, <1>2, <1>3, <1>4 DEF AInv, VisitsOK

\* A call without a visit takes a step.
LEMMA CallAloneKeeps ==
    ASSUME AInv, NEW c \in Callers, NEW k \in CallRow, CallOK(k), call[c].id = NoVisit, k.id = NoVisit,
           call' = [call EXCEPT ![c] = k],
           UNCHANGED <<visit, event, busy, holidays, blocked, now, adrift, disturbed>>
    PROVE  AInv'
  <1>1. call \in [Callers -> CallRow]
      BY DEF AInv, ATypeOK, CallRow
  <1>2. call' \in [Callers -> CallRow] /\ call'[c] = k /\ \A d \in Callers \ {c} : call'[d] = call[d]
      BY <1>1
  <1>3. ATypeOK'
      BY <1>2 DEF AInv, ATypeOK, CallRow
  <1>4. CallsOK'
    <2> SUFFICES ASSUME NEW d \in Callers PROVE CallOK(call'[d])
        BY DEF CallsOK, CallOK
    <2> QED
        BY <1>2, CallFacts
  <1>5. ASSUME NEW w \in Visits PROVE VisitOK(w)'
    <2>1. VisitOK(w)
        BY RowFacts
    <2>2. \A d \in Callers : call'[d].id = w \/ call[d].id = w => call'[d] = call[d]
        BY <1>2, Constants
    <2> QED
        BY <2>1, <2>2, VisitFrame
  <1>6. OnePerSlot'
      BY DEF AInv, OnePerSlot, Active
  <1> QED
      BY <1>3, <1>4, <1>5, <1>6 DEF AInv, VisitsOK

\* The invariant holds at the start.
LEMMA InitOK == AInit => AInv
  <1> SUFFICES ASSUME AInit PROVE AInv
      OBVIOUS
  <1>1. NoRow \in Row /\ NoRow.status = "ABSENT"
    <2>1. (CHOOSE c \in Customers : TRUE) \in Customers
        BY AppointmentsAssumption
    <2> QED
        BY <2>1 DEF NoRow, Row
  <1>2. visit \in [Visits -> Row] /\ \A v \in Visits : visit[v].status = "ABSENT"
      BY <1>1 DEF AInit
  <1>3. event \in [Visits -> EventRow] /\ \A v \in Visits : event[v] = Absent
      BY EventFacts DEF AInit
  <1>4. call \in [Callers -> CallRow] /\ \A c \in Callers : call[c] = Idle
      BY IdleOK DEF AInit
  <1>5. ATypeOK
      BY <1>2, <1>3, <1>4 DEF AInit, ATypeOK, Row, EventRow, CallRow
  <1>6. CallsOK
      BY <1>4, IdleOK DEF CallsOK
  <1>7. ASSUME NEW v \in Visits PROVE VisitOK(v)
    <2>1. \A c \in Callers : call[c].id # v
        BY <1>4, IdleOK, Constants
    <2>2. ~Active(v)
        BY <1>2 DEF Active, ACTIVE_APPOINTMENT_STATUSES
    <2>3. event[v] = Absent /\ event[v].kind # "EVENT" /\ visit[v].status = "ABSENT"
        BY <1>2, <1>3, EventFacts
    <2> QED
        BY <2>1, <2>2, <2>3 DEF VisitOK, Fresh, CallsOf, Pending, Placed
  <1>8. OnePerSlot
      BY <1>2 DEF OnePerSlot, Active, ACTIVE_APPOINTMENT_STATUSES
  <1> QED
      BY <1>5, <1>6, <1>7, <1>8 DEF AInv, VisitsOK

(***************************************************************************)
(* confirm_appointment                                                     *)
(***************************************************************************)

\* The slot is checked.
LEMMA ConfirmCheckKeeps ==
    ASSUME AInv, NEW c \in Callers, NEW s \in Slots, ConfirmCheck(c, s) PROVE AInv'
  <1>1. PICK k : k = [Idle EXCEPT !.pc = "insert", !.op = "CONFIRM", !.slot = s]
      OBVIOUS
  <1>2. k \in CallRow /\ k.pc = "insert" /\ k.op = "CONFIRM" /\ k.id = NoVisit
      BY <1>1, Constants DEF Idle, CallRow, Steps
  <1>3. CallOK(k)
      BY <1>2 DEF CallOK
  <1>4. call[c].id = NoVisit
      BY CallFacts DEF ConfirmCheck, Running, CallOK
  <1>5. call' = [call EXCEPT ![c] = k]
      BY <1>1 DEF ConfirmCheck
  <1>6. UNCHANGED <<visit, event, busy, holidays, blocked, now, adrift, disturbed>>
      BY DEF ConfirmCheck
  <1> QED
      BY <1>2, <1>3, <1>4, <1>5, <1>6, CallAloneKeeps

\* The row is inserted, or the partial unique index refuses it.
LEMMA ConfirmInsertKeeps ==
    ASSUME AInv, NEW c \in Callers, ConfirmInsert(c) PROVE AInv'
  <1>1. PICK o : o = call[c]
      OBVIOUS
  <1>2. o \in CallRow /\ o.pc = "insert" /\ o.op = "CONFIRM" /\ o.id = NoVisit /\ o.slot \in Nat
      BY <1>1, CallFacts DEF ConfirmInsert, Running, CallOK, CallRow
  <1>3. PICK v \in NextVisit :
            IF SlotFree(v, o.slot)
            THEN /\ visit' = [visit EXCEPT ![v] = NewVisit(c)]
                 /\ call' = [call EXCEPT ![c].pc = "create", ![c].id = v]
            ELSE Finish(c) /\ UNCHANGED visit
      BY <1>1 DEF ConfirmInsert
  <1>4. v \in Visits /\ visit[v].status = "ABSENT"
      BY DEF NextVisit
  <1>5. UNCHANGED <<event, busy, holidays, blocked, now, adrift, disturbed>>
      BY DEF ConfirmInsert
  <1>6. CASE ~SlotFree(v, o.slot)
    <2>1. call' = [call EXCEPT ![c] = Idle] /\ UNCHANGED visit
        BY <1>3, <1>6 DEF Finish
    <2> QED
        BY <1>1, <1>2, <1>5, <2>1, IdleOK, CallAloneKeeps
  <1>7. CASE SlotFree(v, o.slot)
    <2>1. PICK k : k = [o EXCEPT !.pc = "create", !.id = v]
        OBVIOUS
    <2>2. k \in CallRow /\ k.pc = "create" /\ k.op = "CONFIRM" /\ k.id = v /\ k.slot = o.slot
        BY <1>2, <1>4, <2>1 DEF CallRow, Steps
    <2>3. CallOK(k)
        BY <1>4, <2>2, Constants DEF CallOK
    <2>4. PICK row : row = NewVisit(c)
        OBVIOUS
    <2>5. row \in Row /\ row.status = "PENDING_CONFIRMATION" /\ row.slot = o.slot
      <3>1. PICK p : p = CustomerOf[c]
          OBVIOUS
      <3>2. p \in Customers
          BY <3>1, Constants
      <3>3. PICK s : s = o.slot
          OBVIOUS
      <3>4. row = [NoRow EXCEPT !.status = "PENDING_CONFIRMATION", !.customer = p, !.slot = s]
          BY <1>1, <2>4, <3>1, <3>3 DEF NewVisit
      <3> QED
          BY <1>2, <3>2, <3>3, <3>4 DEF NoRow, Row, APPOINTMENT_STATUSES, ACTIVE_APPOINTMENT_STATUSES
    <2>6. PICK e : e = event[v]
        OBVIOUS
    <2>7. e \in EventRow /\ e = Absent /\ \A d \in Callers : call[d].id # v
        BY <1>4, <2>6, RowFacts DEF VisitOK, Fresh
    <2>8. event' = [event EXCEPT ![v] = e]
        BY <1>5, <2>6 DEF AInv, ATypeOK
    <2>9. call' = [call EXCEPT ![c] = k]
        BY <1>1, <1>3, <1>7, <2>1 DEF AInv, ATypeOK
    <2>10. visit' = [visit EXCEPT ![v] = row]
        BY <1>3, <1>7, <2>4
    <2>11. Writes(c, v, k, row, e)
        BY <1>1, <1>2, <1>5, <2>2, <2>8, <2>9, <2>10 DEF Writes
    <2>12. /\ visit'[v] = row /\ event'[v] = e /\ call'[c] = k
           /\ \A d \in Callers \ {c} : call'[d] = call[d]
        BY <1>4, <2>2, <2>5, <2>7, <2>11, WritesFacts DEF AInv
    <2>13. \A d \in Callers : call'[d].id = v => d = c
        BY <2>7, <2>12
    <2>14. VisitOK(v)'
      <3>1. Fresh(v)'
          BY <2>5, <2>12 DEF Fresh
      <3>2. CallsOf(v)'
          BY <2>2, <2>5, <2>7, <2>12, <2>13 DEF CallsOf, Confirms
      <3>3. Pending(v)'
          BY <2>2, <2>5, <2>12 DEF Pending, Confirming
      <3>4. Placed(v)'
          BY <2>2, <2>7, <2>12, EventFacts DEF Placed
      <3> QED
          BY <3>1, <3>2, <3>3, <3>4 DEF VisitOK
    <2>15. \A w \in Visits \ {v} : Active(w) => visit[w].slot # row.slot
        BY <1>7, <2>5 DEF SlotFree
    <2> QED
        BY <1>4, <2>2, <2>3, <2>5, <2>7, <2>11, <2>14, <2>15, StepKeeps
  <1> QED
      BY <1>6, <1>7

\* The visit of a call that has one.
LEMMA VisitOfCall ==
    ASSUME AInv, NEW c \in Callers, call[c].pc \notin {"idle", "insert"}
    PROVE  /\ call[c].id \in Visits /\ visit[call[c].id].status # "ABSENT"
           /\ call[c].op = "RESCHEDULE" => call[c].id \in disturbed
  <1>1. call[c] \in CallRow /\ CallOK(call[c])
      BY CallFacts
  <1>2. call[c].id \in Visits
      BY <1>1 DEF CallOK, CallRow
  <1>3. VisitOK(call[c].id)
      BY <1>2, RowFacts
  <1>4. visit[call[c].id].status # "ABSENT"
      BY <1>3 DEF VisitOK, Fresh
  <1>5. call[c].op = "RESCHEDULE" => call[c].id \in disturbed
      BY <1>3 DEF VisitOK, CallsOf, Cancels
  <1> QED
      BY <1>2, <1>4, <1>5

\* A row that keeps its slot and was active before stays alone in it.
LEMMA StaysAlone ==
    ASSUME AInv, NEW v \in Visits, NEW row, row.slot = visit[v].slot,
           row.status \in ACTIVE_APPOINTMENT_STATUSES => Active(v)
    PROVE  row.status \in ACTIVE_APPOINTMENT_STATUSES =>
              \A w \in Visits \ {v} : Active(w) => visit[w].slot # row.slot
  BY DEF AInv, OnePerSlot

\* Of a visit that was disturbed little has to be shown.
LEMMA DisturbedStep ==
    ASSUME AInv, NEW c \in Callers, NEW v \in Visits, NEW k \in CallRow, NEW row \in Row,
           NEW e \in EventRow, Writes(c, v, k, row, e), CallOK(k), v \in disturbed', row.status # "ABSENT",
           row.status \in ACTIVE_APPOINTMENT_STATUSES =>
              \A w \in Visits \ {v} : Active(w) => visit[w].slot # row.slot
    PROVE  AInv'
  <1>1. visit'[v] = row
      BY WritesFacts DEF AInv
  <1>2. VisitOK(v)'
      BY <1>1 DEF VisitOK, Fresh
  <1> QED
      BY <1>2, StepKeeps

\* What is known of the visit of a call that confirms it.
LEMMA ConfirmFacts ==
    ASSUME AInv, NEW c \in Callers, NEW v \in Visits, call[c].id = v, call[c].op = "CONFIRM", v \notin disturbed
    PROVE  Confirms(v, c) /\ Pending(v) /\ Placed(v)
  BY RowFacts DEF VisitOK, CallsOf

\* The event is created, or the calendar raises.
LEMMA ConfirmCreateKeeps ==
    ASSUME AInv, NEW c \in Callers, ConfirmCreate(c) PROVE AInv'
  <1>1. PICK q : q = call[c]
      OBVIOUS
  <1>2. q \in CallRow /\ q.pc = "create" /\ q.op = "CONFIRM" /\ CallOK(q)
      BY <1>1, CallFacts DEF ConfirmCreate, Running, CallOK
  <1>3. PICK v : v = q.id
      OBVIOUS
  <1>4. v \in Visits /\ visit[v].status # "ABSENT"
      BY <1>1, <1>2, <1>3, VisitOfCall
  <1>5. PICK o \in CreateOutcomes(event[v], q.slot) :
            event' = [event EXCEPT ![v] = o.event] /\ Goto(c, IF o.raised THEN "flag" ELSE "confirm")
      BY <1>1, <1>3 DEF ConfirmCreate
  <1>6. PICK e : e = o.event
      OBVIOUS
  <1>7. event[v] \in EventRow /\ visit[v] \in Row /\ q.slot \in Nat
      BY <1>2, <1>4, RowFacts DEF CallRow
  <1>8. /\ e \in {event[v], At(q.slot), Absent}
        /\ event[v] = Absent => e \in {At(q.slot), Absent} /\ (~o.raised => e = At(q.slot))
    <2>1. Absent.kind = "ABSENT"
        BY EventFacts
    <2> QED
        BY <1>5, <1>6, <2>1 DEF CreateOutcomes
  <1>9. e \in EventRow
      BY <1>7, <1>8, EventFacts
  <1>10. PICK p : p = IF o.raised THEN "flag" ELSE "confirm"
      OBVIOUS
  <1>11. p \in {"flag", "confirm"} /\ (p = "confirm" => ~o.raised)
      BY <1>10
  <1>12. PICK k : k = [q EXCEPT !.pc = p]
      OBVIOUS
  <1>13. k \in CallRow /\ k.pc = p /\ k.op = "CONFIRM" /\ k.id = v /\ k.slot = q.slot
      BY <1>2, <1>3, <1>11, <1>12 DEF CallRow, Steps
  <1>14. CallOK(k)
      BY <1>4, <1>11, <1>13, Constants DEF CallOK
  <1>15. PICK row : row = visit[v]
      OBVIOUS
  <1>16. UNCHANGED <<visit, busy, holidays, blocked, now, adrift, disturbed>>
      BY DEF ConfirmCreate
  <1>17. call' = [call EXCEPT ![c] = k]
      BY <1>1, <1>5, <1>10, <1>12 DEF Goto, AInv, ATypeOK
  <1>18. visit' = [visit EXCEPT ![v] = row]
      BY <1>15, <1>16 DEF AInv, ATypeOK
  <1>19. Writes(c, v, k, row, e)
      BY <1>1, <1>3, <1>5, <1>6, <1>13, <1>16, <1>17, <1>18 DEF Writes
  <1>20. /\ visit'[v] = row /\ event'[v] = e /\ call'[c] = k
         /\ \A d \in Callers \ {c} : call'[d] = call[d]
      BY <1>4, <1>7, <1>9, <1>13, <1>15, <1>19, WritesFacts DEF AInv
  <1>21. row.status \in ACTIVE_APPOINTMENT_STATUSES =>
            \A w \in Visits \ {v} : Active(w) => visit[w].slot # row.slot
      BY <1>4, <1>15, StaysAlone DEF Active
  <1>22. CASE v \in disturbed
      BY <1>4, <1>7, <1>9, <1>13, <1>14, <1>15, <1>16, <1>19, <1>21, <1>22, DisturbedStep
  <1>23. CASE v \notin disturbed
    <2>1. Confirms(v, c)
        BY <1>1, <1>2, <1>3, <1>4, <1>23, ConfirmFacts
    <2>2. row.status = "PENDING_CONFIRMATION" /\ q.slot = row.slot /\ event[v] = Absent
        BY <1>1, <1>2, <1>15, <2>1 DEF Confirms
    <2>3. \A d \in Callers : call'[d].id = v => d = c
        BY <1>20, <2>1 DEF Confirms
    <2>4. e \in {At(row.slot), Absent} /\ (p = "confirm" => e = At(row.slot))
        BY <1>8, <1>11, <2>2
    <2>5. Fresh(v)'
        BY <1>20, <2>2 DEF Fresh
    <2>6. CallsOf(v)'
        BY <1>11, <1>13, <1>20, <2>2, <2>3, <2>4 DEF CallsOf, Confirms
    <2>7. Pending(v)'
        BY <1>13, <1>20, <2>2 DEF Pending, Confirming
    <2>8. Placed(v)'
      <3>1. e.kind = "EVENT" => e = At(row.slot)
          BY <2>4, EventFacts
      <3>2. Active(v)'
          BY <1>20, <2>2 DEF Active, ACTIVE_APPOINTMENT_STATUSES
      <3>3. call'[c].id = v /\ call'[c].pc \notin {"chosen", "delete"}
          BY <1>11, <1>13, <1>20
      <3> QED
          BY <1>20, <3>1, <3>2, <3>3 DEF Placed
    <2>9. VisitOK(v)'
        BY <2>5, <2>6, <2>7, <2>8 DEF VisitOK
    <2> QED
        BY <1>4, <1>7, <1>9, <1>13, <1>14, <1>15, <1>19, <1>21, <2>9, StepKeeps
  <1> QED
      BY <1>22, <1>23

\* A call ends and leaves a mark: somebody has been asked to look at its visit.
LEMMA MarkedKeeps ==
    ASSUME AInv, NEW c \in Callers, NEW v \in Visits, call[c].id = v, visit[v].status # "ABSENT",
           NEW row \in Row, row.status = visit[v].status, row.slot = visit[v].slot,
           row.external = visit[v].external, Writes(c, v, Idle, row, event[v]),
           disturbed' = disturbed, Marked(v)'
    PROVE  AInv'
  <1>1. PICK e : e = event[v]
      OBVIOUS
  <1>2. e \in EventRow /\ VisitOK(v) /\ Writes(c, v, Idle, row, e)
      BY <1>1, RowFacts
  <1>3. /\ visit'[v] = row /\ event'[v] = e /\ call'[c] = Idle
        /\ \A d \in Callers \ {c} : call'[d] = call[d]
      BY <1>2, IdleOK, WritesFacts DEF AInv
  <1>4. row.status \in ACTIVE_APPOINTMENT_STATUSES =>
            \A w \in Visits \ {v} : Active(w) => visit[w].slot # row.slot
      BY StaysAlone DEF Active
  <1>5. CASE v \in disturbed
      BY <1>2, <1>4, <1>5, IdleOK, DisturbedStep
  <1>6. CASE v \notin disturbed
    <2>1. CallsOf(v) /\ Pending(v) /\ Placed(v)
        BY <1>2, <1>6 DEF VisitOK
    <2>2. CallsOf(v)'
      <3> SUFFICES ASSUME NEW d \in Callers, call'[d].id = v
                   PROVE  (IF call[d].op = "CONFIRM" THEN Confirms(v, d) ELSE Cancels(v, d))'
          BY DEF CallsOf
      <3>1. d # c /\ call'[d] = call[d] /\ call[d].id = v
          BY <1>3, IdleOK, Constants
      <3>2. CASE call[d].op = "CONFIRM"
        <4>1. Confirms(v, d)
            BY <2>1, <3>1, <3>2 DEF CallsOf
        <4> QED
            BY <3>1, <4>1 DEF Confirms
      <3>3. CASE call[d].op # "CONFIRM"
        <4>1. Cancels(v, d)
            BY <2>1, <3>1, <3>3 DEF CallsOf
        <4>2. Cancels(v, d)'
            BY <3>1, <4>1 DEF Cancels
        <4> QED
            BY <3>1, <3>3, <4>2
      <3> QED
          BY <3>2, <3>3
    <2>3. Pending(v)'
        BY <1>3, <2>1 DEF Pending
    <2>4. Placed(v)'
        BY <1>1, <1>3, <2>1 DEF Placed
    <2>5. Fresh(v)'
        BY <1>3 DEF Fresh
    <2>6. VisitOK(v)'
        BY <2>2, <2>3, <2>4, <2>5 DEF VisitOK
    <2> QED
        BY <1>2, <1>4, <2>6, IdleOK, StepKeeps
  <1> QED
      BY <1>5, <1>6

\* The row of a failed request is marked for reconciliation.
LEMMA MarkKeeps ==
    ASSUME AInv, NEW c \in Callers, MarkForReconciliation(c) PROVE AInv'
  <1>1. PICK v : v = call[c].id
      OBVIOUS
  <1>2. v \in Visits /\ visit[v].status # "ABSENT"
      BY <1>1, VisitOfCall DEF MarkForReconciliation, Running
  <1>3. PICK r : r = visit[v]
      OBVIOUS
  <1>4. PICK row : row = [r EXCEPT !.flagged = TRUE]
      OBVIOUS
  <1>5. r \in Row
      BY <1>2, <1>3, RowFacts
  <1>6. row \in Row /\ row.status = r.status /\ row.slot = r.slot /\ row.external = r.external /\ row.flagged
      BY <1>4, <1>5 DEF Row
  <1>7. visit' = [visit EXCEPT ![v] = row] /\ call' = [call EXCEPT ![c] = Idle]
      BY <1>1, <1>3, <1>4 DEF MarkForReconciliation, Finish, AInv, ATypeOK
  <1>8. UNCHANGED <<event, busy, holidays, blocked, now, adrift, disturbed>>
      BY DEF MarkForReconciliation
  <1>9. event' = [event EXCEPT ![v] = event[v]]
      BY <1>2, <1>8 DEF AInv, ATypeOK
  <1>10. Writes(c, v, Idle, row, event[v])
      BY <1>1, <1>7, <1>8, <1>9, IdleOK DEF Writes
  <1>11. Marked(v)'
    <2>1. visit'[v] = row
        BY <1>2, <1>6, <1>10, IdleOK, RowFacts, WritesFacts DEF AInv
    <2> QED
        BY <1>6, <2>1 DEF Marked
  <1> QED
      BY <1>1, <1>2, <1>3, <1>6, <1>8, <1>10, <1>11, MarkedKeeps

\* A call is given up: its visit is under review.
LEMMA AdriftKeeps ==
    ASSUME AInv, NEW c \in Callers, call[c].pc \notin {"idle", "insert"},
           adrift' = adrift \cup {call[c].id}, Finish(c),
           UNCHANGED <<visit, event, busy, holidays, blocked, now, disturbed>>
    PROVE  AInv'
  <1>1. PICK v : v = call[c].id
      OBVIOUS
  <1>2. v \in Visits /\ visit[v].status # "ABSENT"
      BY <1>1, VisitOfCall
  <1>3. PICK row : row = visit[v]
      OBVIOUS
  <1>4. row \in Row
      BY <1>2, <1>3, RowFacts
  <1>5. visit' = [visit EXCEPT ![v] = row] /\ event' = [event EXCEPT ![v] = event[v]]
      BY <1>2, <1>3 DEF AInv, ATypeOK
  <1>6. Writes(c, v, Idle, row, event[v])
      BY <1>1, <1>5, IdleOK DEF Writes, Finish
  <1>7. Marked(v)'
      BY <1>1 DEF Marked
  <1> QED
      BY <1>1, <1>2, <1>3, <1>4, <1>6, <1>7, MarkedKeeps

\* The worker dies with its call.
LEMMA CrashKeeps ==
    ASSUME AInv, NEW c \in Callers, CrashCall(c) PROVE AInv'
  <1>1. CallOK(call[c]) /\ call[c].pc # "idle"
      BY CallFacts DEF CrashCall, Running
  <1>2. CASE call[c].pc = "insert"
    <2>1. call[c].id = NoVisit
        BY <1>1, <1>2 DEF CallOK
    <2>2. call' = [call EXCEPT ![c] = Idle]
          /\ UNCHANGED <<visit, event, busy, holidays, blocked, now, adrift, disturbed>>
        BY <2>1 DEF CrashCall, Finish
    <2> QED
        BY <2>1, <2>2, IdleOK, CallAloneKeeps
  <1>3. CASE call[c].pc # "insert"
    <2>1. call[c].id # NoVisit
        BY <1>1, <1>3, Constants, VisitOfCall
    <2>2. adrift' = adrift \cup {call[c].id} /\ Finish(c)
          /\ UNCHANGED <<visit, event, busy, holidays, blocked, now, disturbed>>
        BY <2>1 DEF CrashCall
    <2> QED
        BY <1>1, <1>3, <2>2, AdriftKeeps
  <1> QED
      BY <1>2, <1>3

\* The row is confirmed, unless it changed meanwhile.
LEMMA ConfirmSettleKeeps ==
    ASSUME AInv, NEW c \in Callers, ConfirmSettle(c) PROVE AInv'
  <1>1. PICK q : q = call[c]
      OBVIOUS
  <1>2. q \in CallRow /\ q.pc = "confirm" /\ q.op = "CONFIRM"
      BY <1>1, CallFacts DEF ConfirmSettle, Running, CallOK
  <1>3. PICK v : v = q.id
      OBVIOUS
  <1>4. v \in Visits /\ visit[v].status # "ABSENT"
      BY <1>1, <1>2, <1>3, VisitOfCall
  <1>5. UNCHANGED <<event, busy, holidays, blocked, now, disturbed>>
      BY DEF ConfirmSettle
  <1>6. CASE ~Confirmable(v)
    <2>1. Refuse(c)
        BY <1>1, <1>3, <1>6 DEF ConfirmSettle
    <2> QED
        BY <1>1, <1>2, <1>5, <2>1, AdriftKeeps DEF Refuse
  <1>7. CASE Confirmable(v)
    <2>1. PICK r : r = visit[v]
        OBVIOUS
    <2>2. r \in Row /\ r.status = "PENDING_CONFIRMATION" /\ q.slot \in Nat
        BY <1>2, <1>4, <1>7, <2>1, RowFacts DEF Confirmable, CallRow
    <2>3. PICK t : t = reminder_at(q.slot)
        OBVIOUS
    <2>4. t \in Int
        BY <2>2, <2>3, Constants DEF reminder_at, Day
    <2>5. PICK row : row = [r EXCEPT !.status = "CONFIRMED", !.external = TRUE, !.remind_at = t,
                                     !.flagged = FALSE]
        OBVIOUS
    <2>6. row \in Row /\ row.status = "CONFIRMED" /\ row.external /\ row.slot = r.slot
        BY <2>2, <2>4, <2>5 DEF Row, APPOINTMENT_STATUSES, ACTIVE_APPOINTMENT_STATUSES
    <2>7. visit' = [visit EXCEPT ![v] = row] /\ call' = [call EXCEPT ![c] = Idle] /\ adrift' = adrift
      <3>1. /\ visit' = [visit EXCEPT ![v].status = "CONFIRMED", ![v].external = TRUE,
                                      ![v].remind_at = t, ![v].flagged = FALSE]
            /\ call' = [call EXCEPT ![c] = Idle] /\ adrift' = adrift
          BY <1>1, <1>3, <1>7, <2>3 DEF ConfirmSettle, Finish
      <3>2. visit \in [Visits -> Row]
          BY DEF AInv, ATypeOK, Row
      <3>3. visit' = [visit EXCEPT ![v] = row]
          BY <1>4, <2>1, <2>2, <2>5, <3>1, <3>2 DEF Row
      <3> QED
          BY <3>1, <3>3
    <2>8. PICK e : e = event[v]
        OBVIOUS
    <2>9. e \in EventRow /\ event' = [event EXCEPT ![v] = e]
        BY <1>4, <1>5, <2>8, RowFacts DEF AInv, ATypeOK
    <2>10. Writes(c, v, Idle, row, e)
        BY <1>1, <1>3, <1>5, <2>7, <2>9, IdleOK DEF Writes
    <2>11. /\ visit'[v] = row /\ event'[v] = e /\ call'[c] = Idle
           /\ \A d \in Callers \ {c} : call'[d] = call[d]
        BY <1>4, <2>6, <2>9, <2>10, IdleOK, WritesFacts DEF AInv
    <2>12. row.status \in ACTIVE_APPOINTMENT_STATUSES =>
              \A w \in Visits \ {v} : Active(w) => visit[w].slot # row.slot
      <3>1. Active(v) /\ row.slot = visit[v].slot
          BY <2>1, <2>2, <2>6 DEF Active, ACTIVE_APPOINTMENT_STATUSES
      <3> QED
          BY <1>4, <3>1, StaysAlone
    <2>13. CASE v \in disturbed
        BY <1>4, <1>5, <2>6, <2>9, <2>10, <2>12, <2>13, IdleOK, DisturbedStep
    <2>14. CASE v \notin disturbed
      <3>1. Confirms(v, c)
          BY <1>1, <1>2, <1>3, <1>4, <2>14, ConfirmFacts
      <3>2. e = At(row.slot)
          BY <1>1, <1>2, <2>1, <2>6, <2>8, <3>1 DEF Confirms
      <3>3. \A d \in Callers : call'[d].id # v
          BY <1>4, <2>11, <3>1, IdleOK, Constants DEF Confirms
      <3>4. Active(v)'
          BY <2>6, <2>11 DEF Active, ACTIVE_APPOINTMENT_STATUSES
      <3>5. e.kind = "EVENT"
          BY <2>2, <2>6, <3>2, EventFacts DEF Row
      <3>6. VisitOK(v)'
          BY <2>6, <2>11, <3>2, <3>3, <3>4, <3>5 DEF VisitOK, Fresh, CallsOf, Pending, Placed
      <3> QED
          BY <1>4, <2>6, <2>9, <2>10, <2>12, <3>6, IdleOK, StepKeeps
    <2> QED
        BY <2>13, <2>14
  <1> QED
      BY <1>6, <1>7

(***************************************************************************)
(* cancel_appointment                                                      *)
(***************************************************************************)

\* Nobody confirms an undisturbed visit that a call has been asked to cancel.
LEMMA NotConfirming ==
    ASSUME AInv, NEW c \in Callers, NEW v \in Visits, call[c].id = v, call[c].op = "CANCEL",
           v \notin disturbed
    PROVE  ~Confirming(v) /\ Cancels(v, c)
  <1>1. CallsOf(v)
      BY RowFacts DEF VisitOK
  <1>2. ASSUME NEW d \in Callers, call[d].id = v, call[d].op = "CONFIRM" PROVE FALSE
    <2>1. Confirms(v, d)
        BY <1>1, <1>2 DEF CallsOf
    <2>2. c = d
        BY <2>1 DEF Confirms
    <2> QED
        BY <1>2, <2>2
  <1>3. Cancels(v, c)
      BY <1>1 DEF CallsOf
  <1> QED
      BY <1>2, <1>3 DEF Confirming

\* A step of a call that is to cancel its visit.
LEMMA CancelStep ==
    ASSUME AInv, NEW c \in Callers, NEW v \in Visits, NEW k \in CallRow, NEW row \in Row,
           NEW e \in EventRow, Writes(c, v, k, row, e), CallOK(k), visit[v].status # "ABSENT",
           disturbed' = disturbed, adrift' = adrift, ~Confirming(v),
           row.slot = visit[v].slot, row.external = visit[v].external, row.flagged = visit[v].flagged,
           row.status \in {visit[v].status, "CANCELLED", "LATE_CANCEL"},
           k.id = v => k.op = "CANCEL" /\ (k.pc = "cancel" => e.kind # "EVENT" \/ Marked(v)),
           e.kind = "EVENT" => e = event[v],
           v \notin disturbed => Placed(v)'
    PROVE  AInv'
  <1>1. /\ visit'[v] = row /\ event'[v] = e /\ call'[c] = k
        /\ \A d \in Callers \ {c} : call'[d] = call[d]
      BY WritesFacts DEF AInv
  <1>2. row.status # "ABSENT"
      OBVIOUS
  <1>3. row.status \in ACTIVE_APPOINTMENT_STATUSES =>
            \A w \in Visits \ {v} : Active(w) => visit[w].slot # row.slot
    <2>1. row.status \in ACTIVE_APPOINTMENT_STATUSES => Active(v)
        BY DEF Active, ACTIVE_APPOINTMENT_STATUSES
    <2> QED
        BY <2>1, StaysAlone
  <1>4. CASE v \in disturbed
      BY <1>2, <1>3, <1>4, DisturbedStep
  <1>5. CASE v \notin disturbed
    <2>1. CallsOf(v) /\ Pending(v)
        BY <1>5, RowFacts DEF VisitOK
    <2>2. Marked(v)' <=> Marked(v)
        BY <1>1 DEF Marked
    <2>3. CallsOf(v)'
      <3> SUFFICES ASSUME NEW d \in Callers, call'[d].id = v
                   PROVE  (IF call[d].op = "CONFIRM" THEN Confirms(v, d) ELSE Cancels(v, d))'
          BY DEF CallsOf
      <3>1. CASE d = c
        <4>1. call'[d].op = "CANCEL" /\ Cancels(v, d)'
            BY <1>1, <2>2, <3>1 DEF Cancels
        <4> QED
            BY <4>1
      <3>2. CASE d # c
        <4>1. call'[d] = call[d] /\ call[d].id = v /\ call[d].op # "CONFIRM"
            BY <1>1, <3>2 DEF Confirming
        <4>2. Cancels(v, d)
            BY <2>1, <4>1 DEF CallsOf
        <4>3. Cancels(v, d)'
            BY <1>1, <2>2, <4>1, <4>2 DEF Cancels
        <4> QED
            BY <4>1, <4>3
      <3> QED
          BY <3>1, <3>2
    <2>4. Pending(v)'
        BY <1>1, <2>1, <2>2 DEF Pending
    <2>5. Fresh(v)'
        BY <1>1, <1>2 DEF Fresh
    <2>6. VisitOK(v)'
        BY <1>5, <2>3, <2>4, <2>5 DEF VisitOK
    <2> QED
        BY <1>3, <2>6, StepKeeps
  <1> QED
      BY <1>4, <1>5

\* The customer's only active visit is offered, to be moved or cancelled.
LEMMA OfferKeeps ==
    ASSUME AInv, NEW c \in Callers, NEW op \in {"RESCHEDULE", "CANCEL"}, OfferOnlyActive(c, op)
    PROVE  AInv'
  <1>1. PICK v \in Visits :
            /\ ActiveOf(CustomerOf[c]) = {v}
            /\ call' = [call EXCEPT ![c] = [Idle EXCEPT !.pc = "chosen", !.op = op, !.id = v]]
            /\ disturbed' = IF op = "RESCHEDULE" \/ Confirming(v) THEN disturbed \cup {v} ELSE disturbed
      BY DEF OfferOnlyActive
  <1>2. Active(v) /\ visit[v].status # "ABSENT"
      BY <1>1 DEF ActiveOf, Active, ACTIVE_APPOINTMENT_STATUSES
  <1>3. call[c].id = NoVisit /\ UNCHANGED <<visit, event, busy, holidays, blocked, now, adrift>>
      BY CallFacts DEF OfferOnlyActive, Running, CallOK
  <1>4. PICK k : k = [Idle EXCEPT !.pc = "chosen", !.op = op, !.id = v]
      OBVIOUS
  <1>5. k \in CallRow /\ k.pc = "chosen" /\ k.op = op /\ k.id = v
      BY <1>4 DEF Idle, CallRow, Steps
  <1>6. CallOK(k)
      BY <1>5, Constants DEF CallOK
  <1>7. PICK row : row = visit[v]
      OBVIOUS
  <1>8. PICK e : e = event[v]
      OBVIOUS
  <1>9. row \in Row /\ e \in EventRow /\ VisitOK(v)
      BY <1>7, <1>8, RowFacts
  <1>10. visit' = [visit EXCEPT ![v] = row] /\ event' = [event EXCEPT ![v] = e]
      BY <1>3, <1>7, <1>8 DEF AInv, ATypeOK
  <1>11. call' = [call EXCEPT ![c] = k]
      BY <1>1, <1>4
  <1>12. Writes(c, v, k, row, e)
      BY <1>1, <1>3, <1>5, <1>10, <1>11 DEF Writes
  <1>13. CASE op = "RESCHEDULE" \/ Confirming(v)
    <2>1. v \in disturbed'
        BY <1>1, <1>13
    <2>2. row.status \in ACTIVE_APPOINTMENT_STATUSES =>
            \A w \in Visits \ {v} : Active(w) => visit[w].slot # row.slot
        BY <1>2, <1>7, StaysAlone
    <2> QED
        BY <1>2, <1>5, <1>6, <1>7, <1>9, <1>12, <2>1, <2>2, DisturbedStep
  <1>14. CASE op = "CANCEL" /\ ~Confirming(v)
    <2>1. disturbed' = disturbed /\ adrift' = adrift
        BY <1>1, <1>3, <1>14
    <2>2. /\ visit'[v] = row /\ event'[v] = e /\ call'[c] = k
          /\ \A d \in Callers \ {c} : call'[d] = call[d]
        BY <1>5, <1>9, <1>12, WritesFacts DEF AInv
    <2>3. ASSUME v \notin disturbed PROVE Placed(v)'
      <3>1. Placed(v)
          BY <1>9, <2>3 DEF VisitOK
      <3>2. (Active(v)' <=> Active(v)) /\ (Marked(v)' <=> Marked(v))
          BY <1>7, <2>1, <2>2 DEF Active, Marked
      <3>3. call[c].id # v
          BY <1>3, Constants
      <3>4. (\A d \in Callers : call'[d].id = v => call'[d].pc \in {"chosen", "delete"}) =>
               \A d \in Callers : call[d].id = v => call[d].pc \in {"chosen", "delete"}
          BY <2>2, <3>3
      <3> QED
          BY <1>7, <1>8, <2>2, <3>1, <3>2, <3>4 DEF Placed
    <2> QED
        BY <1>2, <1>5, <1>6, <1>7, <1>8, <1>9, <1>12, <1>14, <2>1, <2>3, CancelStep
  <1> QED
      BY <1>13, <1>14

\* The call reads whether the row knows its event.
LEMMA CancelReadKeeps ==
    ASSUME AInv, NEW c \in Callers, CancelRead(c) PROVE AInv'
  <1>1. PICK q : q = call[c]
      OBVIOUS
  <1>2. q \in CallRow /\ q.pc = "chosen" /\ q.op = "CANCEL"
      BY <1>1, CallFacts DEF CancelRead, Running
  <1>3. PICK v : v = q.id
      OBVIOUS
  <1>4. v \in Visits /\ visit[v].status # "ABSENT"
      BY <1>1, <1>2, <1>3, VisitOfCall
  <1>5. PICK row : row = visit[v]
      OBVIOUS
  <1>6. PICK e : e = event[v]
      OBVIOUS
  <1>7. row \in Row /\ e \in EventRow /\ VisitOK(v)
      BY <1>4, <1>5, <1>6, RowFacts
  <1>8. PICK p : p = IF row.external THEN "delete" ELSE "cancel"
      OBVIOUS
  <1>9. p \in {"delete", "cancel"} /\ (p = "cancel" => ~row.external)
      BY <1>8
  <1>10. PICK k : k = [q EXCEPT !.pc = p]
      OBVIOUS
  <1>11. k \in CallRow /\ k.pc = p /\ k.op = "CANCEL" /\ k.id = v
      BY <1>2, <1>3, <1>9, <1>10 DEF CallRow, Steps
  <1>12. CallOK(k)
      BY <1>4, <1>9, <1>11, Constants DEF CallOK
  <1>13. UNCHANGED <<visit, event, busy, holidays, blocked, now, adrift, disturbed>>
      BY DEF CancelRead
  <1>14. call' = [call EXCEPT ![c] = k]
      BY <1>1, <1>3, <1>5, <1>8, <1>10 DEF CancelRead, Goto, AInv, ATypeOK
  <1>15. visit' = [visit EXCEPT ![v] = row] /\ event' = [event EXCEPT ![v] = e]
      BY <1>4, <1>5, <1>6, <1>13 DEF AInv, ATypeOK
  <1>16. Writes(c, v, k, row, e)
      BY <1>1, <1>3, <1>11, <1>13, <1>14, <1>15 DEF Writes
  <1>17. CASE v \in disturbed
    <2>1. row.status \in ACTIVE_APPOINTMENT_STATUSES =>
            \A w \in Visits \ {v} : Active(w) => visit[w].slot # row.slot
        BY <1>4, <1>5, StaysAlone DEF Active
    <2> QED
        BY <1>4, <1>5, <1>7, <1>11, <1>12, <1>13, <1>16, <1>17, <2>1, DisturbedStep
  <1>18. CASE v \notin disturbed
    <2>1. ~Confirming(v) /\ Pending(v) /\ Placed(v)
        BY <1>1, <1>2, <1>3, <1>4, <1>7, <1>18, NotConfirming DEF VisitOK
    <2>2. p = "cancel" => e.kind # "EVENT" \/ Marked(v)
      <3>1. CASE Active(v)
          BY <1>5, <1>9, <2>1, <3>1 DEF Pending, Active, ACTIVE_APPOINTMENT_STATUSES
      <3>2. CASE ~Active(v)
          BY <1>6, <2>1, <3>2 DEF Placed
      <3> QED
          BY <3>1, <3>2
    <2>3. Placed(v)'
      <3>1. /\ visit'[v] = row /\ event'[v] = e /\ call'[c] = k
            /\ \A d \in Callers \ {c} : call'[d] = call[d]
          BY <1>4, <1>7, <1>11, <1>16, WritesFacts DEF AInv
      <3>2. (Active(v)' <=> Active(v)) /\ (Marked(v)' <=> Marked(v))
          BY <1>5, <1>13, <3>1 DEF Active, Marked
      <3>3. (\A d \in Callers : call'[d].id = v => call'[d].pc \in {"chosen", "delete"}) =>
               \A d \in Callers : call[d].id = v => call[d].pc \in {"chosen", "delete"}
          BY <1>1, <1>2, <3>1
      <3> QED
          BY <1>5, <1>6, <2>1, <3>1, <3>2, <3>3 DEF Placed
    <2> QED
        BY <1>4, <1>5, <1>6, <1>7, <1>11, <1>12, <1>13, <1>16, <2>1, <2>2, <2>3, CancelStep
  <1> QED
      BY <1>17, <1>18

\* The event is deleted, or the calendar raises.
LEMMA CancelDeleteKeeps ==
    ASSUME AInv, NEW c \in Callers, CancelDelete(c) PROVE AInv'
  <1>1. PICK q : q = call[c]
      OBVIOUS
  <1>2. q \in CallRow /\ q.pc = "delete" /\ q.op = "CANCEL"
      BY <1>1, CallFacts DEF CancelDelete, Running, CallOK
  <1>3. PICK v : v = q.id
      OBVIOUS
  <1>4. v \in Visits /\ visit[v].status # "ABSENT"
      BY <1>1, <1>2, <1>3, VisitOfCall
  <1>5. PICK row : row = visit[v]
      OBVIOUS
  <1>6. row \in Row /\ event[v] \in EventRow /\ VisitOK(v)
      BY <1>4, <1>5, RowFacts
  <1>7. PICK o \in DeleteOutcomes(event[v]) :
            event' = [event EXCEPT ![v] = o.event] /\ Goto(c, IF o.raised THEN "flag" ELSE "cancel")
      BY <1>1, <1>3 DEF CancelDelete
  <1>8. PICK e : e = o.event
      OBVIOUS
  <1>9. e \in EventRow /\ (e.kind = "EVENT" => e = event[v]) /\ (~o.raised => e.kind # "EVENT")
    <2>1. Deleted \in EventRow /\ Deleted.kind = "DELETED"
        BY EventFacts
    <2> QED
        BY <1>6, <1>7, <1>8, <2>1 DEF DeleteOutcomes
  <1>10. PICK p : p = IF o.raised THEN "flag" ELSE "cancel"
      OBVIOUS
  <1>11. p \in {"flag", "cancel"} /\ (p = "cancel" => e.kind # "EVENT")
      BY <1>9, <1>10
  <1>12. PICK k : k = [q EXCEPT !.pc = p]
      OBVIOUS
  <1>13. k \in CallRow /\ k.pc = p /\ k.op = "CANCEL" /\ k.id = v
      BY <1>2, <1>3, <1>11, <1>12 DEF CallRow, Steps
  <1>14. CallOK(k)
      BY <1>4, <1>11, <1>13, Constants DEF CallOK
  <1>15. UNCHANGED <<visit, busy, holidays, blocked, now, adrift, disturbed>>
      BY DEF CancelDelete
  <1>16. call' = [call EXCEPT ![c] = k]
      BY <1>1, <1>7, <1>10, <1>12 DEF Goto, AInv, ATypeOK
  <1>17. visit' = [visit EXCEPT ![v] = row]
      BY <1>5, <1>15 DEF AInv, ATypeOK
  <1>18. Writes(c, v, k, row, e)
      BY <1>1, <1>3, <1>7, <1>8, <1>13, <1>15, <1>16, <1>17 DEF Writes
  <1>19. CASE v \in disturbed
    <2>1. row.status \in ACTIVE_APPOINTMENT_STATUSES =>
            \A w \in Visits \ {v} : Active(w) => visit[w].slot # row.slot
        BY <1>4, <1>5, StaysAlone DEF Active
    <2> QED
        BY <1>4, <1>5, <1>6, <1>9, <1>13, <1>14, <1>15, <1>18, <1>19, <2>1, DisturbedStep
  <1>20. CASE v \notin disturbed
    <2>1. ~Confirming(v) /\ Placed(v)
        BY <1>1, <1>2, <1>3, <1>4, <1>6, <1>20, NotConfirming DEF VisitOK
    <2>2. Placed(v)'
      <3>1. visit'[v] = row /\ event'[v] = e /\ call'[c] = k
          BY <1>4, <1>6, <1>9, <1>13, <1>18, WritesFacts DEF AInv
      <3>2. (Active(v)' <=> Active(v)) /\ (Marked(v)' <=> Marked(v))
          BY <1>5, <1>15, <3>1 DEF Active, Marked
      <3>3. call'[c].id = v /\ call'[c].pc \notin {"chosen", "delete"}
          BY <1>11, <1>13, <3>1
      <3> QED
          BY <1>5, <1>9, <2>1, <3>1, <3>2, <3>3 DEF Placed
    <2> QED
        BY <1>4, <1>5, <1>6, <1>9, <1>11, <1>13, <1>14, <1>15, <1>18, <2>1, <2>2, CancelStep
  <1> QED
      BY <1>19, <1>20

\* The row is cancelled.
LEMMA CancelRowKeeps ==
    ASSUME AInv, NEW c \in Callers, CancelRow(c) PROVE AInv'
  <1>1. PICK q : q = call[c]
      OBVIOUS
  <1>2. q \in CallRow /\ q.pc = "cancel" /\ q.op = "CANCEL"
      BY <1>1, CallFacts DEF CancelRow, Running, CallOK
  <1>3. PICK v : v = q.id
      OBVIOUS
  <1>4. v \in Visits /\ visit[v].status # "ABSENT"
      BY <1>1, <1>2, <1>3, VisitOfCall
  <1>5. PICK r : r = visit[v]
      OBVIOUS
  <1>6. PICK e : e = event[v]
      OBVIOUS
  <1>7. r \in Row /\ e \in EventRow /\ VisitOK(v)
      BY <1>4, <1>5, <1>6, RowFacts
  <1>8. PICK s : s = IF r.slot - now < DayLen THEN "LATE_CANCEL" ELSE "CANCELLED"
      OBVIOUS
  <1>9. s \in {"CANCELLED", "LATE_CANCEL"}
      BY <1>8
  <1>10. PICK row : row = [r EXCEPT !.status = s]
      OBVIOUS
  <1>11. row \in Row /\ row.status = s /\ row.slot = r.slot /\ row.external = r.external
         /\ row.flagged = r.flagged
      BY <1>7, <1>9, <1>10 DEF Row, APPOINTMENT_STATUSES
  <1>12. UNCHANGED <<event, busy, holidays, blocked, now, adrift, disturbed>>
      BY DEF CancelRow
  <1>13. call' = [call EXCEPT ![c] = Idle]
      BY DEF CancelRow, Finish
  <1>14. visit' = [visit EXCEPT ![v] = row]
      BY <1>1, <1>3, <1>5, <1>8, <1>10 DEF CancelRow, AInv, ATypeOK
  <1>15. event' = [event EXCEPT ![v] = e]
      BY <1>6, <1>12 DEF AInv, ATypeOK
  <1>16. Writes(c, v, Idle, row, e)
      BY <1>1, <1>3, <1>12, <1>13, <1>14, <1>15, IdleOK DEF Writes
  <1>17. CASE v \in disturbed
    <2>1. row.status \notin ACTIVE_APPOINTMENT_STATUSES /\ row.status # "ABSENT"
        BY <1>9, <1>11 DEF ACTIVE_APPOINTMENT_STATUSES
    <2> QED
        BY <1>4, <1>7, <1>11, <1>12, <1>16, <1>17, <2>1, IdleOK, DisturbedStep
  <1>18. CASE v \notin disturbed
    <2>1. ~Confirming(v) /\ Cancels(v, c) /\ Placed(v)
        BY <1>1, <1>2, <1>3, <1>4, <1>7, <1>18, NotConfirming DEF VisitOK
    <2>2. e.kind # "EVENT" \/ Marked(v)
        BY <1>1, <1>2, <1>6, <2>1 DEF Cancels
    <2>3. Placed(v)'
      <3>1. visit'[v] = row /\ event'[v] = e
          BY <1>4, <1>7, <1>11, <1>16, IdleOK, WritesFacts DEF AInv
      <3>2. ~Active(v)' /\ (Marked(v)' <=> Marked(v))
          BY <1>5, <1>9, <1>11, <1>12, <3>1 DEF Active, Marked, ACTIVE_APPOINTMENT_STATUSES
      <3> QED
          BY <1>5, <1>6, <1>11, <2>1, <2>2, <3>1, <3>2 DEF Placed
    <2>4. Idle.id # v
        BY <1>4, IdleOK, Constants
    <2> QED
        BY <1>4, <1>5, <1>6, <1>7, <1>9, <1>11, <1>12, <1>16, <2>1, <2>3, <2>4, IdleOK, CancelStep
  <1> QED
      BY <1>17, <1>18

(***************************************************************************)
(* reschedule_appointment                                                  *)
(***************************************************************************)

\* A step of a move: its visit was disturbed when it was asked for.
LEMMA MoveStep ==
    ASSUME AInv, NEW c \in Callers, NEW v \in Visits, call[c].id = v, call[c].op = "RESCHEDULE",
           call[c].pc \notin {"idle", "insert"},
           NEW k \in CallRow, CallOK(k), k.id \in {v, NoVisit}, call' = [call EXCEPT ![c] = k],
           NEW row \in Row, visit' = [visit EXCEPT ![v] = row], row.status # "ABSENT",
           NEW e \in EventRow, event' = [event EXCEPT ![v] = e],
           UNCHANGED <<busy, holidays, blocked, now, disturbed>>, adrift' = adrift,
           row.status \in ACTIVE_APPOINTMENT_STATUSES =>
              \A w \in Visits \ {v} : Active(w) => visit[w].slot # row.slot
    PROVE  AInv'
  <1>1. Writes(c, v, k, row, e)
      BY DEF Writes
  <1>2. v \in disturbed'
      BY VisitOfCall
  <1> QED
      BY <1>1, <1>2, DisturbedStep

\* The move reads the row and checks the new slot.
LEMMA MoveReadKeeps ==
    ASSUME AInv, NEW c \in Callers,
           (\E s \in Slots : RescheduleRead(c, s)) \/ RescheduleCheck(c)
    PROVE  AInv'
  <1>1. PICK q : q = call[c]
      OBVIOUS
  <1>2. q \in CallRow /\ q.pc \in {"chosen", "check"} /\ q.op = "RESCHEDULE"
      BY <1>1, CallFacts DEF RescheduleRead, RescheduleCheck, Running, CallOK
  <1>3. PICK v : v = q.id
      OBVIOUS
  <1>4. v \in Visits /\ visit[v].status # "ABSENT"
      BY <1>1, <1>2, <1>3, VisitOfCall
  <1>5. PICK row : row = visit[v]
      OBVIOUS
  <1>6. PICK e : e = event[v]
      OBVIOUS
  <1>7. row \in Row /\ e \in EventRow
      BY <1>4, <1>5, <1>6, RowFacts
  <1>8. UNCHANGED <<visit, event, busy, holidays, blocked, now, adrift, disturbed>>
      BY DEF RescheduleRead, RescheduleCheck
  <1>9. visit' = [visit EXCEPT ![v] = row] /\ event' = [event EXCEPT ![v] = e]
      BY <1>4, <1>5, <1>6, <1>8 DEF AInv, ATypeOK
  <1>10. row.status \in ACTIVE_APPOINTMENT_STATUSES =>
            \A w \in Visits \ {v} : Active(w) => visit[w].slot # row.slot
      BY <1>4, <1>5, StaysAlone DEF Active
  <1>11. PICK k \in CallRow : CallOK(k) /\ k.id \in {v, NoVisit} /\ call' = [call EXCEPT ![c] = k]
    <2>1. ASSUME NEW s \in Slots, RescheduleRead(c, s)
          PROVE  \E k \in CallRow : CallOK(k) /\ k.id \in {v, NoVisit} /\ call' = [call EXCEPT ![c] = k]
      <3>1. PICK b : b = visit[v].slot
          OBVIOUS
      <3>2. PICK k : k = [q EXCEPT !.pc = "check", !.slot = s, !.previous = b]
          OBVIOUS
      <3>3. b \in Nat /\ s \in Nat
          BY <1>5, <1>7, <3>1, Constants DEF Row
      <3>4. k \in CallRow /\ k.pc = "check" /\ k.op = "RESCHEDULE" /\ k.id = v
          BY <1>2, <1>3, <3>2, <3>3 DEF CallRow, Steps
      <3>5. CallOK(k)
          BY <1>4, <3>4, Constants DEF CallOK
      <3>6. call' = [call EXCEPT ![c] = k]
        <4>1. call' = [call EXCEPT ![c].pc = "check", ![c].slot = s, ![c].previous = b]
            BY <1>1, <1>3, <2>1, <3>1 DEF RescheduleRead
        <4>2. call \in [Callers -> CallRow]
            BY DEF AInv, ATypeOK, CallRow
        <4> QED
            BY <1>1, <3>2, <4>1, <4>2 DEF CallRow
      <3> QED
          BY <3>4, <3>5, <3>6
    <2>2. ASSUME RescheduleCheck(c)
          PROVE  \E k \in CallRow : CallOK(k) /\ k.id \in {v, NoVisit} /\ call' = [call EXCEPT ![c] = k]
      <3>1. CASE Finish(c)
          BY <3>1, IdleOK DEF Finish
      <3>2. CASE Goto(c, "move")
        <4>1. PICK k : k = [q EXCEPT !.pc = "move"]
            OBVIOUS
        <4>2. k \in CallRow /\ k.pc = "move" /\ k.op = "RESCHEDULE" /\ k.id = v
            BY <1>2, <1>3, <4>1 DEF CallRow, Steps
        <4>3. CallOK(k)
            BY <1>4, <4>2, Constants DEF CallOK
        <4>4. call' = [call EXCEPT ![c] = k]
            BY <1>1, <3>2, <4>1 DEF Goto, AInv, ATypeOK
        <4> QED
            BY <4>2, <4>3, <4>4
      <3> QED
          BY <2>2, <3>1, <3>2 DEF RescheduleCheck
    <2> QED
        BY <2>1, <2>2
  <1>12. /\ call[c].id = v /\ call[c].op = "RESCHEDULE" /\ call[c].pc \notin {"idle", "insert"}
         /\ row.status # "ABSENT" /\ adrift' = adrift
         /\ UNCHANGED <<busy, holidays, blocked, now, disturbed>>
      BY <1>1, <1>2, <1>3, <1>4, <1>5, <1>8
  <1> QED
      BY <1>4, <1>7, <1>9, <1>10, <1>11, <1>12, MoveStep

\* The event is moved, or the calendar raises.
LEMMA MoveEventKeeps ==
    ASSUME AInv, NEW c \in Callers, RescheduleMove(c) PROVE AInv'
  <1>1. PICK q : q = call[c]
      OBVIOUS
  <1>2. q \in CallRow /\ q.pc = "move" /\ q.op = "RESCHEDULE" /\ q.slot \in Nat
      BY <1>1, CallFacts DEF RescheduleMove, Running, CallOK, CallRow
  <1>3. PICK v : v = q.id
      OBVIOUS
  <1>4. v \in Visits /\ visit[v].status # "ABSENT"
      BY <1>1, <1>2, <1>3, VisitOfCall
  <1>5. PICK row : row = visit[v]
      OBVIOUS
  <1>6. row \in Row /\ event[v] \in EventRow
      BY <1>4, <1>5, RowFacts
  <1>7. PICK o \in UpdateOutcomes(event[v], q.slot) :
            event' = [event EXCEPT ![v] = o.event] /\ (IF o.raised THEN Finish(c) ELSE Goto(c, "settle"))
      BY <1>1, <1>3 DEF RescheduleMove
  <1>8. PICK e : e = o.event
      OBVIOUS
  <1>9. e \in EventRow
    <2>1. At(q.slot) \in EventRow
        BY <1>2, EventFacts
    <2> QED
        BY <1>6, <1>7, <1>8, <2>1 DEF UpdateOutcomes
  <1>10. PICK k \in CallRow : CallOK(k) /\ k.id \in {v, NoVisit} /\ call' = [call EXCEPT ![c] = k]
    <2>1. CASE o.raised
        BY <1>7, <2>1, IdleOK DEF Finish
    <2>2. CASE ~o.raised
      <3>1. PICK k : k = [q EXCEPT !.pc = "settle"]
          OBVIOUS
      <3>2. k \in CallRow /\ k.pc = "settle" /\ k.op = "RESCHEDULE" /\ k.id = v
          BY <1>2, <1>3, <3>1 DEF CallRow, Steps
      <3>3. CallOK(k)
          BY <1>4, <3>2, Constants DEF CallOK
      <3>4. call' = [call EXCEPT ![c] = k]
          BY <1>1, <1>7, <2>2, <3>1 DEF Goto, AInv, ATypeOK
      <3> QED
          BY <3>2, <3>3, <3>4
    <2> QED
        BY <2>1, <2>2
  <1>11. UNCHANGED <<visit, busy, holidays, blocked, now, adrift, disturbed>>
      BY DEF RescheduleMove
  <1>12. visit' = [visit EXCEPT ![v] = row] /\ event' = [event EXCEPT ![v] = e]
      BY <1>4, <1>5, <1>7, <1>8, <1>11 DEF AInv, ATypeOK
  <1>13. row.status \in ACTIVE_APPOINTMENT_STATUSES =>
            \A w \in Visits \ {v} : Active(w) => visit[w].slot # row.slot
      BY <1>4, <1>5, StaysAlone DEF Active
  <1>14. /\ call[c].id = v /\ call[c].op = "RESCHEDULE" /\ call[c].pc \notin {"idle", "insert"}
         /\ row.status # "ABSENT" /\ adrift' = adrift
         /\ UNCHANGED <<busy, holidays, blocked, now, disturbed>>
      BY <1>1, <1>2, <1>3, <1>4, <1>5, <1>11
  <1> QED
      BY <1>4, <1>6, <1>9, <1>10, <1>12, <1>13, <1>14, MoveStep

\* The row is moved if it is still where it was read and the index allows it.
LEMMA MoveSettleKeeps ==
    ASSUME AInv, NEW c \in Callers, RescheduleSettle(c) PROVE AInv'
  <1>1. PICK q : q = call[c]
      OBVIOUS
  <1>2. q \in CallRow /\ q.pc = "settle" /\ q.op = "RESCHEDULE" /\ q.slot \in Nat
      BY <1>1, CallFacts DEF RescheduleSettle, Running, CallOK, CallRow
  <1>3. PICK v : v = q.id
      OBVIOUS
  <1>4. v \in Visits /\ visit[v].status # "ABSENT"
      BY <1>1, <1>2, <1>3, VisitOfCall
  <1>5. UNCHANGED <<event, busy, holidays, blocked, now, disturbed>>
      BY DEF RescheduleSettle
  <1>6. PICK r : r = visit[v]
      OBVIOUS
  <1>7. PICK e : e = event[v]
      OBVIOUS
  <1>8. r \in Row /\ e \in EventRow
      BY <1>4, <1>6, <1>7, RowFacts
  <1>9. event' = [event EXCEPT ![v] = e]
      BY <1>4, <1>5, <1>7 DEF AInv, ATypeOK
  <1>10. call[c].id = v /\ call[c].op = "RESCHEDULE" /\ call[c].pc \notin {"idle", "insert"}
      BY <1>1, <1>2, <1>3
  <1>11. CASE ~Movable(c)
    <2>1. Refuse(c)
        BY <1>11 DEF RescheduleSettle
    <2> QED
        BY <1>5, <1>10, <2>1, AdriftKeeps DEF Refuse
  <1>12. CASE Movable(c) /\ ~SlotFree(v, q.slot)
    <2>1. call' = [call EXCEPT ![c] = Idle] /\ UNCHANGED <<visit, adrift>>
        BY <1>1, <1>3, <1>12 DEF RescheduleSettle, Finish
    <2>2. visit' = [visit EXCEPT ![v] = r]
        BY <1>6, <2>1 DEF AInv, ATypeOK
    <2>3. r.status \in ACTIVE_APPOINTMENT_STATUSES =>
            \A w \in Visits \ {v} : Active(w) => visit[w].slot # r.slot
        BY <1>4, <1>6, StaysAlone DEF Active
    <2>4. adrift' = adrift /\ r.status # "ABSENT"
        BY <1>4, <1>6, <2>1
    <2> QED
        BY <1>4, <1>5, <1>8, <1>9, <1>10, <2>1, <2>2, <2>3, <2>4, IdleOK, MoveStep
  <1>13. CASE Movable(c) /\ SlotFree(v, q.slot)
    <2>1. PICK t : t = reminder_at(q.slot)
        OBVIOUS
    <2>2. t \in Int
        BY <1>2, <2>1, Constants DEF reminder_at, Day
    <2>3. PICK s : s = q.slot
        OBVIOUS
    <2>4. PICK row : row = [r EXCEPT !.slot = s, !.status = "RESCHEDULED", !.remind_at = t,
                                     !.flagged = FALSE]
        OBVIOUS
    <2>5. row \in Row /\ row.status = "RESCHEDULED" /\ row.slot = s
        BY <1>2, <1>8, <2>2, <2>3, <2>4 DEF Row, APPOINTMENT_STATUSES, ACTIVE_APPOINTMENT_STATUSES
    <2>6. /\ visit' = [visit EXCEPT ![v].slot = s, ![v].status = "RESCHEDULED",
                                    ![v].remind_at = t, ![v].flagged = FALSE]
          /\ call' = [call EXCEPT ![c] = Idle] /\ adrift' = adrift
        BY <1>1, <1>3, <1>13, <2>1, <2>3 DEF RescheduleSettle, Finish
    <2>7. visit \in [Visits -> Row]
        BY DEF AInv, ATypeOK, Row
    <2>8. visit' = [visit EXCEPT ![v] = row]
        BY <1>4, <1>6, <1>8, <2>4, <2>6, <2>7 DEF Row
    <2>9. \A w \in Visits \ {v} : Active(w) => visit[w].slot # row.slot
        BY <1>13, <2>3, <2>5 DEF SlotFree
    <2>10. row \in Row /\ row.status # "ABSENT"
        BY <2>5
    <2>11. call' = [call EXCEPT ![c] = Idle] /\ adrift' = adrift
        BY <2>6
    <2>12. row.status \in ACTIVE_APPOINTMENT_STATUSES =>
            \A w \in Visits \ {v} : Active(w) => visit[w].slot # row.slot
        BY <2>9
    <2>13. UNCHANGED <<busy, holidays, blocked, now, disturbed>>
        BY <1>5
    <2> QED
        BY <1>4, <1>8, <1>9, <1>10, <2>8, <2>10, <2>11, <2>12, <2>13, IdleOK, MoveStep
  <1> QED
      BY <1>11, <1>12, <1>13

(***************************************************************************)
(* The rest                                                                *)
(***************************************************************************)

\* A step that changes neither calls nor events, and of the rows only what nobody looks at.
LEMMA QuietKeeps ==
    ASSUME AInv, UNCHANGED <<event, call, adrift, disturbed>>, visit' \in [Visits -> Row],
           \A v \in Visits :
              /\ visit'[v].status = visit[v].status /\ visit'[v].slot = visit[v].slot
              /\ visit'[v].external = visit[v].external /\ visit'[v].flagged = visit[v].flagged,
           busy' \subseteq StaffSlots, holidays' \subseteq ClosedDays, blocked' \subseteq ClosedDays,
           now' \in Nat
    PROVE  AInv'
  <1>1. ATypeOK'
      BY DEF AInv, ATypeOK, Row
  <1>2. CallsOK'
      BY DEF AInv, CallsOK, CallOK
  <1>3. ASSUME NEW w \in Visits PROVE VisitOK(w)'
    <2>1. VisitOK(w)
        BY RowFacts
    <2> QED
        BY <2>1, VisitFrame
  <1>4. OnePerSlot'
      BY DEF AInv, OnePerSlot, Active
  <1> QED
      BY <1>1, <1>2, <1>3, <1>4 DEF AInv, VisitsOK

\* Due reminders are sent.
LEMMA RemindKeeps ==
    ASSUME AInv, process_due_reminders PROVE AInv'
  <1>1. visit' = [v \in Visits |-> IF Due(v) THEN [visit[v] EXCEPT !.reminded = TRUE] ELSE visit[v]]
      BY DEF process_due_reminders
  <1>2. ASSUME NEW v \in Visits
        PROVE  /\ visit'[v] \in Row
               /\ visit'[v].status = visit[v].status /\ visit'[v].slot = visit[v].slot
               /\ visit'[v].external = visit[v].external /\ visit'[v].flagged = visit[v].flagged
    <2>1. visit[v] \in Row
        BY RowFacts
    <2>2. CASE visit'[v] = visit[v]
        BY <2>1, <2>2
    <2>3. CASE visit'[v] = [visit[v] EXCEPT !.reminded = TRUE]
        BY <2>1, <2>3 DEF Row
    <2> QED
        BY <1>1, <2>2, <2>3
  <1>3. visit' \in [Visits -> Row]
      BY <1>1, <1>2
  <1>4. /\ UNCHANGED <<event, call, adrift, disturbed>>
        /\ busy' \subseteq StaffSlots /\ holidays' \subseteq ClosedDays /\ blocked' \subseteq ClosedDays
        /\ now' \in Nat
      BY DEF process_due_reminders, AInv, ATypeOK
  <1> QED
      BY <1>2, <1>3, <1>4, QuietKeeps

\* Closed days, staff, the clock, and steps that change nothing.
LEMMA AgendaKeeps ==
    ASSUME AInv,
           \/ \E d \in ClosedDays :
                 create_blocked_date(d) \/ delete_blocked_date(d) \/ create_manual_holiday(d)
           \/ \E s \in StaffSlots : StaffFills(s) \/ StaffFrees(s)
           \/ Tick
           \/ UNCHANGED avars
    PROVE  AInv'
  <1>1. UNCHANGED <<visit, event, call, adrift, disturbed>>
      BY DEF create_blocked_date, delete_blocked_date, create_manual_holiday, StaffFills, StaffFrees,
             Tick, avars
  <1>2. busy' \subseteq StaffSlots /\ holidays' \subseteq ClosedDays /\ blocked' \subseteq ClosedDays
    <2>1. busy \subseteq StaffSlots /\ holidays \subseteq ClosedDays /\ blocked \subseteq ClosedDays
        BY DEF AInv, ATypeOK
    <2> QED
        BY <2>1 DEF create_blocked_date, delete_blocked_date, create_manual_holiday, StaffFills,
               StaffFrees, Tick, avars
  <1>3. now' \in Nat
    <2>1. now \in Nat
        BY DEF AInv, ATypeOK
    <2> QED
        BY <2>1 DEF create_blocked_date, delete_blocked_date, create_manual_holiday, StaffFills,
               StaffFrees, Tick, avars
  <1>4. visit' \in [Visits -> Row]
      BY <1>1 DEF AInv, ATypeOK, Row
  <1> QED
      BY <1>1, <1>2, <1>3, <1>4, QuietKeeps

\* Every step keeps the invariant.
LEMMA NextKeeps ==
    ASSUME AInv, [ANext]_avars PROVE AInv'
  <1>1. ASSUME NEW c \in Callers, ConfirmCall(c) PROVE AInv'
      BY <1>1, ConfirmCheckKeeps, ConfirmInsertKeeps, ConfirmCreateKeeps, ConfirmSettleKeeps
         DEF ConfirmCall
  <1>2. ASSUME NEW c \in Callers, request_reschedule(c) \/ request_cancellation(c) PROVE AInv'
    <2>1. PICK op \in {"RESCHEDULE", "CANCEL"} : OfferOnlyActive(c, op)
        BY <1>2 DEF request_reschedule, request_cancellation
    <2> QED
        BY <2>1, OfferKeeps
  <1>3. ASSUME NEW c \in Callers, RescheduleCall(c) PROVE AInv'
      BY <1>3, MoveReadKeeps, MoveEventKeeps, MoveSettleKeeps DEF RescheduleCall
  <1>4. ASSUME NEW c \in Callers, CancelCall(c) PROVE AInv'
      BY <1>4, CancelReadKeeps, CancelDeleteKeeps, CancelRowKeeps DEF CancelCall
  <1>5. ASSUME NEW c \in Callers, MarkForReconciliation(c) \/ CrashCall(c) PROVE AInv'
      BY <1>5, MarkKeeps, CrashKeeps
  <1> QED
      BY <1>1, <1>2, <1>3, <1>4, <1>5, RemindKeeps, AgendaKeeps DEF ANext

\* The inductive invariant holds in every reachable state.
THEOREM AInvariant == ASpec => []AInv
  <1>1. AInit => AInv
      BY InitOK
  <1>2. AInv /\ [ANext]_avars => AInv'
      BY NextKeeps
  <1> QED
      BY <1>1, <1>2, PTL DEF ASpec

\* Rows and calendar agree about every visit nobody disturbed, however calls interleave, the
\* calendar fails and workers die: no slot is held twice, a visit that is on is in its slot and
\* one that was cancelled has left it, unless it is marked or under review
\* (app/appointment/service.py).
THEOREM CalendarAgreement == ASpec => []CalendarAgrees
  <1>1. AInv => CalendarAgrees
    <2> SUFFICES ASSUME AInv PROVE CalendarAgrees
        OBVIOUS
    <2>1. ASSUME NEW v \in Undisturbed
          PROVE  v \in Visits /\ Placed(v)
        BY RowFacts DEF Undisturbed, VisitOK
    <2>2. ASSUME NEW v \in Undisturbed PROVE InCalendar(v) /\ OutOfCalendar(v)
      <3> SUFFICES ASSUME AtRest(v)
                   PROVE  (Active(v) => event[v] = At(visit[v].slot)) /\ (~Active(v) => event[v].kind # "EVENT")
          BY DEF InCalendar, OutOfCalendar
      <3>1. Placed(v) /\ ~Marked(v)
          BY <2>1 DEF AtRest, Marked
      <3>2. \A c \in Callers : call[c].id = v => call[c].pc \in {"chosen", "delete"}
          BY DEF AtRest
      <3> QED
          BY <3>1, <3>2 DEF Placed
    <2>3. SlotHeldOnce
      <3> SUFFICES ASSUME NEW v \in Undisturbed, NEW w \in Undisturbed, v # w,
                          event[v].kind = "EVENT", event[w] = event[v], ~Marked(v), ~Marked(w)
                   PROVE  FALSE
          BY DEF SlotHeldOnce, Marked
      <3>1. v \in Visits /\ w \in Visits /\ Placed(v) /\ Placed(w)
          BY <2>1
      <3>2. Active(v) /\ Active(w)
          BY <3>1 DEF Placed
      <3>3. event[v] = At(visit[v].slot) /\ event[w] = At(visit[w].slot)
          BY <3>1 DEF Placed
      <3>4. visit[v].slot = visit[w].slot
          BY <3>3 DEF At
      <3> QED
          BY <3>1, <3>2, <3>4 DEF AInv, OnePerSlot
    <2> QED
        BY <2>2, <2>3 DEF CalendarAgrees, AInv
  <1> QED
      BY <1>1, AInvariant, PTL

\* No late settlement of another call brings a cancelled visit back (settle_visit_appointment).
THEOREM CancelledForGood == ASpec => CancelledStaysCancelled
  <1> DEFINE Off(r) == r.status \in {"CANCELLED", "LATE_CANCEL"}
  <1>1. ASSUME AInv, [ANext]_avars, NEW v \in Visits, Off(visit[v]) PROVE Off(visit'[v])
    <2>1. visit \in [Visits -> Row]
        BY <1>1 DEF AInv, ATypeOK, Row
    <2>2. CASE visit'[v] = visit[v]
        BY <1>1, <2>2
    <2>3. ASSUME NEW c \in Callers, ConfirmInsert(c) PROVE Off(visit'[v])
      <3>1. PICK w \in NextVisit : visit' = visit \/ visit' = [visit EXCEPT ![w] = NewVisit(c)]
          BY <2>3 DEF ConfirmInsert
      <3>2. w # v
          BY <1>1, <3>1 DEF NextVisit
      <3> QED
          BY <1>1, <2>1, <3>1, <3>2
    <2>4. ASSUME NEW c \in Callers, ConfirmSettle(c) PROVE Off(visit'[v])
      <3>1. CASE Confirmable(call[c].id)
        <4>1. call[c].id # v
            BY <1>1, <3>1 DEF Confirmable
        <4> QED
            BY <1>1, <2>1, <2>4, <3>1, <4>1 DEF ConfirmSettle
      <3>2. CASE ~Confirmable(call[c].id)
          BY <1>1, <2>4, <3>2 DEF ConfirmSettle, Refuse
      <3> QED
          BY <3>1, <3>2
    <2>5. ASSUME NEW c \in Callers, RescheduleSettle(c) PROVE Off(visit'[v])
      <3>1. CASE Movable(c)
        <4>1. call[c].id # v
            BY <1>1, <3>1 DEF Movable, Active, ACTIVE_APPOINTMENT_STATUSES
        <4> QED
            BY <1>1, <2>1, <2>5, <3>1, <4>1 DEF RescheduleSettle
      <3>2. CASE ~Movable(c)
          BY <1>1, <2>5, <3>2 DEF RescheduleSettle, Refuse
      <3> QED
          BY <3>1, <3>2
    <2>6. ASSUME NEW c \in Callers, MarkForReconciliation(c) PROVE Off(visit'[v])
      <3>1. visit'[v].status = visit[v].status
          BY <2>1, <2>6 DEF MarkForReconciliation, Row
      <3> QED
          BY <1>1, <3>1
    <2>7. ASSUME NEW c \in Callers, CancelRow(c) PROVE Off(visit'[v])
      <3>1. PICK s : s = IF visit[call[c].id].slot - now < DayLen THEN "LATE_CANCEL" ELSE "CANCELLED"
          OBVIOUS
      <3>2. s \in {"CANCELLED", "LATE_CANCEL"} /\ visit' = [visit EXCEPT ![call[c].id].status = s]
          BY <2>7, <3>1 DEF CancelRow
      <3> QED
          BY <1>1, <2>1, <3>2 DEF Row
    <2>8. CASE process_due_reminders
      <3>1. visit'[v] = visit[v] \/ visit'[v] = [visit[v] EXCEPT !.reminded = TRUE]
          BY <2>8 DEF process_due_reminders
      <3>2. visit[v] \in Row
          BY <2>1
      <3> QED
          BY <1>1, <3>1, <3>2 DEF Row
    <2>9. ASSUME NEW c \in Callers,
                 \/ \E s \in Slots : ConfirmCheck(c, s) \/ RescheduleRead(c, s)
                 \/ ConfirmCreate(c) \/ request_reschedule(c) \/ request_cancellation(c)
                 \/ RescheduleCheck(c) \/ RescheduleMove(c) \/ CancelRead(c) \/ CancelDelete(c)
                 \/ CrashCall(c)
          PROVE  visit' = visit
        BY <2>9 DEF ConfirmCheck, RescheduleRead, ConfirmCreate, request_reschedule,
               request_cancellation, OfferOnlyActive, RescheduleCheck, RescheduleMove, CancelRead,
               CancelDelete, CrashCall
    <2>10. \/ \E d \in ClosedDays :
                 create_blocked_date(d) \/ delete_blocked_date(d) \/ create_manual_holiday(d)
           \/ \E s \in StaffSlots : StaffFills(s) \/ StaffFrees(s)
           \/ Tick
           \/ UNCHANGED avars
           => visit' = visit
        BY DEF create_blocked_date, delete_blocked_date, create_manual_holiday, StaffFills,
               StaffFrees, Tick, avars
    <2> QED
        BY <1>1, <2>2, <2>3, <2>4, <2>5, <2>6, <2>7, <2>8, <2>9, <2>10
           DEF ANext, ConfirmCall, RescheduleCall, CancelCall
  <1>2. AInv /\ [ANext]_avars =>
          [\A v \in Visits : visit[v].status \in {"CANCELLED", "LATE_CANCEL"}
              => visit'[v].status \in {"CANCELLED", "LATE_CANCEL"}]_avars
      BY <1>1
  <1> QED
      BY <1>2, AInvariant, PTL DEF ASpec, CancelledStaysCancelled
=============================================================================
