---------------------------- MODULE NoticesProofs ----------------------------
(***************************************************************************)
(* Proofs about BalanceReminders, and with it about Notifications: however *)
(* claims go stale, answers are lost and reports come early, late or out   *)
(* of order, a notice that waits for its report names the message it was   *)
(* sent as, deliveries do not regress, and a booking shown as overdue owes *)
(* money whose deadline is past.  For every number of loops, recipients,   *)
(* events, reminders, bookings and attempts, and any clock.                *)
(***************************************************************************)
EXTENDS BalanceReminders, FiniteSetTheorems, SequenceTheorems, TLAPS

Texts == {"TEXT", "TEMPLATE"}
Taken == {"SENT", "DELIVERED", "READ"}
Plans == {"TEXT", "TEMPLATE", "EXPIRED", "DEFERRED"}

Notice == [status : Statuses, attempts : 0..MaxAttempts, token : Nat, drawn : Nat,
           msg : {"NONE", "TEXT", "TEMPLATE"}, code : Codes, pid : Nat, born : Nat]
ClaimRow == [n : Keys, token : Nat, plan : Plans, answer : {"NONE", "OK", "RETRY", "PERMANENT"},
             code : Codes, pid : Nat]
Recipient == [status : {"ABSENT", "ACTIVE", "INACTIVE"}, evidence : BOOLEAN, pending : BOOLEAN,
              inbound : Nat \cup {NoTime}]
BookingRow == [status : {"ABSENT", "RESERVED", "CANCELLED"}, start : Nat, paid : Nat,
               due : Int \cup {NoTime}, overdue : BOOLEAN, confirmed : Nat]

NoticesType ==
    /\ recipients \in [Recipients -> Recipient]
    /\ notices \in [Keys -> Notice]
    /\ batch \in [AllLoops -> Seq(ClaimRow)]
    /\ messages \in [Keys -> Seq(Texts)]
    /\ now \in 0..MaxNow

\* A notice that may be tried again, also after the report of a failure, has tries left.
RowOK(row) == row.status \in {"PENDING", "SENDING", "DEFERRED", "SENT"} => row.attempts < MaxAttempts

\* A notice that was sent names its message; it leaves that state by a report only, so one
\* that names a message and is not sent any more has been told that the message failed.
RowFits(n, row) ==
    /\ row.status = "SENT" => row.pid \in DOMAIN messages[n] /\ row.msg = messages[n][row.pid]
    /\ row.pid # 0 /\ <<n, row.pid, "FAILED">> \notin heard => row.status \in Taken

\* An answer is the answer to a call, and names the message the call was about.
ClaimOK(c) ==
    /\ c.answer # "NONE" => c.plan \in Texts
    /\ c.answer = "OK" => c.pid \in DOMAIN messages[c.n] /\ messages[c.n][c.pid] = c.plan

RowsOK == \A n \in Keys : RowOK(notices[n]) /\ RowFits(n, notices[n])
ClaimsOK == \A w \in AllLoops : \A i \in DOMAIN batch[w] : ClaimOK(batch[w][i])

\* The inductive invariant of the queue.
NInv == NoticesType /\ RowsOK /\ ClaimsOK

\* What a scan marks is past its deadline.
BookingOK(row) ==
    row.status = "RESERVED" /\ row.overdue => row.paid < Price /\ row.due # NoTime /\ row.due <= now

BookingsOK == booking \in [Bookings -> BookingRow] /\ \A b \in Bookings : BookingOK(booking[b])

BInv == NInv /\ BookingsOK

\* What is used of the constants.
LEMMA Constants ==
    /\ MaxAttempts \in Nat /\ 0 < MaxAttempts /\ MaxNow \in Nat /\ MaxAge \in Nat
    /\ NoTime \notin Int /\ IsFiniteSet(Keys)
    /\ \A f \in Forms : f.status \in {"ACTIVE", "INACTIVE"} /\ f.evidence \in BOOLEAN /\ f.pending \in BOOLEAN
    /\ StaffKeys \subseteq Keys /\ Reminders \subseteq Keys
    /\ Loops \subseteq AllLoops /\ ReminderLoops \subseteq AllLoops
  <1>1. MaxAttempts \in Nat /\ 0 < MaxAttempts
      BY NotificationsAssumption
  <1>2. \A f \in Forms : f.status \in {"ACTIVE", "INACTIVE"} /\ f.evidence \in BOOLEAN /\ f.pending \in BOOLEAN
      BY NotificationsAssumption
  <1> QED
      BY <1>1, <1>2, NotificationsAssumption DEF Keys, AllLoops

\* What is known of a row.
LEMMA RowFacts ==
    ASSUME NInv, NEW n \in Keys
    PROVE  notices[n] \in Notice /\ RowOK(notices[n]) /\ RowFits(n, notices[n])
           /\ messages[n] \in Seq(Texts)
  BY DEF NInv, NoticesType, RowsOK

\* An absent notice is well formed and names no message.
LEMMA NoNoticeOK == NoNotice \in Notice /\ NoNotice.status = "ABSENT" /\ NoNotice.pid = 0
  BY Constants DEF NoNotice, Notice, Statuses, Codes

\* The invariant holds at the start.
LEMMA InitOK == BInit => BInv
  <1> SUFFICES ASSUME BInit PROVE BInv
      OBVIOUS
  <1>1. recipients \in [Recipients -> Recipient]
    <2>1. NoRecipient \in Recipient
        BY DEF NoRecipient, Recipient
    <2> QED
        BY <2>1 DEF BInit, NInit
  <1>2. notices \in [Keys -> Notice] /\ \A n \in Keys : notices[n] = NoNotice
      BY NoNoticeOK DEF BInit, NInit
  <1>3. batch \in [AllLoops -> Seq(ClaimRow)] /\ \A w \in AllLoops : batch[w] = << >>
      BY DEF BInit, NInit
  <1>4. messages \in [Keys -> Seq(Texts)] /\ now \in 0..MaxNow
      BY Constants DEF BInit, NInit
  <1>5. RowsOK
      BY <1>2, NoNoticeOK DEF RowsOK, RowOK, RowFits
  <1>6. ClaimsOK
      BY <1>3 DEF ClaimsOK
  <1>7. BookingsOK
    <2>1. NoBooking \in BookingRow /\ NoBooking.status = "ABSENT"
        BY DEF NoBooking, BookingRow
    <2> QED
        BY <2>1 DEF BInit, BookingsOK, BookingOK
  <1> QED
      BY <1>1, <1>2, <1>3, <1>4, <1>5, <1>6, <1>7 DEF BInv, NInv, NoticesType

\* A row that is not sent may become any well-formed row of the same message that is not
\* sent either.
LEMMA Unsent ==
    ASSUME NInv, NEW n \in Keys, notices[n].status \notin Taken,
           NEW row, row.pid = notices[n].pid, row.status # "SENT"
    PROVE  RowFits(n, row)
  BY RowFacts DEF RowFits

\* retire writes the status and drops the claim.
LEMMA RetireFacts ==
    ASSUME NEW row \in Notice, NEW status \in Statuses
    PROVE  /\ retire(row, status) \in Notice /\ retire(row, status).status = status
           /\ retire(row, status).pid = row.pid /\ retire(row, status).attempts = row.attempts
           /\ retire(row, status).msg = row.msg
  BY DEF retire, Notice

\* fail leaves a row that is given up, or waits with attempts left.
LEMMA FailFacts ==
    ASSUME NEW row \in Notice, row.attempts < MaxAttempts, NEW permanent \in BOOLEAN, NEW code \in Codes
    PROVE  /\ fail(row, permanent, code) \in Notice
           /\ fail(row, permanent, code).status \in {"FAILED", "PENDING"}
           /\ fail(row, permanent, code).pid = row.pid
           /\ RowOK(fail(row, permanent, code))
  <1>1. PICK s : s = IF permanent \/ row.attempts + 1 >= MaxAttempts THEN "FAILED" ELSE "PENDING"
      OBVIOUS
  <1>2. PICK k : k = row.attempts + 1
      OBVIOUS
  <1>3. row.attempts \in 0..MaxAttempts /\ MaxAttempts \in Nat
      BY Constants DEF Notice
  <1>4. k \in 0..MaxAttempts /\ s \in {"FAILED", "PENDING"} /\ (s = "PENDING" => k < MaxAttempts)
      BY <1>1, <1>2, <1>3
  <1>5. PICK r : r = retire(row, s)
      OBVIOUS
  <1>6. r \in Notice /\ r.status = s /\ r.pid = row.pid /\ r.attempts = row.attempts
      BY <1>4, <1>5, RetireFacts DEF Statuses
  <1>7. PICK q : q = [r EXCEPT !.attempts = k, !.code = code]
      OBVIOUS
  <1>8. q \in Notice /\ q.status = s /\ q.pid = row.pid /\ q.attempts = k
      BY <1>4, <1>6, <1>7 DEF Notice
  <1>9. fail(row, permanent, code) = q
      BY <1>1, <1>2, <1>5, <1>6, <1>7 DEF fail
  <1> QED
      BY <1>4, <1>8, <1>9 DEF RowOK

\* An action that changes rows, one by one, and neither messages nor reports.
LEMMA RowsMove ==
    ASSUME NInv, UNCHANGED <<messages, heard>>, NEW f, notices' = [n \in Keys |-> f[n]],
           \A n \in Keys : f[n] \in Notice /\ RowOK(f[n]) /\ RowFits(n, f[n]),
           batch' \in [AllLoops -> Seq(ClaimRow)], ClaimsOK',
           recipients' \in [Recipients -> Recipient], now' \in 0..MaxNow
    PROVE  NInv'
  <1>1. notices' \in [Keys -> Notice] /\ \A n \in Keys : notices'[n] = f[n]
      OBVIOUS
  <1>2. messages' \in [Keys -> Seq(Texts)]
      BY DEF NInv, NoticesType
  <1>3. RowsOK'
    <2> SUFFICES ASSUME NEW n \in Keys PROVE (RowOK(notices[n]) /\ RowFits(n, notices[n]))'
        BY DEF RowsOK
    <2> QED
        BY <1>1 DEF RowOK, RowFits
  <1> QED
      BY <1>1, <1>2, <1>3 DEF NInv, NoticesType

\* Claims do not change with the rows.
LEMMA ClaimsSame ==
    ASSUME NInv, UNCHANGED <<batch, messages>>
    PROVE  batch' \in [AllLoops -> Seq(ClaimRow)] /\ ClaimsOK'
  BY DEF NInv, NoticesType, ClaimsOK, ClaimOK

\* Rows are enqueued; a source that was told before is left alone.
LEMMA EnqueuedKeeps ==
    ASSUME NInv, NEW told, notices' = Enqueued(told),
           UNCHANGED <<recipients, batch, messages, heard, now>>
    PROVE  NInv'
  <1>1. NewNotice \in Notice /\ NewNotice.status = "PENDING" /\ NewNotice.pid = 0 /\ NewNotice.attempts = 0
    <2>1. now \in Nat
        BY Constants DEF NInv, NoticesType
    <2>2. PICK t : t = now
        OBVIOUS
    <2>3. PICK row : row = [NoNotice EXCEPT !.status = "PENDING", !.born = t]
        OBVIOUS
    <2>4. row = NewNotice
        BY <2>2, <2>3 DEF NewNotice
    <2>5. row \in Notice /\ row.status = "PENDING" /\ row.pid = 0 /\ row.attempts = 0
        BY <2>1, <2>2, <2>3, NoNoticeOK DEF Notice, Statuses, NoNotice
    <2> QED
        BY <2>4, <2>5
  <1>2. RowOK(NewNotice) /\ \A n \in Keys : RowFits(n, NewNotice)
      BY <1>1, Constants DEF RowOK, RowFits
  <1>3. PICK f : f = [n \in Keys |-> IF n \in told /\ notices[n].status = "ABSENT" THEN NewNotice
                                     ELSE notices[n]]
      OBVIOUS
  <1>4. \A n \in Keys : f[n] \in Notice /\ RowOK(f[n]) /\ RowFits(n, f[n])
      BY <1>1, <1>2, <1>3, RowFacts
  <1>5. notices' = [n \in Keys |-> f[n]]
      BY <1>3 DEF Enqueued
  <1>6. recipients' \in [Recipients -> Recipient] /\ now' \in 0..MaxNow
      BY DEF NInv, NoticesType
  <1>7. batch' \in [AllLoops -> Seq(ClaimRow)] /\ ClaimsOK'
      BY ClaimsSame
  <1> QED
      BY <1>4, <1>5, <1>6, <1>7, RowsMove

(***************************************************************************)
(* The panel and the people                                                *)
(***************************************************************************)

\* A recipient is saved.
LEMMA SavedKeeps ==
    ASSUME NInv, NEW r \in Recipients, NEW form \in Forms, Saved(r, form),
           UNCHANGED <<notices, batch, messages, heard, now>>
    PROVE  NInv'
  <1>1. PICK x : x = recipients[r]
      OBVIOUS
  <1>2. x \in Recipient /\ recipients \in [Recipients -> Recipient]
      BY <1>1 DEF NInv, NoticesType
  <1>3. PICK y : y = [x EXCEPT !.status = form.status, !.evidence = form.evidence,
                               !.pending = form.pending]
      OBVIOUS
  <1>4. y \in Recipient
    <2>1. form.status \in {"ACTIVE", "INACTIVE"} /\ form.evidence \in BOOLEAN /\ form.pending \in BOOLEAN
        BY Constants
    <2> QED
        BY <1>2, <1>3, <2>1 DEF Recipient
  <1>5. recipients' = [recipients EXCEPT ![r] = y]
      BY <1>1, <1>2, <1>3 DEF Saved
  <1>6. recipients' \in [Recipients -> Recipient]
      BY <1>2, <1>4, <1>5
  <1>7. RowsOK'
      BY DEF NInv, RowsOK, RowOK, RowFits
  <1>8. batch' \in [AllLoops -> Seq(ClaimRow)] /\ ClaimsOK'
      BY ClaimsSame
  <1> QED
      BY <1>6, <1>7, <1>8 DEF NInv, NoticesType

\* A recipient writes: what was deferred for it is released.
LEMMA InterceptKeeps ==
    ASSUME NInv, NEW r \in Recipients, NEW sent \in 0..MaxNow, intercept_staff_inbound(r, sent)
    PROVE  NInv'
  <1>1. recipients' \in [Recipients -> Recipient]
    <2>1. PICK x : x = recipients[r]
        OBVIOUS
    <2>2. x \in Recipient /\ recipients \in [Recipients -> Recipient] /\ sent \in Nat
        BY <2>1, Constants DEF NInv, NoticesType
    <2>3. PICK y : y = [x EXCEPT !.inbound = sent]
        OBVIOUS
    <2>4. y \in Recipient
        BY <2>2, <2>3 DEF Recipient
    <2>5. recipients' = [recipients EXCEPT ![r] = y]
        BY <2>1, <2>2, <2>3 DEF intercept_staff_inbound
    <2> QED
        BY <2>2, <2>4, <2>5
  <1>2. PICK f : f = [n \in Keys |->
          IF n \in StaffKeys /\ n.to = r /\ notices[n].status = "DEFERRED" /\ notices[n].born > now - MaxAge
          THEN [notices[n] EXCEPT !.status = "PENDING", !.code = "NONE"] ELSE notices[n]]
      OBVIOUS
  <1>3. notices' = [n \in Keys |-> f[n]] /\ UNCHANGED <<batch, messages, heard, now>>
      BY <1>2 DEF intercept_staff_inbound
  <1>4. ASSUME NEW n \in Keys PROVE f[n] \in Notice /\ RowOK(f[n]) /\ RowFits(n, f[n])
    <2>1. notices[n] \in Notice /\ RowOK(notices[n]) /\ RowFits(n, notices[n])
        BY RowFacts
    <2>2. CASE f[n] = notices[n]
        BY <2>1, <2>2
    <2>3. CASE notices[n].status = "DEFERRED" /\ f[n] = [notices[n] EXCEPT !.status = "PENDING", !.code = "NONE"]
      <3>1. f[n] \in Notice /\ f[n].status = "PENDING" /\ f[n].pid = notices[n].pid
            /\ f[n].attempts = notices[n].attempts
          BY <2>1, <2>3 DEF Notice, Statuses, Codes
      <3>2. RowFits(n, f[n])
          BY <2>3, <3>1, Unsent DEF Taken
      <3>3. RowOK(f[n])
          BY <2>1, <2>3, <3>1 DEF RowOK
      <3> QED
          BY <3>1, <3>2, <3>3
    <2> QED
        BY <1>2, <2>2, <2>3
  <1>5. batch' \in [AllLoops -> Seq(ClaimRow)] /\ ClaimsOK' /\ now' \in 0..MaxNow
      BY <1>3, ClaimsSame DEF NInv, NoticesType
  <1> QED
      BY <1>1, <1>3, <1>4, <1>5, RowsMove

(***************************************************************************)
(* The queue                                                               *)
(***************************************************************************)

\* Stale claims fail and old deferred notices expire.
LEMMA MaintainKeeps ==
    ASSUME NInv, NEW w, NEW keys, maintain_queue(w, keys) PROVE NInv'
  <1>1. PICK rows \in SUBSET {n \in keys : \/ notices[n].status = "SENDING"
                                           \/ notices[n].status = "DEFERRED" /\ TooOld(notices[n])} :
            notices' = [n \in Keys |->
                   CASE n \notin rows -> notices[n]
                     [] n \in rows /\ notices[n].status = "DEFERRED" -> retire(notices[n], "EXPIRED")
                     [] OTHER -> fail(notices[n], FALSE, "NONE")]
      BY DEF maintain_queue
  <1>2. PICK f : f = [n \in Keys |->
                   CASE n \notin rows -> notices[n]
                     [] n \in rows /\ notices[n].status = "DEFERRED" -> retire(notices[n], "EXPIRED")
                     [] OTHER -> fail(notices[n], FALSE, "NONE")]
      OBVIOUS
  <1>3. notices' = [n \in Keys |-> f[n]]
      BY <1>1, <1>2
  <1>4. ASSUME NEW n \in Keys PROVE f[n] \in Notice /\ RowOK(f[n]) /\ RowFits(n, f[n])
    <2>1. notices[n] \in Notice /\ RowOK(notices[n]) /\ RowFits(n, notices[n])
        BY RowFacts
    <2>2. CASE n \notin rows
      <3>1. f[n] = notices[n]
          BY <1>2, <2>2
      <3> QED
          BY <2>1, <3>1
    <2>3. CASE n \in rows /\ notices[n].status = "DEFERRED"
      <3>1. f[n] = retire(notices[n], "EXPIRED")
          BY <1>2, <2>3
      <3>2. f[n] \in Notice /\ f[n].status = "EXPIRED" /\ f[n].pid = notices[n].pid
          BY <2>1, <3>1, RetireFacts DEF Statuses
      <3>3. RowFits(n, f[n])
          BY <2>3, <3>2, Unsent DEF Taken
      <3> QED
          BY <3>2, <3>3 DEF RowOK
    <2>4. CASE n \in rows /\ notices[n].status # "DEFERRED"
      <3>1. f[n] = fail(notices[n], FALSE, "NONE") /\ notices[n].status = "SENDING"
          BY <1>1, <1>2, <2>4
      <3>2. notices[n].attempts < MaxAttempts /\ "NONE" \in Codes
          BY <2>1, <3>1 DEF RowOK, Codes
      <3>3. f[n] \in Notice /\ f[n].status \in {"FAILED", "PENDING"} /\ f[n].pid = notices[n].pid
            /\ RowOK(f[n])
        <4>1. PICK p : p = FALSE
            OBVIOUS
        <4>2. p \in BOOLEAN /\ f[n] = fail(notices[n], p, "NONE")
            BY <3>1, <4>1
        <4> QED
            BY <2>1, <3>2, <4>2, FailFacts
      <3>4. RowFits(n, f[n])
          BY <3>1, <3>3, Unsent DEF Taken
      <3> QED
          BY <3>3, <3>4
    <2> QED
        BY <2>2, <2>3, <2>4
  <1>5. UNCHANGED <<recipients, batch, messages, heard, now>>
      BY DEF maintain_queue
  <1>6. batch' \in [AllLoops -> Seq(ClaimRow)] /\ ClaimsOK'
      BY <1>5, ClaimsSame
  <1>7. recipients' \in [Recipients -> Recipient] /\ now' \in 0..MaxNow
      BY <1>5 DEF NInv, NoticesType
  <1> QED
      BY <1>3, <1>4, <1>5, <1>6, <1>7, RowsMove

\* A loop takes a batch.
LEMMA ClaimKeeps ==
    ASSUME NInv, NEW w \in AllLoops, NEW rows, rows \subseteq Keys, NEW sendable, sendable \subseteq rows,
           NEW plan, \A n \in sendable : plan[n] \in Plans,
           \A n \in rows : notices[n].status = "PENDING",
           claim_batch(w, rows, sendable, plan)
    PROVE  NInv'
  <1>1. PICK claims \in [1..Cardinality(sendable) -> sendable] :
            batch' = [batch EXCEPT ![w] = [i \in DOMAIN claims |-> Claim(claims[i], plan[claims[i]])]]
      BY DEF claim_batch
  <1>2. Cardinality(sendable) \in Nat
      BY Constants, FS_Subset, FS_CardinalityType
  <1>3. PICK seq : seq = [i \in DOMAIN claims |-> Claim(claims[i], plan[claims[i]])]
      OBVIOUS
  <1>4. ASSUME NEW i \in DOMAIN claims PROVE seq[i] \in ClaimRow /\ ClaimOK(seq[i])
    <2>1. PICK n : n = claims[i]
        OBVIOUS
    <2>2. n \in Keys /\ plan[n] \in Plans
        BY <1>1, <2>1
    <2>3. notices[n].drawn \in Nat
        BY <2>2, RowFacts DEF Notice
    <2>4. seq[i] = Claim(n, plan[n])
        BY <1>3, <2>1
    <2> QED
        BY <2>2, <2>3, <2>4 DEF Claim, ClaimRow, ClaimOK, Codes
  <1>5. seq \in [1..Cardinality(sendable) -> ClaimRow]
      BY <1>1, <1>3, <1>4
  <1>6. seq \in Seq(ClaimRow)
      BY <1>2, <1>5, SeqDef
  <1>7. batch' = [batch EXCEPT ![w] = seq] /\ UNCHANGED <<recipients, messages, heard, now>>
      BY <1>1, <1>3 DEF claim_batch
  <1>8. batch' \in [AllLoops -> Seq(ClaimRow)] /\ batch'[w] = seq
        /\ \A v \in AllLoops \ {w} : batch'[v] = batch[v]
      BY <1>6, <1>7 DEF NInv, NoticesType
  <1>9. ClaimsOK'
    <2> SUFFICES ASSUME NEW v \in AllLoops, NEW i \in DOMAIN batch'[v] PROVE ClaimOK(batch[v][i])'
        BY DEF ClaimsOK
    <2>1. ClaimOK(batch'[v][i])
      <3>1. CASE v = w
          BY <1>3, <1>4, <1>8, <3>1
      <3>2. CASE v # w
          BY <1>8, <3>2 DEF NInv, ClaimsOK
      <3> QED
          BY <3>1, <3>2
    <2> QED
        BY <1>7, <2>1 DEF ClaimOK
  <1>10. PICK f : f = [n \in Keys |->
              CASE n \notin rows    -> notices[n]
                [] n \in sendable   -> [notices[n] EXCEPT !.status = "SENDING", !.drawn = @ + 1,
                                                          !.token = notices[n].drawn + 1]
                [] OTHER            -> retire(notices[n], "EXPIRED")]
      OBVIOUS
  <1>11. notices' = [n \in Keys |-> f[n]]
      BY <1>10 DEF claim_batch
  <1>12. ASSUME NEW n \in Keys PROVE f[n] \in Notice /\ RowOK(f[n]) /\ RowFits(n, f[n])
    <2>1. notices[n] \in Notice /\ RowOK(notices[n]) /\ RowFits(n, notices[n])
        BY RowFacts
    <2>2. CASE n \notin rows
      <3>1. f[n] = notices[n]
          BY <1>10, <2>2
      <3> QED
          BY <2>1, <3>1
    <2>3. CASE n \in rows /\ n \in sendable
      <3>1. PICK d : d = notices[n].drawn + 1
          OBVIOUS
      <3>2. d \in Nat
          BY <2>1, <3>1 DEF Notice
      <3>3. f[n] = [notices[n] EXCEPT !.status = "SENDING", !.drawn = d, !.token = d]
          BY <1>10, <2>3, <3>1
      <3>4. f[n] \in Notice /\ f[n].status = "SENDING" /\ f[n].pid = notices[n].pid
            /\ f[n].attempts = notices[n].attempts
          BY <2>1, <3>2, <3>3 DEF Notice, Statuses
      <3>5. notices[n].status = "PENDING"
          BY <2>3
      <3>6. RowFits(n, f[n])
          BY <3>4, <3>5, Unsent DEF Taken
      <3> QED
          BY <2>1, <3>4, <3>5, <3>6 DEF RowOK
    <2>4. CASE n \in rows /\ n \notin sendable
      <3>1. f[n] = retire(notices[n], "EXPIRED") /\ notices[n].status = "PENDING"
          BY <1>10, <2>4
      <3>2. f[n] \in Notice /\ f[n].status = "EXPIRED" /\ f[n].pid = notices[n].pid
          BY <2>1, <3>1, RetireFacts DEF Statuses
      <3>3. RowFits(n, f[n])
          BY <3>1, <3>2, Unsent DEF Taken
      <3> QED
          BY <3>2, <3>3 DEF RowOK
    <2> QED
        BY <2>2, <2>3, <2>4
  <1>13. recipients' \in [Recipients -> Recipient] /\ now' \in 0..MaxNow
      BY <1>7 DEF NInv, NoticesType
  <1> QED
      BY <1>7, <1>8, <1>9, <1>11, <1>12, <1>13, RowsMove

\* A staff loop claims (claim_staff_outbox_batch).
LEMMA StaffClaimKeeps ==
    ASSUME NInv, NEW w \in Loops, claim_staff_outbox_batch(w) PROVE NInv'
  <1>1. PICK rows \in Batches(StaffKeys) : claim_batch(w, rows, rows, [n \in rows |-> StaffPlan(n)])
      BY DEF claim_staff_outbox_batch
  <1>2. rows \subseteq Keys /\ \A n \in rows : notices[n].status = "PENDING"
      BY Constants DEF Batches
  <1>3. PICK plan : plan = [n \in rows |-> StaffPlan(n)]
      OBVIOUS
  <1>4. \A n \in rows : plan[n] \in Plans
      BY <1>3 DEF StaffPlan, Plans
  <1>5. w \in AllLoops
      BY Constants
  <1> QED
      BY <1>1, <1>2, <1>3, <1>4, <1>5, ClaimKeeps

\* A customer loop claims; what is not admissible any more expires.
LEMMA CustomerClaimKeeps ==
    ASSUME NInv, NEW w \in ReminderLoops, claim_customer_batch(w) PROVE NInv'
  <1>1. PICK rows \in Batches(Reminders) :
            claim_batch(w, rows, {n \in rows : admissible(n)}, [n \in rows |-> "TEMPLATE"])
      BY DEF claim_customer_batch
  <1>2. rows \subseteq Keys /\ \A n \in rows : notices[n].status = "PENDING"
      BY Constants DEF Batches
  <1>3. PICK plan : plan = [n \in rows |-> "TEMPLATE"]
      OBVIOUS
  <1>4. PICK sendable : sendable = {n \in rows : admissible(n)}
      OBVIOUS
  <1>5. sendable \subseteq rows /\ \A n \in sendable : plan[n] \in Plans
      BY <1>3, <1>4 DEF Plans
  <1>6. w \in AllLoops
      BY Constants
  <1> QED
      BY <1>1, <1>2, <1>3, <1>4, <1>5, <1>6, ClaimKeeps

(***************************************************************************)
(* Sending                                                                 *)
(***************************************************************************)

\* The log of messages only grows.
Longer == \A n \in Keys : /\ DOMAIN messages[n] \subseteq DOMAIN messages'[n]
                          /\ \A k \in DOMAIN messages[n] : messages'[n][k] = messages[n][k]

\* What is known of the claim a loop is busy with.
LEMMA HeadFacts ==
    ASSUME NInv, NEW w \in AllLoops, batch[w] # << >>
    PROVE  /\ batch[w] \in Seq(ClaimRow) /\ Len(batch[w]) \in Nat /\ Len(batch[w]) >= 1
           /\ Head(batch[w]) = batch[w][1]
           /\ batch[w][1] \in ClaimRow /\ ClaimOK(batch[w][1])
  <1>1. batch[w] \in Seq(ClaimRow)
      BY DEF NInv, NoticesType
  <1>2. Len(batch[w]) \in Nat /\ Len(batch[w]) >= 1
      BY <1>1
  <1> QED
      BY <1>1, <1>2 DEF NInv, ClaimsOK

\* The head of a batch is answered while the log grows.
LEMMA AnsweredKeeps ==
    ASSUME NInv, NEW w \in AllLoops, batch[w] # << >>,
           NEW answer \in {"NONE", "OK", "RETRY", "PERMANENT"}, NEW code \in Codes, NEW pid \in Nat,
           Answered(w, answer, code, pid),
           batch[w][1].plan \in Texts,
           messages' \in [Keys -> Seq(Texts)], Longer,
           answer = "OK" => /\ pid \in DOMAIN messages'[batch[w][1].n]
                            /\ messages'[batch[w][1].n][pid] = batch[w][1].plan,
           UNCHANGED <<recipients, notices, heard, now>>
    PROVE  NInv'
  <1>1. PICK c : c = batch[w][1]
      OBVIOUS
  <1>2. c \in ClaimRow /\ batch[w] \in Seq(ClaimRow) /\ Len(batch[w]) \in Nat /\ Len(batch[w]) >= 1
      BY <1>1, HeadFacts
  <1>3. PICK q : q = [c EXCEPT !.answer = answer, !.code = code, !.pid = pid]
      OBVIOUS
  <1>4. q \in ClaimRow /\ q.answer = answer /\ q.pid = pid /\ q.plan = c.plan /\ q.n = c.n
      BY <1>2, <1>3 DEF ClaimRow
  <1>5. PICK seq : seq = [batch[w] EXCEPT ![1] = q]
      OBVIOUS
  <1>6. seq \in Seq(ClaimRow) /\ DOMAIN seq = DOMAIN batch[w] /\ seq[1] = q
        /\ \A i \in DOMAIN seq \ {1} : seq[i] = batch[w][i]
      BY <1>2, <1>4, <1>5
  <1>7. batch' = [batch EXCEPT ![w] = seq]
      BY <1>1, <1>2, <1>3, <1>5 DEF Answered
  <1>8. batch' \in [AllLoops -> Seq(ClaimRow)] /\ batch'[w] = seq
        /\ \A v \in AllLoops \ {w} : batch'[v] = batch[v]
      BY <1>6, <1>7 DEF NInv, NoticesType
  <1>9. ASSUME NEW d \in ClaimRow, ClaimOK(d) PROVE ClaimOK(d)'
    <2>1. d.n \in Keys
        BY DEF ClaimRow
    <2> QED
        BY <1>9, <2>1 DEF ClaimOK, Longer
  <1>10. ClaimOK(q)'
      BY <1>1, <1>4 DEF ClaimOK
  <1>11. ClaimsOK'
    <2> SUFFICES ASSUME NEW v \in AllLoops, NEW i \in DOMAIN batch'[v] PROVE ClaimOK(batch[v][i])'
        BY DEF ClaimsOK
    <2>1. CASE v = w /\ i = 1
        BY <1>6, <1>8, <1>10, <2>1
    <2>2. CASE ~(v = w /\ i = 1)
      <3>1. i \in DOMAIN batch[v] /\ batch'[v][i] = batch[v][i]
          BY <1>6, <1>8, <2>2
      <3>2. batch[v][i] \in ClaimRow /\ ClaimOK(batch[v][i])
          BY <3>1 DEF NInv, NoticesType, ClaimsOK
      <3>3. PICK d : d = batch[v][i]
          OBVIOUS
      <3>4. ClaimOK(d)'
          BY <1>9, <3>2, <3>3
      <3> QED
          BY <3>1, <3>3, <3>4
    <2> QED
        BY <2>1, <2>2
  <1>12. RowsOK'
    <2> SUFFICES ASSUME NEW n \in Keys PROVE (RowOK(notices[n]) /\ RowFits(n, notices[n]))'
        BY DEF RowsOK
    <2>1. RowOK(notices[n]) /\ RowFits(n, notices[n])
        BY RowFacts
    <2>2. RowOK(notices[n])'
        BY <2>1 DEF RowOK
    <2> QED
        BY <2>1, <2>2 DEF RowFits, Longer
  <1> QED
      BY <1>8, <1>11, <1>12 DEF NInv, NoticesType

\* The provider call: the message is taken, refused, or its answer is lost.
LEMMA SendKeeps ==
    ASSUME NInv, NEW w \in AllLoops, Send(w) PROVE NInv'
  <1>1. batch[w] # << >> /\ Head(batch[w]).plan \in Texts
      BY DEF Send, SendAccepted, SendRefused, Calling, Texts
  <1>2. PICK c : c = batch[w][1]
      OBVIOUS
  <1>3. c \in ClaimRow /\ Head(batch[w]) = c /\ c.n \in Keys /\ c.plan \in Texts
      BY <1>1, <1>2, HeadFacts DEF ClaimRow
  <1>4. ASSUME NEW answer \in {"OK", "RETRY"}, SendAccepted(w, answer) PROVE NInv'
    <2>1. PICK pid : pid = IF answer = "OK" THEN Len(messages[c.n]) + 1 ELSE 0
        OBVIOUS
    <2>2. Answered(w, answer, "NONE", pid) /\ UNCHANGED <<recipients, notices, heard, now>>
        BY <1>3, <1>4, <2>1 DEF SendAccepted
    <2>3. messages' = [messages EXCEPT ![c.n] = Append(messages[c.n], c.plan)]
        BY <1>3, <1>4 DEF SendAccepted
    <2>4. messages[c.n] \in Seq(Texts) /\ messages \in [Keys -> Seq(Texts)] /\ Len(messages[c.n]) \in Nat
        BY <1>3, RowFacts DEF NInv, NoticesType
    <2>5. PICK seq : seq = Append(messages[c.n], c.plan)
        OBVIOUS
    <2>6. seq \in Seq(Texts) /\ Len(messages[c.n]) + 1 \in DOMAIN seq
          /\ seq[Len(messages[c.n]) + 1] = c.plan
          /\ DOMAIN messages[c.n] \subseteq DOMAIN seq
          /\ \A k \in DOMAIN messages[c.n] : seq[k] = messages[c.n][k]
        BY <1>3, <2>4, <2>5
    <2>7. messages' \in [Keys -> Seq(Texts)] /\ messages'[c.n] = seq
          /\ \A n \in Keys \ {c.n} : messages'[n] = messages[n]
        BY <1>3, <2>3, <2>4, <2>5, <2>6
    <2>8. Longer
        BY <2>6, <2>7 DEF Longer
    <2>9. pid \in Nat /\ (answer = "OK" => pid \in DOMAIN messages'[c.n] /\ messages'[c.n][pid] = c.plan)
        BY <2>1, <2>4, <2>6, <2>7
    <2>10. answer \in {"NONE", "OK", "RETRY", "PERMANENT"} /\ "NONE" \in Codes
        BY DEF Codes
    <2> QED
        BY <1>1, <1>2, <1>3, <2>2, <2>7, <2>8, <2>9, <2>10, AnsweredKeeps
  <1>5. ASSUME NEW answer \in {"RETRY", "PERMANENT"}, NEW code \in Codes, SendRefused(w, answer, code)
        PROVE  NInv'
    <2>1. Answered(w, answer, code, 0) /\ UNCHANGED <<recipients, notices, messages, heard, now>>
        BY <1>5 DEF SendRefused
    <2>2. messages' \in [Keys -> Seq(Texts)] /\ Longer
        BY <2>1 DEF NInv, NoticesType, Longer
    <2>3. answer \in {"NONE", "OK", "RETRY", "PERMANENT"} /\ answer # "OK" /\ 0 \in Nat
        OBVIOUS
    <2> QED
        BY <1>1, <1>2, <1>3, <2>1, <2>2, <2>3, AnsweredKeeps
  <1> QED
      BY <1>4, <1>5 DEF Send

\* The batch loses its head, or all of it.
LEMMA ShorterBatch ==
    ASSUME NInv, NEW w \in AllLoops, messages' = messages,
           \/ batch' = [batch EXCEPT ![w] = << >>]
           \/ batch[w] # << >> /\ batch' = [batch EXCEPT ![w] = Tail(@)]
    PROVE  batch' \in [AllLoops -> Seq(ClaimRow)] /\ ClaimsOK'
  <1>1. batch \in [AllLoops -> Seq(ClaimRow)] /\ batch[w] \in Seq(ClaimRow)
      BY DEF NInv, NoticesType
  <1>2. PICK seq : /\ seq \in Seq(ClaimRow) /\ batch' = [batch EXCEPT ![w] = seq]
                   /\ \A i \in DOMAIN seq : \E j \in DOMAIN batch[w] : seq[i] = batch[w][j]
    <2>1. CASE batch' = [batch EXCEPT ![w] = << >>]
      <3>1. << >> \in Seq(ClaimRow) /\ DOMAIN << >> = {}
          OBVIOUS
      <3> QED
          BY <2>1, <3>1
    <2>2. CASE batch[w] # << >> /\ batch' = [batch EXCEPT ![w] = Tail(@)]
      <3>1. Tail(batch[w]) \in Seq(ClaimRow) /\ batch' = [batch EXCEPT ![w] = Tail(batch[w])]
          BY <1>1, <2>2
      <3>2. \A i \in DOMAIN Tail(batch[w]) : i + 1 \in DOMAIN batch[w] /\ Tail(batch[w])[i] = batch[w][i + 1]
          BY <1>1, <2>2
      <3>3. PICK t : t = Tail(batch[w])
          OBVIOUS
      <3>4. t \in Seq(ClaimRow) /\ batch' = [batch EXCEPT ![w] = t]
            /\ \A i \in DOMAIN t : \E j \in DOMAIN batch[w] : t[i] = batch[w][j]
          BY <3>1, <3>2, <3>3
      <3> QED
          BY <3>4
    <2> QED
        BY <2>1, <2>2
  <1>3. batch' \in [AllLoops -> Seq(ClaimRow)] /\ batch'[w] = seq
        /\ \A v \in AllLoops \ {w} : batch'[v] = batch[v]
      BY <1>1, <1>2
  <1>4. ClaimsOK'
    <2> SUFFICES ASSUME NEW v \in AllLoops, NEW i \in DOMAIN batch'[v] PROVE ClaimOK(batch[v][i])'
        BY DEF ClaimsOK
    <2>1. PICK j \in DOMAIN batch[v] : batch'[v][i] = batch[v][j]
        BY <1>2, <1>3
    <2>2. ClaimOK(batch[v][j])
        BY <2>1 DEF NInv, ClaimsOK
    <2> QED
        BY <2>1, <2>2 DEF ClaimOK
  <1> QED
      BY <1>3, <1>4

\* What a settlement writes to the row its claim still owns.
LEMMA SettlementFits ==
    ASSUME NInv, NEW c \in ClaimRow, ClaimOK(c), NEW n \in Keys, c.n = n,
           notices[n].status = "SENDING",
           c.answer # "NONE" \/ c.plan \notin Texts
    PROVE  LET k == Settlement(notices[n], c) IN k \in Notice /\ RowOK(k) /\ RowFits(n, k)
  <1>1. PICK row : row = notices[n]
      OBVIOUS
  <1>2. row \in Notice /\ RowOK(row) /\ row.status = "SENDING" /\ row.attempts < MaxAttempts
      BY <1>1, RowFacts DEF RowOK
  <1>3. PICK k : k = Settlement(row, c)
      OBVIOUS
  <1>4. CASE c.answer \in {"RETRY", "PERMANENT"}
    <2>1. PICK p : p = (c.answer = "PERMANENT")
        OBVIOUS
    <2>2. p \in BOOLEAN /\ c.code \in Codes /\ k = fail(row, p, c.code)
        BY <1>3, <1>4, <2>1 DEF Settlement, ClaimRow
    <2>3. k \in Notice /\ k.status \in {"FAILED", "PENDING"} /\ k.pid = row.pid /\ RowOK(k)
        BY <1>2, <2>2, FailFacts
    <2>4. RowFits(n, k)
        BY <1>1, <1>2, <2>3, Unsent DEF Taken
    <2> QED
        BY <1>1, <1>3, <2>3, <2>4
  <1>5. CASE c.answer = "OK"
    <2>1. PICK r : r = retire(row, "SENT")
        OBVIOUS
    <2>2. r \in Notice /\ r.status = "SENT" /\ r.attempts = row.attempts
        BY <1>2, <2>1, RetireFacts DEF Statuses
    <2>3. c.plan \in Texts /\ c.pid \in Nat /\ c.pid \in DOMAIN messages[n] /\ messages[n][c.pid] = c.plan
        BY <1>5 DEF ClaimOK, ClaimRow
    <2>4. k = [r EXCEPT !.msg = c.plan, !.pid = c.pid, !.code = "NONE"]
        BY <1>3, <1>5, <2>1 DEF Settlement, update
    <2>5. k \in Notice /\ k.status = "SENT" /\ k.attempts = row.attempts /\ k.pid = c.pid /\ k.msg = c.plan
        BY <2>2, <2>3, <2>4 DEF Notice, Texts, Codes
    <2>6. RowOK(k) /\ RowFits(n, k)
        BY <1>2, <2>3, <2>5 DEF RowOK, RowFits, Taken
    <2> QED
        BY <1>1, <1>3, <2>5, <2>6
  <1>6. CASE c.answer = "NONE"
    <2>1. c.plan \in {"EXPIRED", "DEFERRED"}
        BY <1>6 DEF ClaimRow, Plans, Texts
    <2>2. PICK r : r = retire(row, c.plan)
        OBVIOUS
    <2>3. r \in Notice /\ r.status = c.plan /\ r.attempts = row.attempts /\ r.pid = row.pid
        BY <1>2, <2>1, <2>2, RetireFacts DEF Statuses
    <2>4. k = [r EXCEPT !.msg = "NONE", !.pid = r.pid, !.code = r.code]
        BY <1>3, <1>6, <2>2, <2>3 DEF Settlement, update
    <2>5. k \in Notice /\ k.status = c.plan /\ k.attempts = row.attempts /\ k.pid = row.pid
        BY <2>3, <2>4 DEF Notice
    <2>6. RowOK(k)
        BY <1>2, <2>5 DEF RowOK
    <2>7. RowFits(n, k)
        BY <1>1, <1>2, <2>1, <2>5, Unsent DEF Taken
    <2> QED
        BY <1>1, <1>3, <2>5, <2>6, <2>7
  <1> QED
      BY <1>4, <1>5, <1>6 DEF ClaimRow

\* A settlement writes only to the row its claim still owns.
LEMMA SettleKeeps ==
    ASSUME NInv, NEW w \in AllLoops, settle_claim(w) PROVE NInv'
  <1>1. PICK c : c = batch[w][1]
      OBVIOUS
  <1>2. batch[w] # << >> /\ UNCHANGED <<recipients, messages, heard, now>>
      BY DEF settle_claim
  <1>3. c \in ClaimRow /\ Head(batch[w]) = c /\ ClaimOK(c) /\ c.n \in Keys
      BY <1>1, <1>2, HeadFacts DEF ClaimRow
  <1>4. c.answer # "NONE" \/ c.plan \notin Texts
      BY <1>2, <1>3 DEF settle_claim, Calling, Texts
  <1>5. batch' \in [AllLoops -> Seq(ClaimRow)] /\ ClaimsOK'
      BY <1>2, ShorterBatch DEF settle_claim
  <1>6. PICK f : f = IF Owns(notices[c.n], c)
                     THEN [notices EXCEPT ![c.n] = Settlement(notices[c.n], c)] ELSE notices
      OBVIOUS
  <1>7. notices \in [Keys -> Notice]
      BY DEF NInv, NoticesType
  <1>8. ASSUME NEW n \in Keys PROVE f[n] \in Notice /\ RowOK(f[n]) /\ RowFits(n, f[n])
    <2>1. notices[n] \in Notice /\ RowOK(notices[n]) /\ RowFits(n, notices[n])
        BY RowFacts
    <2>2. CASE Owns(notices[c.n], c) /\ n = c.n
      <3>1. notices[n].status = "SENDING" /\ f[n] = Settlement(notices[n], c)
          BY <1>6, <1>7, <2>2 DEF Owns
      <3> QED
          BY <1>3, <1>4, <2>2, <3>1, SettlementFits
    <2>3. CASE ~(Owns(notices[c.n], c) /\ n = c.n)
      <3>1. f[n] = notices[n]
          BY <1>6, <1>7, <2>3
      <3> QED
          BY <2>1, <3>1
    <2> QED
        BY <2>2, <2>3
  <1>9. notices' = f
      BY <1>3, <1>6 DEF settle_claim
  <1>10. notices' = [n \in Keys |-> f[n]]
      BY <1>6, <1>7, <1>9
  <1>11. recipients' \in [Recipients -> Recipient] /\ now' \in 0..MaxNow
      BY <1>2 DEF NInv, NoticesType
  <1> QED
      BY <1>2, <1>5, <1>8, <1>10, <1>11, RowsMove

\* A loop forgets its batch.
LEMMA CrashKeeps ==
    ASSUME NInv, NEW w \in AllLoops, Crash(w) PROVE NInv'
  <1>1. UNCHANGED <<recipients, notices, messages, heard, now>>
      BY DEF Crash
  <1>2. batch' \in [AllLoops -> Seq(ClaimRow)] /\ ClaimsOK'
      BY <1>1, ShorterBatch DEF Crash
  <1>3. RowsOK'
      BY <1>1 DEF NInv, RowsOK, RowOK, RowFits
  <1> QED
      BY <1>1, <1>2, <1>3 DEF NInv, NoticesType

(***************************************************************************)
(* Reports                                                                 *)
(***************************************************************************)

\* A report that finds its row: the first one of a failure finds it sent.
LEMMA ReportFits ==
    ASSUME NInv, NEW n \in Keys, NEW k \in DOMAIN messages[n], notices[n].pid = k,
           NEW status \in {"DELIVERED", "READ", "FAILED"}, NEW code \in {"WINDOW", "OTHER"},
           NEW retry \in {"PENDING", "DEFERRED"}, <<n, k, status>> \notin heard,
           UNCHANGED messages, heard' = heard \cup {<<n, k, status>>},
           NEW row, row = apply_provider_status(notices[n], status, code, retry)
    PROVE  row \in Notice /\ RowOK(row) /\ RowFits(n, row)'
  <1>1. PICK o : o = notices[n]
      OBVIOUS
  <1>2. o \in Notice /\ RowOK(o) /\ RowFits(n, o) /\ o.pid = k
      BY <1>1, RowFacts
  <1>3. k # 0
      BY RowFacts
  <1>4. row = apply_provider_status(o, status, code, retry)
      BY <1>1
  <1>5. CASE status # "FAILED" /\ Rank(status) > Rank(o.status)
    <2>1. row = [o EXCEPT !.status = status]
        BY <1>4, <1>5 DEF apply_provider_status
    <2>2. row \in Notice /\ row.status \in {"DELIVERED", "READ"}
        BY <1>2, <1>5, <2>1 DEF Notice, Statuses
    <2>3. RowOK(row) /\ RowFits(n, row)'
        BY <2>2 DEF RowOK, RowFits, Taken
    <2> QED
        BY <1>1, <1>4, <2>2, <2>3
  <1>6. CASE status = "FAILED" /\ FailureCounts(o)
    <2>1. o.status = "SENT" /\ o.attempts < MaxAttempts
        BY <1>2, <1>3, <1>6 DEF RowFits, RowOK, FailureCounts, Taken
    <2>2. PICK s : s = IF code = "WINDOW" /\ o.msg = "TEXT" THEN retry ELSE "FAILED"
        OBVIOUS
    <2>3. s \in Statuses /\ s # "SENT"
        BY <2>2 DEF Statuses
    <2>4. PICK r : r = retire(o, s)
        OBVIOUS
    <2>5. r \in Notice /\ r.status = s /\ r.pid = k /\ r.attempts = o.attempts
        BY <1>2, <2>3, <2>4, RetireFacts
    <2>6. row = [r EXCEPT !.code = code]
        BY <1>4, <1>6, <2>2, <2>4 DEF apply_provider_status
    <2>7. row \in Notice /\ row.status = s /\ row.pid = k /\ row.attempts = o.attempts
        BY <2>5, <2>6 DEF Notice, Codes
    <2>8. RowOK(row)
        BY <2>1, <2>7 DEF RowOK
    <2>9. RowFits(n, row)'
        BY <1>6, <2>3, <2>7 DEF RowFits
    <2> QED
        BY <1>1, <1>4, <2>7, <2>8, <2>9
  <1>7. CASE ~(status # "FAILED" /\ Rank(status) > Rank(o.status)) /\ ~(status = "FAILED" /\ FailureCounts(o))
    <2>1. row = o
        BY <1>4, <1>7 DEF apply_provider_status
    <2>2. RowFits(n, o)'
        BY <1>2 DEF RowFits
    <2> QED
        BY <1>1, <1>2, <1>4, <2>1, <2>2
  <1> QED
      BY <1>5, <1>6, <1>7

\* A report of the provider finds its row, or is forgotten.
LEMMA ReportKeeps ==
    ASSUME NInv, NEW n \in Keys, NEW k \in DOMAIN messages[n],
           NEW status \in {"DELIVERED", "READ", "FAILED"}, NEW code \in {"WINDOW", "OTHER"},
           record_staff_provider_status(n, k, status, code)
    PROVE  NInv'
  <1>1. UNCHANGED <<recipients, batch, messages, now>> /\ <<n, k, status>> \notin heard
      BY DEF record_staff_provider_status
  <1>2. batch' \in [AllLoops -> Seq(ClaimRow)] /\ ClaimsOK'
      BY <1>1, ClaimsSame
  <1>3. CASE notices[n].pid = k
    <2>1. PICK retry : retry = IF n.kind \in Templates THEN "PENDING" ELSE "DEFERRED"
        OBVIOUS
    <2>2. PICK row : row = apply_provider_status(notices[n], status, code, retry)
        OBVIOUS
    <2>3. heard' = heard \cup {<<n, k, status>>} /\ notices' = [notices EXCEPT ![n] = row]
        BY <1>3, <2>1, <2>2 DEF record_staff_provider_status
    <2>4. retry \in {"PENDING", "DEFERRED"}
        BY <2>1
    <2>5. row \in Notice /\ RowOK(row) /\ RowFits(n, row)'
        BY <1>1, <1>3, <2>2, <2>3, <2>4, ReportFits
    <2>6. notices' \in [Keys -> Notice] /\ notices'[n] = row
          /\ \A m \in Keys \ {n} : notices'[m] = notices[m]
        BY <2>3, <2>5 DEF NInv, NoticesType
    <2>7. RowsOK'
      <3> SUFFICES ASSUME NEW m \in Keys PROVE (RowOK(notices[m]) /\ RowFits(m, notices[m]))'
          BY DEF RowsOK
      <3>1. CASE m = n
          BY <2>5, <2>6, <3>1 DEF RowOK, RowFits
      <3>2. CASE m # n
        <4>1. RowOK(notices[m]) /\ RowFits(m, notices[m])
            BY RowFacts
        <4> QED
            BY <1>1, <2>3, <2>6, <3>2, <4>1 DEF RowOK, RowFits
      <3> QED
          BY <3>1, <3>2
    <2> QED
        BY <1>1, <1>2, <2>6, <2>7 DEF NInv, NoticesType
  <1>4. CASE notices[n].pid # k
    <2>1. UNCHANGED <<heard, notices>>
        BY <1>4 DEF record_staff_provider_status
    <2>2. RowsOK'
        BY <1>1, <2>1 DEF NInv, RowsOK, RowOK, RowFits
    <2> QED
        BY <1>1, <1>2, <2>1, <2>2 DEF NInv, NoticesType
  <1> QED
      BY <1>3, <1>4

\* The clock.
LEMMA TickKeeps ==
    ASSUME NInv, Tick PROVE NInv'
  <1>1. UNCHANGED <<recipients, notices, batch, messages, heard>>
      BY DEF Tick
  <1>2. now' \in 0..MaxNow
      BY Constants DEF Tick, NInv, NoticesType
  <1>3. batch' \in [AllLoops -> Seq(ClaimRow)] /\ ClaimsOK'
      BY <1>1, ClaimsSame
  <1>4. RowsOK'
      BY <1>1 DEF NInv, RowsOK, RowOK, RowFits
  <1> QED
      BY <1>1, <1>2, <1>3, <1>4 DEF NInv, NoticesType

\* Every step of the queue keeps its invariant.
LEMMA QueueKeeps ==
    ASSUME NInv, QueueNext PROVE NInv'
  <1>1. ASSUME NEW r \in Recipients, NEW form \in Forms,
               create_notification_recipient(r, form) \/ update_notification_recipient(r, form)
        PROVE  NInv'
      BY <1>1, SavedKeeps DEF create_notification_recipient, update_notification_recipient
  <1>2. ASSUME NEW e \in Events, enqueue_for_reservation(e) PROVE NInv'
      BY <1>2, EnqueuedKeeps DEF enqueue_for_reservation
  <1>3. ASSUME NEW r \in Recipients, NEW e \in Events, test_notification_recipient(r, e) PROVE NInv'
      BY <1>3, EnqueuedKeeps DEF test_notification_recipient
  <1>4. ASSUME NEW w \in Loops, maintain_queue(w, StaffKeys) \/ claim_staff_outbox_batch(w) PROVE NInv'
      BY <1>4, MaintainKeeps, StaffClaimKeeps
  <1>5. ASSUME NEW w \in ReminderLoops, maintain_queue(w, Reminders) PROVE NInv'
      BY <1>5, MaintainKeeps
  <1>6. ASSUME NEW w \in AllLoops, Send(w) \/ settle_claim(w) \/ Crash(w) PROVE NInv'
      BY <1>6, SendKeeps, SettleKeeps, CrashKeeps
  <1>7. ASSUME NEW n \in Keys, NEW status \in {"DELIVERED", "READ", "FAILED"},
               NEW code \in {"WINDOW", "OTHER"}, NEW k \in DOMAIN messages[n],
               record_staff_provider_status(n, k, status, code)
        PROVE  NInv'
      BY <1>7, ReportKeeps
  <1>8. ASSUME NEW r \in Recipients, NEW sent \in 0..MaxNow, intercept_staff_inbound(r, sent) PROVE NInv'
      BY <1>8, InterceptKeeps
  <1> QED
      BY <1>1, <1>2, <1>3, <1>4, <1>5, <1>6, <1>7, <1>8, TickKeeps DEF QueueNext

(***************************************************************************)
(* Bookings                                                                *)
(***************************************************************************)

\* The clock only goes forward.
LEMMA ClockForward ==
    ASSUME NInv, [BNext]_bvars PROVE now \in Int /\ now' \in Int /\ now' >= now
  <1>1. now \in Int
      BY DEF NInv, NoticesType
  <1>2. CASE Tick
      BY <1>1, <1>2 DEF Tick
  <1>3. CASE now' = now
      BY <1>1, <1>3
  <1>4. ASSUME NEW w, NEW rows, NEW sendable, NEW plan, claim_batch(w, rows, sendable, plan)
        PROVE  now' = now
      BY <1>4 DEF claim_batch
  <1>5. QueueNext => now' = now \/ Tick
      BY <1>4 DEF QueueNext, create_notification_recipient, update_notification_recipient,
               enqueue_for_reservation, test_notification_recipient, maintain_queue,
               claim_staff_outbox_batch, Send, SendAccepted, SendRefused, settle_claim, Crash,
               record_staff_provider_status, intercept_staff_inbound
  <1>6. BNext => now' = now \/ Tick
      BY <1>4, <1>5 DEF BNext, Confirm, schedule_reservation, AcceptBalance, cancel_reservation,
               enqueue_balance_reminders, claim_customer_batch, nvars
  <1> QED
      BY <1>2, <1>3, <1>6 DEF bvars, nvars

\* A step that leaves the bookings alone: a deadline that is past stays past.
LEMMA BookingsSame ==
    ASSUME BInv, [BNext]_bvars, booking' = booking PROVE BookingsOK'
  <1>1. now \in Int /\ now' \in Int /\ now' >= now
      BY ClockForward DEF BInv
  <1>2. booking \in [Bookings -> BookingRow]
      BY DEF BInv, BookingsOK
  <1>3. ASSUME NEW b \in Bookings PROVE BookingOK(booking[b])'
    <2>1. BookingOK(booking[b]) /\ booking[b].due \in Int \cup {NoTime}
        BY <1>2 DEF BInv, BookingsOK, BookingRow
    <2>2. booking'[b] = booking[b]
        OBVIOUS
    <2> QED
        BY <1>1, <2>1, <2>2 DEF BookingOK
  <1> QED
      BY <1>2, <1>3 DEF BookingsOK

\* A step that only changes bookings keeps the invariant of the queue.
LEMMA QueueSame ==
    ASSUME NInv, UNCHANGED nvars PROVE NInv'
  BY DEF nvars, NInv, NoticesType, RowsOK, ClaimsOK, RowOK, RowFits, ClaimOK

\* One booking changes.
LEMMA BookingMoves ==
    ASSUME BInv, UNCHANGED nvars, NEW b \in Bookings, NEW row \in BookingRow, BookingOK(row),
           booking' = [booking EXCEPT ![b] = row]
    PROVE  BInv'
  <1>1. booking \in [Bookings -> BookingRow] /\ \A c \in Bookings : BookingOK(booking[c])
      BY DEF BInv, BookingsOK
  <1>2. booking' \in [Bookings -> BookingRow] /\ booking'[b] = row
        /\ \A c \in Bookings \ {b} : booking'[c] = booking[c]
      BY <1>1
  <1>3. ASSUME NEW c \in Bookings PROVE BookingOK(booking[c])'
    <2>1. BookingOK(booking'[c])
        BY <1>1, <1>2
    <2> QED
        BY <2>1 DEF BookingOK, nvars
  <1>4. NInv'
      BY QueueSame DEF BInv
  <1> QED
      BY <1>2, <1>3, <1>4 DEF BInv, BookingsOK

\* What is used of prices, days and dates.
LEMMA PriceFacts ==
    /\ Price \in Nat /\ Deposit \in Nat /\ DayLen \in Nat /\ Starts \subseteq Nat
    /\ NoTime \notin Int /\ \A s \in Starts : s - DayLen \in Int /\ s - DayLen # NoTime
  <1>1. Price \in Nat /\ Deposit \in Nat /\ DayLen \in Nat /\ Starts \subseteq Nat /\ NoTime \notin Int
      BY RemindersAssumption, NotificationsAssumption
  <1>2. ASSUME NEW s \in Starts PROVE s - DayLen \in Int /\ s - DayLen # NoTime
    <2>1. s \in Nat /\ DayLen \in Nat
        BY <1>1
    <2>2. s - DayLen \in Int
        BY <2>1
    <2> QED
        BY <1>1, <2>2
  <1> QED
      BY <1>1, <1>2

\* A payment confirms the booking.
LEMMA ConfirmKeeps ==
    ASSUME BInv, NEW b \in Bookings, NEW start \in Starts, NEW amount \in {Deposit, Price},
           Confirm(b, start, amount)
    PROVE  BInv'
  <1>1. PICK due : due = IF amount >= Price THEN NoTime ELSE start - DayLen
      OBVIOUS
  <1>2. start \in Nat /\ amount \in Nat /\ due \in Int \cup {NoTime} /\ now \in Nat
    <2>1. now \in Nat
        BY Constants DEF BInv, NInv, NoticesType
    <2> QED
        BY <1>1, <2>1, PriceFacts
  <1>3. PICK row : row = [status |-> "RESERVED", start |-> start, paid |-> amount, due |-> due,
                          overdue |-> FALSE, confirmed |-> now]
      OBVIOUS
  <1>4. row \in BookingRow /\ BookingOK(row)
      BY <1>2, <1>3 DEF BookingRow, BookingOK
  <1>5. booking' = [booking EXCEPT ![b] = row] /\ UNCHANGED nvars
      BY <1>1, <1>3 DEF Confirm
  <1> QED
      BY <1>4, <1>5, BookingMoves

\* What is known of a booking.
LEMMA BookingFacts ==
    ASSUME BInv, NEW b \in Bookings
    PROVE  booking[b] \in BookingRow /\ BookingOK(booking[b]) /\ now \in Nat
  BY Constants DEF BInv, BookingsOK, NInv, NoticesType

\* A further payment is accepted; one that completes the price clears the mark.
LEMMA AcceptBalanceKeeps ==
    ASSUME BInv, NEW b \in Bookings, NEW amount \in 1..(Price - Deposit), AcceptBalance(b, amount)
    PROVE  BInv'
  <1>1. PICK o : o = booking[b]
      OBVIOUS
  <1>2. o \in BookingRow /\ BookingOK(o)
      BY <1>1, BookingFacts
  <1>3. PICK n : n = o.paid + amount
      OBVIOUS
  <1>4. n \in Nat
    <2>1. amount \in Nat /\ o.paid \in Nat
        BY <1>2, PriceFacts DEF BookingRow
    <2> QED
        BY <1>3, <2>1
  <1>5. PICK row : row = Paid(o, amount)
      OBVIOUS
  <1>6. booking' = [booking EXCEPT ![b] = row] /\ UNCHANGED nvars
      BY <1>1, <1>5 DEF AcceptBalance
  <1>7. CASE n >= Price
    <2>1. row = [o EXCEPT !.paid = n, !.due = NoTime, !.overdue = FALSE]
        BY <1>3, <1>5, <1>7 DEF Paid
    <2>2. row \in BookingRow /\ BookingOK(row)
        BY <1>2, <1>4, <2>1 DEF BookingRow, BookingOK
    <2> QED
        BY <1>6, <2>2, BookingMoves
  <1>8. CASE ~(n >= Price)
    <2>1. row = [o EXCEPT !.paid = n]
        BY <1>3, <1>5, <1>8 DEF Paid
    <2>2. row \in BookingRow /\ row.paid = n /\ row.status = o.status /\ row.due = o.due
          /\ row.overdue = o.overdue
        BY <1>2, <1>4, <2>1 DEF BookingRow
    <2>3. n < Price
        BY <1>4, <1>8, PriceFacts
    <2>4. BookingOK(row)
        BY <1>2, <2>2, <2>3 DEF BookingOK
    <2> QED
        BY <1>6, <2>2, <2>4, BookingMoves
  <1> QED
      BY <1>7, <1>8

\* A booking is moved: the mark survives only if the new deadline is past too.
LEMMA ScheduleKeeps ==
    ASSUME BInv, NEW b \in Bookings, NEW start \in Starts, schedule_reservation(b, start)
    PROVE  BInv'
  <1>1. PICK o : o = booking[b]
      OBVIOUS
  <1>2. o \in BookingRow /\ BookingOK(o) /\ start \in Nat
      BY <1>1, BookingFacts, PriceFacts
  <1>3. PICK row : row = Moved(o, start)
      OBVIOUS
  <1>4. booking' = [booking EXCEPT ![b] = row] /\ UNCHANGED nvars
      BY <1>1, <1>3 DEF schedule_reservation
  <1>5. CASE o.due = NoTime
    <2>1. row = [o EXCEPT !.start = start]
        BY <1>3, <1>5 DEF Moved
    <2>2. row \in BookingRow /\ row.paid = o.paid /\ row.status = o.status /\ row.due = o.due
          /\ row.overdue = o.overdue
        BY <1>2, <2>1 DEF BookingRow
    <2>3. BookingOK(row)
        BY <1>2, <2>2 DEF BookingOK
    <2> QED
        BY <1>4, <2>2, <2>3, BookingMoves
  <1>6. CASE o.due # NoTime
    <2>1. PICK d : d = start - DayLen
        OBVIOUS
    <2>2. d \in Int /\ d # NoTime
        BY <2>1, PriceFacts
    <2>3. PICK p : p = (o.overdue /\ d <= now)
        OBVIOUS
    <2>4. p \in BOOLEAN
        BY <2>3
    <2>5. row = [o EXCEPT !.start = start, !.due = d, !.overdue = p]
        BY <1>2, <1>3, <1>6, <2>1, <2>3 DEF Moved, BookingRow
    <2>6. row \in BookingRow /\ row.paid = o.paid /\ row.status = o.status /\ row.due = d
          /\ row.overdue = p
        BY <1>2, <2>2, <2>4, <2>5 DEF BookingRow
    <2>7. BookingOK(row)
        BY <1>2, <2>2, <2>3, <2>6 DEF BookingOK
    <2> QED
        BY <1>4, <2>6, <2>7, BookingMoves
  <1> QED
      BY <1>5, <1>6

\* A booking is cancelled.
LEMMA CancelKeeps ==
    ASSUME BInv, NEW b \in Bookings, cancel_reservation(b) PROVE BInv'
  <1>1. PICK o : o = booking[b]
      OBVIOUS
  <1>2. o \in BookingRow
      BY <1>1, BookingFacts
  <1>3. PICK row : row = [o EXCEPT !.status = "CANCELLED"]
      OBVIOUS
  <1>4. row \in BookingRow /\ BookingOK(row)
      BY <1>2, <1>3 DEF BookingRow, BookingOK
  <1>5. booking' = [booking EXCEPT ![b] = row] /\ UNCHANGED nvars
      BY <1>1, <1>3 DEF cancel_reservation
  <1> QED
      BY <1>4, <1>5, BookingMoves

\* The scan marks bookings whose deadline is past, and enqueues.
LEMMA ScanKeeps ==
    ASSUME BInv, enqueue_balance_reminders PROVE BInv'
  <1>1. PICK seen \in SUBSET {b \in Bookings : Owes(booking[b]) /\ booking[b].due # NoTime} :
            LET lapsed == {b \in seen : Lapsed(booking[b])}
                told   == {n \in StaffKeys : /\ n.kind = "BALANCE_OVERDUE" /\ n.src \in lapsed
                                             /\ Wants(n.to, n.kind)}
                due    == {n \in Reminders : n.to \in seen /\ Remind(n)}
            IN /\ notices' = Enqueued(told \cup due)
               /\ booking' = [b \in Bookings |-> IF b \in lapsed THEN [booking[b] EXCEPT !.overdue = TRUE]
                                                 ELSE booking[b]]
               /\ UNCHANGED <<recipients, batch, messages, heard, missed, now>>
      BY DEF enqueue_balance_reminders
  <1>2. PICK lapsed : lapsed = {b \in seen : Lapsed(booking[b])}
      OBVIOUS
  <1>3. PICK told : notices' = Enqueued(told)
      BY <1>1
  <1>4. booking' = [b \in Bookings |-> IF b \in lapsed THEN [booking[b] EXCEPT !.overdue = TRUE]
                                       ELSE booking[b]]
        /\ UNCHANGED <<recipients, batch, messages, heard, now>>
      BY <1>1, <1>2
  <1>5. NInv'
      BY <1>3, <1>4, EnqueuedKeeps DEF BInv
  <1>6. ASSUME NEW b \in Bookings PROVE booking'[b] \in BookingRow /\ BookingOK(booking'[b])
    <2>1. PICK o : o = booking[b]
        OBVIOUS
    <2>2. o \in BookingRow /\ BookingOK(o) /\ now \in Nat
        BY <2>1, BookingFacts
    <2>3. CASE b \in lapsed
      <3>1. booking'[b] = [o EXCEPT !.overdue = TRUE]
          BY <1>4, <2>1, <2>3
      <3>2. o.paid < Price /\ o.due # NoTime /\ now >= o.due
          BY <1>1, <1>2, <2>1, <2>3 DEF Owes, Lapsed
      <3>3. o.due \in Int
          BY <2>2, <3>2 DEF BookingRow
      <3>4. PICK row : row = booking'[b]
          OBVIOUS
      <3>5. row \in BookingRow /\ row.paid = o.paid /\ row.due = o.due
          BY <2>2, <3>1, <3>4 DEF BookingRow
      <3>6. o.due <= now
          BY <2>2, <3>2, <3>3
      <3>7. BookingOK(row)
          BY <3>2, <3>5, <3>6 DEF BookingOK
      <3> QED
          BY <3>4, <3>5, <3>7
    <2>4. CASE b \notin lapsed
      <3>1. booking'[b] = o
          BY <1>4, <2>1, <2>4
      <3> QED
          BY <2>2, <3>1
    <2> QED
        BY <2>3, <2>4
  <1>7. booking' \in [Bookings -> BookingRow]
      BY <1>4, <1>6
  <1>8. ASSUME NEW b \in Bookings PROVE BookingOK(booking[b])'
      BY <1>4, <1>6 DEF BookingOK
  <1> QED
      BY <1>5, <1>7, <1>8 DEF BInv, BookingsOK

\* Every step keeps the invariant.
LEMMA NextKeeps ==
    ASSUME BInv, [BNext]_bvars PROVE BInv'
  <1>1. ASSUME booking' = booking, NInv' PROVE BInv'
      BY <1>1, BookingsSame DEF BInv
  <1>2. CASE QueueNext /\ UNCHANGED booking
      BY <1>1, <1>2, QueueKeeps DEF BInv
  <1>3. ASSUME NEW b \in Bookings, NEW start \in Starts,
               \/ \E amount \in {Deposit, Price} : Confirm(b, start, amount)
               \/ schedule_reservation(b, start)
        PROVE  BInv'
      BY <1>3, ConfirmKeeps, ScheduleKeeps
  <1>4. ASSUME NEW b \in Bookings,
               \/ \E amount \in 1..(Price - Deposit) : AcceptBalance(b, amount)
               \/ cancel_reservation(b)
        PROVE  BInv'
      BY <1>4, AcceptBalanceKeeps, CancelKeeps
  <1>5. CASE enqueue_balance_reminders
      BY <1>5, ScanKeeps
  <1>6. ASSUME NEW w \in ReminderLoops, claim_customer_batch(w) PROVE BInv'
    <2>1. booking' = booking
        BY <1>6 DEF claim_customer_batch
    <2>2. NInv'
        BY <1>6, CustomerClaimKeeps DEF BInv
    <2> QED
        BY <1>1, <2>1, <2>2
  <1>7. CASE UNCHANGED bvars
    <2>1. booking' = booking /\ UNCHANGED nvars
        BY <1>7 DEF bvars
    <2>2. NInv'
        BY <2>1, QueueSame DEF BInv
    <2> QED
        BY <1>1, <2>1, <2>2
  <1> QED
      BY <1>2, <1>3, <1>4, <1>5, <1>6, <1>7 DEF BNext

\* The inductive invariant holds in every reachable state.
THEOREM BInvariant == BSpec => []BInv
  <1>1. BInit => BInv
      BY InitOK
  <1>2. BInv /\ [BNext]_bvars => BInv'
      BY NextKeeps
  <1> QED
      BY <1>1, <1>2, PTL DEF BSpec

\* Notices and bookings are well formed, and a notice that waits for its report names the
\* message it was sent as and its kind, whatever claims went stale in between (queue.py,
\* worker.py, customer_worker.py, statuses.py).
THEOREM NoticesAccounted == BSpec => []NoticesAccountedFor
  <1>1. BInv => NoticesAccountedFor
    <2> SUFFICES ASSUME BInv PROVE NoticesAccountedFor
        OBVIOUS
    <2>1. NoticesType /\ RowsOK
        BY DEF BInv, NInv
    <2>2. ASSUME NEW w \in AllLoops, NEW i \in DOMAIN batch[w] PROVE batch[w][i] \in ClaimRow
      <3>1. batch[w] \in Seq(ClaimRow)
          BY <2>1 DEF NoticesType
      <3> QED
          BY <2>2, <3>1
    <2>3. ASSUME NEW n \in Keys, NEW k \in DOMAIN messages[n] PROVE messages[n][k] \in {"TEXT", "TEMPLATE"}
      <3>1. messages[n] \in Seq(Texts)
          BY <2>1 DEF NoticesType
      <3> QED
          BY <2>3, <3>1 DEF Texts
    <2>4. \A n \in Keys :
             notices[n].status \in {"PENDING", "SENDING", "DEFERRED"} => notices[n].attempts < MaxAttempts
        BY <2>1 DEF RowsOK, RowOK
    <2>5. NTypeOK
        BY <2>1, <2>2, <2>3, <2>4 DEF NTypeOK, NoticesType, Recipient, Notice, ClaimRow, Plans
    <2>6. BTypeOK
        BY <2>5 DEF BTypeOK, BInv, BookingsOK, BookingRow
    <2>7. ReportFindsItsMessage
        BY <2>1 DEF ReportFindsItsMessage, RowsOK, RowFits
    <2> QED
        BY <2>6, <2>7 DEF NoticesAccountedFor
  <1> QED
      BY <1>1, BInvariant, PTL

\* A confirmed booking shown as overdue owes money whose deadline is past, through partial
\* and full payments, new dates and scans in any order (reminders.py, settlement.py,
\* schedule_reservation).
THEOREM OverdueIsPastDue == BSpec => []OverdueMeansPastDue
  <1>1. BInv => OverdueMeansPastDue
      BY DEF BInv, BookingsOK, BookingOK, OverdueMeansPastDue
  <1> QED
      BY <1>1, BInvariant, PTL

(***************************************************************************)
(* Deliveries                                                              *)
(***************************************************************************)
Arrived(n) == notices[n].status \in {"DELIVERED", "READ"}

\* No claim takes a notice that was delivered.
LEMMA ClaimLeaves ==
    ASSUME NEW w, NEW rows, NEW sendable, NEW plan, sendable \subseteq rows,
           \A m \in rows : notices[m].status = "PENDING", claim_batch(w, rows, sendable, plan),
           NEW n \in Keys, Arrived(n)
    PROVE  notices'[n] = notices[n]
  <1>1. n \notin rows
      BY DEF Arrived
  <1> QED
      BY <1>1 DEF claim_batch

\* A reaped claim is in SENDING, so a delivered notice has none.
LEMMA MaintainLeaves ==
    ASSUME NEW w, NEW keys, maintain_queue(w, keys), NEW n \in Keys, Arrived(n)
    PROVE  notices'[n] = notices[n]
  <1>1. PICK rows \in SUBSET {m \in keys : \/ notices[m].status = "SENDING"
                                           \/ notices[m].status = "DEFERRED" /\ TooOld(notices[m])} :
            notices' = [m \in Keys |->
                   CASE m \notin rows -> notices[m]
                     [] m \in rows /\ notices[m].status = "DEFERRED" -> retire(notices[m], "EXPIRED")
                     [] OTHER -> fail(notices[m], FALSE, "NONE")]
      BY DEF maintain_queue
  <1>2. n \notin rows
      BY <1>1 DEF Arrived
  <1> QED
      BY <1>1, <1>2

\* A settlement writes to rows in SENDING only.
LEMMA SettleLeaves ==
    ASSUME NInv, NEW w \in AllLoops, settle_claim(w), NEW n \in Keys, Arrived(n)
    PROVE  notices'[n] = notices[n]
  <1>1. PICK c : c = Head(batch[w])
      OBVIOUS
  <1>2. notices \in [Keys -> Notice]
      BY DEF NInv, NoticesType
  <1>3. CASE Owns(notices[c.n], c)
    <2>1. c.n # n
        BY <1>3 DEF Owns, Arrived
    <2>2. notices' = [notices EXCEPT ![c.n] = Settlement(notices[c.n], c)]
        BY <1>1, <1>3 DEF settle_claim
    <2> QED
        BY <1>2, <2>1, <2>2
  <1>4. CASE ~Owns(notices[c.n], c)
      BY <1>1, <1>4 DEF settle_claim
  <1> QED
      BY <1>3, <1>4

\* What was enqueued before is left alone.
LEMMA EnqueuedLeaves ==
    ASSUME NEW told, notices' = Enqueued(told), NEW n \in Keys, Arrived(n)
    PROVE  notices'[n] = notices[n]
  BY DEF Enqueued, Arrived

\* What is released was deferred.
LEMMA InterceptLeaves ==
    ASSUME NEW r, NEW sent, intercept_staff_inbound(r, sent), NEW n \in Keys, Arrived(n)
    PROVE  notices'[n] = notices[n]
  BY DEF intercept_staff_inbound, Arrived

\* A report advances a delivery or leaves it.
LEMMA ReportAdvances ==
    ASSUME NInv, NEW m \in Keys, NEW k, NEW status \in {"DELIVERED", "READ", "FAILED"}, NEW code,
           record_staff_provider_status(m, k, status, code), NEW n \in Keys, Arrived(n)
    PROVE  Rank(notices'[n].status) >= Rank(notices[n].status)
  <1>1. PICK o : o = notices[n]
      OBVIOUS
  <1>2. notices \in [Keys -> Notice] /\ o \in Notice /\ o.status \in {"DELIVERED", "READ"}
      BY <1>1 DEF NInv, NoticesType, Arrived
  <1>3. Rank(o.status) \in Int
      BY <1>2 DEF Rank
  <1>4. CASE notices'[n] = notices[n]
      BY <1>1, <1>3, <1>4
  <1>5. CASE n = m /\ notices'[n] # notices[n]
    <2>1. PICK retry : retry = IF m.kind \in Templates THEN "PENDING" ELSE "DEFERRED"
        OBVIOUS
    <2>2. PICK row : row = apply_provider_status(o, status, code, retry)
        OBVIOUS
    <2>3. notices[m].pid = k
        BY <1>5 DEF record_staff_provider_status
    <2>4. notices' = [notices EXCEPT ![m] = row]
        BY <1>1, <1>5, <2>1, <2>2, <2>3 DEF record_staff_provider_status
    <2>5. notices'[n] = row
        BY <1>2, <1>5, <2>4
    <2>6. ~FailureCounts(o)
        BY <1>2 DEF FailureCounts
    <2>7. CASE status # "FAILED" /\ Rank(status) > Rank(o.status)
      <3>1. row = [o EXCEPT !.status = status]
          BY <2>2, <2>7 DEF apply_provider_status
      <3>2. row.status = status
          BY <1>2, <3>1 DEF Notice
      <3>3. Rank(status) \in Int
          BY <2>7 DEF Rank
      <3> QED
          BY <1>1, <1>3, <2>5, <2>7, <3>2, <3>3
    <2>8. CASE ~(status # "FAILED" /\ Rank(status) > Rank(o.status))
      <3>1. row = o
          BY <2>2, <2>6, <2>8 DEF apply_provider_status
      <3> QED
          BY <1>1, <1>5, <2>5, <3>1
    <2> QED
        BY <2>7, <2>8
  <1>6. CASE n # m
    <2>1. notices'[n] = notices[n]
        BY <1>2, <1>6 DEF record_staff_provider_status
    <2> QED
        BY <1>1, <1>3, <2>1
  <1> QED
      BY <1>4, <1>5, <1>6

\* No step of the queue takes a delivery back.
LEMMA QueueAdvances ==
    ASSUME NInv, QueueNext, NEW n \in Keys, Arrived(n)
    PROVE  Rank(notices'[n].status) >= Rank(notices[n].status)
  <1>1. ASSUME notices'[n] = notices[n] PROVE Rank(notices'[n].status) >= Rank(notices[n].status)
    <2>1. PICK s : s = notices[n].status
        OBVIOUS
    <2>2. Rank(s) \in Int
        BY <2>1 DEF Rank, Arrived
    <2> QED
        BY <1>1, <2>1, <2>2
  <1>2. ASSUME NEW r \in Recipients, NEW form \in Forms,
               create_notification_recipient(r, form) \/ update_notification_recipient(r, form)
        PROVE  notices'[n] = notices[n]
      BY <1>2 DEF create_notification_recipient, update_notification_recipient
  <1>3. ASSUME NEW e \in Events, enqueue_for_reservation(e) PROVE notices'[n] = notices[n]
      BY <1>3, EnqueuedLeaves DEF enqueue_for_reservation
  <1>4. ASSUME NEW r \in Recipients, NEW e \in Events, test_notification_recipient(r, e)
        PROVE  notices'[n] = notices[n]
      BY <1>4, EnqueuedLeaves DEF test_notification_recipient
  <1>5. ASSUME NEW w, NEW keys, maintain_queue(w, keys) PROVE notices'[n] = notices[n]
      BY <1>5, MaintainLeaves
  <1>6. ASSUME NEW w \in Loops, claim_staff_outbox_batch(w) PROVE notices'[n] = notices[n]
    <2>1. PICK rows \in Batches(StaffKeys) : claim_batch(w, rows, rows, [m \in rows |-> StaffPlan(m)])
        BY <1>6 DEF claim_staff_outbox_batch
    <2>2. \A m \in rows : notices[m].status = "PENDING"
        BY <2>1 DEF Batches
    <2> QED
        BY <2>1, <2>2, ClaimLeaves
  <1>7. ASSUME NEW w \in AllLoops, Send(w) \/ Crash(w) PROVE notices'[n] = notices[n]
      BY <1>7 DEF Send, SendAccepted, SendRefused, Crash
  <1>8. ASSUME NEW w \in AllLoops, settle_claim(w) PROVE notices'[n] = notices[n]
      BY <1>8, SettleLeaves
  <1>9. ASSUME NEW m \in Keys, NEW status \in {"DELIVERED", "READ", "FAILED"},
               NEW code \in {"WINDOW", "OTHER"}, NEW k \in DOMAIN messages[m],
               record_staff_provider_status(m, k, status, code)
        PROVE  Rank(notices'[n].status) >= Rank(notices[n].status)
      BY <1>9, ReportAdvances
  <1>10. ASSUME NEW r \in Recipients, NEW sent \in 0..MaxNow, intercept_staff_inbound(r, sent)
         PROVE  notices'[n] = notices[n]
      BY <1>10, InterceptLeaves
  <1>11. CASE Tick
      BY <1>1, <1>11 DEF Tick
  <1> QED
      BY <1>1, <1>2, <1>3, <1>4, <1>5, <1>6, <1>7, <1>8, <1>9, <1>10, <1>11 DEF QueueNext

\* A delivery that was reported is not taken back, whatever order callbacks, settlements,
\* recoveries and requeues come in (statuses.py).
THEOREM DeliveryAdvances == BSpec => DeliveryNeverRegresses
  <1>1. BInv /\ [BNext]_bvars =>
          [\A n \in Keys : notices[n].status \in {"DELIVERED", "READ"} =>
              Rank(notices'[n].status) >= Rank(notices[n].status)]_nvars
    <2> SUFFICES ASSUME BInv, [BNext]_bvars, ~UNCHANGED nvars, NEW n \in Keys, Arrived(n)
                 PROVE  Rank(notices'[n].status) >= Rank(notices[n].status)
        BY DEF Arrived
    <2>1. ASSUME notices'[n] = notices[n] PROVE Rank(notices'[n].status) >= Rank(notices[n].status)
      <3>1. PICK s : s = notices[n].status
          OBVIOUS
      <3>2. Rank(s) \in Int
          BY <3>1 DEF Rank, Arrived
      <3> QED
          BY <2>1, <3>1, <3>2
    <2>2. CASE QueueNext
        BY <2>2, QueueAdvances DEF BInv
    <2>3. CASE enqueue_balance_reminders
      <3>1. PICK told : notices' = Enqueued(told)
          BY <2>3 DEF enqueue_balance_reminders
      <3> QED
          BY <2>1, <3>1, EnqueuedLeaves
    <2>4. ASSUME NEW w \in ReminderLoops, claim_customer_batch(w)
          PROVE  Rank(notices'[n].status) >= Rank(notices[n].status)
      <3>1. PICK rows \in Batches(Reminders) :
                claim_batch(w, rows, {m \in rows : admissible(m)}, [m \in rows |-> "TEMPLATE"])
          BY <2>4 DEF claim_customer_batch
      <3>2. PICK sendable : sendable = {m \in rows : admissible(m)}
          OBVIOUS
      <3>3. sendable \subseteq rows /\ \A m \in rows : notices[m].status = "PENDING"
          BY <3>1, <3>2 DEF Batches
      <3> QED
          BY <2>1, <3>1, <3>2, <3>3, ClaimLeaves
    <2>5. ASSUME NEW b \in Bookings, NEW start \in Starts,
                 \/ \E amount \in {Deposit, Price} : Confirm(b, start, amount)
                 \/ schedule_reservation(b, start)
          PROVE  FALSE
        BY <2>5 DEF Confirm, schedule_reservation
    <2>6. ASSUME NEW b \in Bookings,
                 \/ \E amount \in 1..(Price - Deposit) : AcceptBalance(b, amount)
                 \/ cancel_reservation(b)
          PROVE  FALSE
        BY <2>6 DEF AcceptBalance, cancel_reservation
    <2> QED
        BY <2>2, <2>3, <2>4, <2>5, <2>6 DEF BNext, bvars
  <1> QED
      BY <1>1, BInvariant, PTL DEF BSpec, DeliveryNeverRegresses
==============================================================================
