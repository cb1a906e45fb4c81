--------------------------- MODULE Notifications ----------------------------
(***************************************************************************)
(* Notices to the venue's staff, and the queue they share with the         *)
(* customers' reminders (app/notifications).                               *)
(*                                                                         *)
(* A staff member may be written to freely only for a while after writing  *)
(* to the business (the window); outside it a notice needs an approved     *)
(* template, and without one it is deferred until the person writes.  A    *)
(* loop claims notices in one transaction, calls the provider with none    *)
(* open, and settles each in another.  The provider reports what became of *)
(* a message in callbacks that come in any order, and possibly before the  *)
(* settlement.                                                             *)
(*                                                                         *)
(* The clock counts in steps that the windows are multiples of.  A backoff *)
(* ends, and a claim goes stale, at any later moment.                      *)
(***************************************************************************)
EXTENDS Integers, Sequences, FiniteSets

CONSTANTS
    Loops,        \* staff loops, one per worker process
    ReminderLoops,\* customer loops, one per worker process
    Recipients,   \* notification_recipient
    Events,       \* what staff may be told: [kind, src] records
    Reminders,    \* customer_notification keys: [to, kind, src] records
    Forms,        \* what the panel may save of a recipient: [status, evidence, pending]
    Templates,    \* event kinds whose template is configured
    MaxAttempts,  \* staff_outbox_max_attempts
    BatchSize,    \* outbox_batch_size
    WindowLen,    \* 24 hours less staff_window_safety_minutes
    MaxAge,       \* staff_deferred_max_age_hours
    MaxNow,       \* bound: the clock
    NoTime

StaffKinds == {"EVIDENCE_RECEIVED", "PAYMENT_PENDING_CREATED", "TEST", "BALANCE_OVERDUE"}

\* uq_staff_outbox_source: one notice per recipient and source.
StaffKeys == {[to |-> r, kind |-> e.kind, src |-> e.src] : r \in Recipients, e \in Events}
Keys == StaffKeys \cup Reminders

ASSUME NotificationsAssumption ==
    /\ Loops \cap ReminderLoops = {}
    /\ \A e \in Events : e.kind \in StaffKinds
    /\ StaffKeys \cap Reminders = {} /\ IsFiniteSet(Keys)
    /\ Forms \subseteq [status : {"ACTIVE", "INACTIVE"}, evidence : BOOLEAN, pending : BOOLEAN]
    /\ MaxAttempts \in Nat \ {0} /\ BatchSize \in Nat \ {0}
    /\ WindowLen \in Nat /\ MaxAge \in Nat /\ MaxNow \in Nat
    /\ NoTime \notin Int

VARIABLES
    recipients, \* [Recipients -> notification_recipient row]
    notices,    \* [Keys -> staff_outbox or customer_notification row]
    batch,      \* [Loops -> claims taken and not yet settled]
    messages,   \* [Keys -> kinds of the messages the provider accepted]
    heard,      \* message_provider_status: <<key, message, status>>
    missed,     \* history: reports of failure for a message no row knew yet
    now

nvars == <<recipients, notices, batch, messages, heard, missed, now>>

AllLoops == Loops \cup ReminderLoops
Statuses == {"ABSENT", "PENDING", "SENDING", "SENT", "DELIVERED", "READ", "FAILED",
             "DEFERRED", "EXPIRED"}
Codes == {"NONE", "WINDOW", "OTHER"}  \* last_error_code: NULL, 131047, any other

\* The claim token is the number of the uuid drawn for the row, 0 is NULL; "drawn"
\* counts them.  "pid" is provider_message_id, the place of the message in messages.
NoNotice == [status |-> "ABSENT", attempts |-> 0, token |-> 0, drawn |-> 0, msg |-> "NONE",
             code |-> "NONE", pid |-> 0, born |-> 0]
NewNotice == [NoNotice EXCEPT !.status = "PENDING", !.born = now]

NoRecipient == [status |-> "ABSENT", evidence |-> FALSE, pending |-> FALSE, inbound |-> NoTime]

NInit ==
    /\ recipients = [r \in Recipients |-> NoRecipient]
    /\ notices = [n \in Keys |-> NoNotice]
    /\ batch = [w \in AllLoops |-> << >>]
    /\ messages = [n \in Keys |-> << >>]
    /\ heard = {} /\ missed = {}
    /\ now = 0

(***************************************************************************)
(* The panel: recipients                                                   *)
(***************************************************************************)
Saved(r, form) ==
    recipients' = [recipients EXCEPT ![r].status = form.status, ![r].evidence = form.evidence,
                                     ![r].pending = form.pending]

create_notification_recipient(r, form) ==
    /\ recipients[r].status = "ABSENT"
    /\ Saved(r, form)
    /\ UNCHANGED <<notices, batch, messages, heard, missed, now>>

update_notification_recipient(r, form) ==
    /\ recipients[r].status # "ABSENT"
    /\ Saved(r, form)
    /\ UNCHANGED <<notices, batch, messages, heard, missed, now>>

(***************************************************************************)
(* Producers                                                               *)
(***************************************************************************)
\* Bound: what is enqueued has time to grow old before the clock stops.
InTime == now + MaxAge < MaxNow

Wants(r, kind) ==
    /\ recipients[r].status = "ACTIVE"
    /\ IF kind \in {"EVIDENCE_RECEIVED", "BALANCE_OVERDUE"} THEN recipients[r].evidence
                                                            ELSE recipients[r].pending

\* A source that was already told is left alone (ON CONFLICT DO NOTHING).
Enqueued(told) ==
    [n \in Keys |-> IF n \in told /\ notices[n].status = "ABSENT" THEN NewNotice ELSE notices[n]]

enqueue_for_reservation(e) ==
    /\ InTime /\ e.kind \in {"EVIDENCE_RECEIVED", "PAYMENT_PENDING_CREATED"}
    /\ notices' = Enqueued({n \in StaffKeys : n.kind = e.kind /\ n.src = e.src /\ Wants(n.to, n.kind)})
    /\ UNCHANGED <<recipients, batch, messages, heard, missed, now>>

\* The source id of a test is a fresh uuid.
test_notification_recipient(r, e) ==
    /\ InTime /\ e.kind = "TEST"
    /\ \A n \in StaffKeys : n.kind = "TEST" /\ n.src = e.src => notices[n].status = "ABSENT"
    /\ recipients[r].status = "ACTIVE"
    /\ notices' = Enqueued({[to |-> r, kind |-> "TEST", src |-> e.src]})
    /\ UNCHANGED <<recipients, batch, messages, heard, missed, now>>

(***************************************************************************)
(* The shared queue (queue.py)                                             *)
(***************************************************************************)
retire(row, status) == [row EXCEPT !.status = status, !.token = 0]

\* Mutant: the last attempt is followed by another.
FailOneMore(row, permanent, code) ==
    [retire(row, IF permanent \/ row.attempts + 1 > MaxAttempts THEN "FAILED" ELSE "PENDING")
        EXCEPT !.attempts = @ + 1, !.code = code]

fail(row, permanent, code) ==
    [retire(row, IF permanent \/ row.attempts + 1 >= MaxAttempts THEN "FAILED" ELSE "PENDING")
        EXCEPT !.attempts = @ + 1, !.code = code]

Claim(n, plan) == [n |-> n, token |-> notices[n].drawn + 1, plan |-> plan,
                   answer |-> "NONE", code |-> "NONE", pid |-> 0]

\* claim_batch: rows no other transaction holds; the ones that may still be sent are taken
\* oldest first, the others are retired.  plan[n] is what the loop will do with the snapshot.
claim_batch(w, rows, sendable, plan) ==
    \E claims \in [1..Cardinality(sendable) -> sendable] :
        /\ \A i, j \in DOMAIN claims :
               i < j => claims[i] # claims[j] /\ notices[claims[i]].born <= notices[claims[j]].born
        /\ batch' = [batch EXCEPT ![w] = [i \in DOMAIN claims |-> Claim(claims[i], plan[claims[i]])]]
        /\ notices' = [n \in Keys |->
              CASE n \notin rows    -> notices[n]
                [] n \in sendable   -> [notices[n] EXCEPT !.status = "SENDING", !.drawn = @ + 1,
                                                          !.token = notices[n].drawn + 1]
                [] OTHER            -> retire(notices[n], "EXPIRED")]
        /\ UNCHANGED <<recipients, messages, heard, missed, now>>

Batches(keys) ==
    {rows \in SUBSET {n \in keys : notices[n].status = "PENDING"} : Cardinality(rows) \in 1..BatchSize}

\* Mutant: what was deferred is kept for ever.
TooOldNever(row) == FALSE

TooOld(row) == row.born < now - MaxAge

\* maintain_queue, the first transaction of each round of a loop: any claim may be stale.
maintain_queue(w, keys) ==
    LET Due(n) == \/ notices[n].status = "SENDING"
                  \/ notices[n].status = "DEFERRED" /\ TooOld(notices[n])
    IN /\ batch[w] = << >>
       /\ \E rows \in SUBSET {n \in keys : Due(n)} :
             /\ rows # {}
             /\ notices' = [n \in Keys |->
                   CASE n \notin rows -> notices[n]
                     [] n \in rows /\ notices[n].status = "DEFERRED" -> retire(notices[n], "EXPIRED")
                     [] OTHER -> fail(notices[n], FALSE, "NONE")]
       /\ UNCHANGED <<recipients, batch, messages, heard, missed, now>>

(***************************************************************************)
(* Sending (worker.py)                                                     *)
(***************************************************************************)
window_until(r) == recipients[r].inbound + WindowLen
Open(r) == recipients[r].inbound # NoTime /\ window_until(r) > now

\* Decided from the snapshot taken at the claim, for the whole batch.
StaffPlan(n) ==
    IF recipients[n.to].status # "ACTIVE" THEN "EXPIRED"
    ELSE IF Open(n.to) /\ notices[n].code # "WINDOW" THEN "TEXT"
    ELSE IF n.kind \in Templates THEN "TEMPLATE" ELSE "DEFERRED"

claim_staff_outbox_batch(w) ==
    /\ batch[w] = << >>
    /\ \E rows \in Batches(StaffKeys) : claim_batch(w, rows, rows, [n \in rows |-> StaffPlan(n)])

Calling(w) == /\ batch[w] # << >>
              /\ Head(batch[w]).plan \in {"TEXT", "TEMPLATE"} /\ Head(batch[w]).answer = "NONE"

Answered(w, answer, code, pid) ==
    batch' = [batch EXCEPT ![w][1].answer = answer, ![w][1].code = code, ![w][1].pid = pid]

\* The provider took the message, and its answer arrived or was lost on the way.
SendAccepted(w, answer) ==
    LET c == Head(batch[w]) IN
    /\ Calling(w)
    /\ messages' = [messages EXCEPT ![c.n] = Append(@, c.plan)]
    /\ Answered(w, answer, "NONE", IF answer = "OK" THEN Len(messages[c.n]) + 1 ELSE 0)
    /\ UNCHANGED <<recipients, notices, heard, missed, now>>

\* PERMANENT_CODES holds 131047: a refused text is not tried again.
SendRefused(w, answer, code) ==
    /\ Calling(w)
    /\ code = "WINDOW" => answer = "PERMANENT" /\ Head(batch[w]).plan = "TEXT"
    /\ Answered(w, answer, code, 0)
    /\ UNCHANGED <<recipients, notices, messages, heard, missed, now>>

Owns(row, c) == row.status = "SENDING" /\ row.token = c.token

\* Mutant: the kind of message is only written for templates.
UpdateKeepsText(row, c) ==
    [row EXCEPT !.msg = IF c.plan = "TEMPLATE" THEN c.plan ELSE @,
                !.pid = IF c.answer = "OK" THEN c.pid ELSE @,
                !.code = IF c.answer = "OK" THEN "NONE" ELSE @]

\* The update closures of the two loops: a plan without a call writes no message kind.
update(row, c) ==
    [row EXCEPT !.msg = IF c.answer = "OK" THEN c.plan ELSE "NONE",
                !.pid = IF c.answer = "OK" THEN c.pid ELSE @,
                !.code = IF c.answer = "OK" THEN "NONE" ELSE @]

Settlement(row, c) ==
    IF c.answer \in {"RETRY", "PERMANENT"} THEN fail(row, c.answer = "PERMANENT", c.code)
    ELSE update(retire(row, IF c.answer = "OK" THEN "SENT" ELSE c.plan), c)

settle_claim(w) ==
    LET c == Head(batch[w]) IN
    /\ batch[w] # << >> /\ ~Calling(w)
    /\ batch' = [batch EXCEPT ![w] = Tail(@)]
    /\ notices' = IF Owns(notices[c.n], c)
                  THEN [notices EXCEPT ![c.n] = Settlement(notices[c.n], c)] ELSE notices
    /\ UNCHANGED <<recipients, messages, heard, missed, now>>

\* The process stops, or an exception leaves the round.
Crash(w) ==
    /\ batch[w] # << >>
    /\ batch' = [batch EXCEPT ![w] = << >>]
    /\ UNCHANGED <<recipients, notices, messages, heard, missed, now>>

(***************************************************************************)
(* What the provider reports (statuses.py)                                 *)
(***************************************************************************)
Rank(status) == CASE status = "SENT" -> 0 [] status = "DELIVERED" -> 1 [] status = "READ" -> 2
                  [] OTHER -> -1

\* Mutant: a failure is believed whatever came before.
FailureCountsAlways(row) == TRUE

FailureCounts(row) == row.status \notin {"DELIVERED", "READ"}

apply_provider_status(row, status, code, retry_window_failure) ==
    CASE status # "FAILED" /\ Rank(status) > Rank(row.status) -> [row EXCEPT !.status = status]
      [] status = "FAILED" /\ FailureCounts(row) ->
            [retire(row, IF code = "WINDOW" /\ row.msg = "TEXT" THEN retry_window_failure ELSE "FAILED")
                EXCEPT !.code = code]
      [] OTHER -> row

\* A callback finds its row by provider_message_id, or is logged and forgotten.  One that
\* is in message_provider_status already is rolled back.
record_staff_provider_status(n, k, status, code) ==
    LET report == <<n, k, status>>
        retry == IF n.kind \in Templates THEN "PENDING" ELSE "DEFERRED"
    IN /\ k \in DOMAIN messages[n] /\ report \notin heard
       /\ IF notices[n].pid = k
          THEN /\ heard' = heard \cup {report}
               /\ notices' = [notices EXCEPT ![n] = apply_provider_status(@, status, code, retry)]
               /\ UNCHANGED missed
          ELSE /\ missed' = IF status = "FAILED" /\ k > notices[n].pid
                            THEN missed \cup {report} ELSE missed
               /\ UNCHANGED <<heard, notices>>
       /\ UNCHANGED <<recipients, batch, messages, now>>

(***************************************************************************)
(* A staff member writes (intercept_staff_inbound)                         *)
(***************************************************************************)
intercept_staff_inbound(r, sent) ==
    LET cutoff == now - MaxAge IN
    /\ recipients[r].status = "ACTIVE"
    /\ sent <= now
    /\ recipients[r].inbound # NoTime => sent > recipients[r].inbound
    /\ recipients' = [recipients EXCEPT ![r].inbound = sent]
    /\ notices' = [n \in Keys |->
          IF n \in StaffKeys /\ n.to = r /\ notices[n].status = "DEFERRED" /\ notices[n].born > cutoff
          THEN [notices[n] EXCEPT !.status = "PENDING", !.code = "NONE"] ELSE notices[n]]
    /\ UNCHANGED <<batch, messages, heard, missed, now>>

Tick ==
    /\ now < MaxNow
    /\ now' = now + 1
    /\ UNCHANGED <<recipients, notices, batch, messages, heard, missed>>

Send(w) ==
    \/ \E answer \in {"OK", "RETRY"} : SendAccepted(w, answer)
    \/ \E answer \in {"RETRY", "PERMANENT"}, code \in Codes : SendRefused(w, answer, code)

\* Everything but the customer loops' claims, which BalanceReminders adds.
QueueNext ==
    \/ \E r \in Recipients, form \in Forms :
          create_notification_recipient(r, form) \/ update_notification_recipient(r, form)
    \/ \E e \in Events : enqueue_for_reservation(e)
    \/ \E r \in Recipients, e \in Events : test_notification_recipient(r, e)
    \/ \E w \in Loops : maintain_queue(w, StaffKeys) \/ claim_staff_outbox_batch(w)
    \/ \E w \in ReminderLoops : maintain_queue(w, Reminders)
    \/ \E w \in AllLoops : Send(w) \/ settle_claim(w) \/ Crash(w)
    \/ \E n \in Keys, status \in {"DELIVERED", "READ", "FAILED"}, code \in {"WINDOW", "OTHER"} :
          \E k \in DOMAIN messages[n] : record_staff_provider_status(n, k, status, code)
    \/ \E r \in Recipients, sent \in 0..MaxNow : intercept_staff_inbound(r, sent)
    \/ Tick

NSpec == NInit /\ [][QueueNext]_nvars

\* The loops poll until the process ends, and the clock goes on.
QueueFairness ==
    /\ WF_nvars(Tick)
    /\ \A w \in Loops : WF_nvars(maintain_queue(w, StaffKeys)) /\ WF_nvars(claim_staff_outbox_batch(w))
    /\ \A w \in AllLoops : WF_nvars(Send(w)) /\ WF_nvars(settle_claim(w))

FairNSpec == NSpec /\ QueueFairness

(***************************************************************************)
(* Properties                                                              *)
(***************************************************************************)
\* The columns have their types, and a notice that is still tried has tries left.
NTypeOK ==
    /\ recipients \in [Recipients -> [status : {"ABSENT", "ACTIVE", "INACTIVE"}, evidence : BOOLEAN,
                                      pending : BOOLEAN, inbound : Nat \cup {NoTime}]]
    /\ notices \in [Keys -> [status : Statuses, attempts : 0..MaxAttempts, token : Nat, drawn : Nat,
                             msg : {"NONE", "TEXT", "TEMPLATE"}, code : Codes, pid : Nat, born : Nat]]
    /\ \A n \in Keys :
          notices[n].status \in {"PENDING", "SENDING", "DEFERRED"} => notices[n].attempts < MaxAttempts
    /\ \A w \in AllLoops : \A i \in DOMAIN batch[w] :
          batch[w][i] \in [n : Keys, token : Nat, plan : {"TEXT", "TEMPLATE", "EXPIRED", "DEFERRED"},
                           answer : {"NONE", "OK", "RETRY", "PERMANENT"}, code : Codes, pid : Nat]
    /\ \A n \in Keys : \A k \in DOMAIN messages[n] : messages[n][k] \in {"TEXT", "TEMPLATE"}
    /\ now \in 0..MaxNow

\* A notice that waits for its report names the message it was sent as, and that message's
\* kind, through reaped claims, late answers and resends: the choice between a template
\* and giving up (131047) reads both columns.
ReportFindsItsMessage ==
    \A n \in Keys : notices[n].status = "SENT" =>
        /\ notices[n].pid \in DOMAIN messages[n]
        /\ notices[n].msg = messages[n][notices[n].pid]

\* DELIVERED and READ only advance, whatever order callbacks, settlements, recoveries and
\* requeues come in ("avanzan sin retroceder").
DeliveryNeverRegresses ==
    [][\A n \in Keys : notices[n].status \in {"DELIVERED", "READ"} =>
          Rank(notices'[n].status) >= Rank(notices[n].status)]_nvars

\* Outside the provider's errors a notice is deferred only as long as its recipient's
\* window is closed: writing to the business releases what waited.
DeferredOnlyOutsideWindow ==
    \A n \in StaffKeys : notices[n].status = "DEFERRED" /\ notices[n].code # "WINDOW"
                           /\ recipients[n.to].status = "ACTIVE" /\ ~TooOld(notices[n])
        => ~Open(n.to)

\* A notice is not left as SENT when the provider reported that its message failed.
ReportedFailureCounts ==
    \A n \in Keys : notices[n].status = "SENT" => <<n, notices[n].pid, "FAILED">> \notin missed

\* Every notice is sent, given up or expired in the end, whatever crashes.
EveryNoticeSettles ==
    \A n \in StaffKeys : notices[n].status \in {"PENDING", "SENDING", "DEFERRED"}
        ~> notices[n].status \notin {"PENDING", "SENDING", "DEFERRED"}
=============================================================================
