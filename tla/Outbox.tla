------------------------------- MODULE Outbox -------------------------------
(***************************************************************************)
(* The customer outbox: rows produced by bot turns, agents and payment     *)
(* reviews, and the worker processes that hand them to WhatsApp.           *)
(*                                                                         *)
(* Composes app/channel/worker.py and app/channel/delivery.py with the     *)
(* conversations and cases of HumanCase: every producer inserts its row in *)
(* the transaction that changes the conversation, and every delivery       *)
(* decision reads the conversation and its cases as they are then.         *)
(*                                                                         *)
(* Time is left out: a row in backoff is due at some later moment, and a   *)
(* claim is stale at some later moment, whether or not its worker is still *)
(* running (a batch is processed one row after the other, so the last rows *)
(* of a slow batch do go stale under a live worker).                       *)
(***************************************************************************)
EXTENDS HumanCase, FiniteSets

CONSTANTS
    Workers,          \* outbox loops (one per worker process)
    MaxRows,          \* bound: outbox rows ever inserted
    MaxAttempts,      \* outbox_max_attempts
    BatchSize,        \* outbox_batch_size
    NoEvidence,       \* a row that is not about a payment evidence
    LegacyStatuses    \* statuses of a row that predates delivery_context, {} for none

Rows == 1..MaxRows
Tokens == 0..MaxAttempts   \* claim_token: 0 is NULL, n is the n-th uuid drawn for a row

ASSUME OutboxAssumption ==
    /\ MaxRows \in Nat
    /\ MaxAttempts \in Nat \ {0}
    /\ BatchSize \in Nat \ {0}
    /\ NoEvidence \notin Evidence
    /\ LegacyStatuses \subseteq {"PENDING", "SENDING"}

VARIABLES
    outbox,      \* [Rows -> outbox row]
    batch,       \* [Workers -> claims returned by claim_due_outbox_batch, not yet begun]
    job,         \* [Workers -> the claim being processed and the step it is at]
    delivered    \* <<row, token>> pairs of send calls the provider accepted

ovars == <<outbox, batch, job, delivered>>
vars  == <<hvars, ovars>>

Status == {"ABSENT", "PENDING", "SENDING", "SENT", "FAILED", "SUPPRESSED", "REVIEW"}
Terminal == {"SENT", "FAILED", "SUPPRESSED", "REVIEW"}
Origin == {"NONE", "AUTO", "HANDOFF_NOTICE", "HUMAN_REPLY", "PAYMENT_REVIEW_RESULT",
           "PAYMENT_EVIDENCE_ACK"}
Phase == {"NONE", "ADMITTED", "UNKNOWN", "REJECTED_MEDIA", "SENT"}
Steps == {"idle", "check", "resolve", "admit", "send", "reject", "ok", "err", "perm"}

Row == [status : Status, kind : {"TEXT", "DOCUMENT"}, conv : Conversations,
        origin : Origin, epoch : Nat, case : CaseIds \cup {0},
        ev : Evidence \cup {NoEvidence}, proof : BOOLEAN, after : Rows \cup {0},
        attempts : 0..MaxAttempts, claims : Tokens, token : Tokens, phase : Phase]

Claim == [row : Rows, token : Tokens]
Job == [pc : Steps, row : Rows \cup {0}, token : Tokens, retry : BOOLEAN]

OTypeOK ==
    /\ outbox \in [Rows -> Row]
    /\ batch \in [Workers -> SUBSET Claim]
    /\ job \in [Workers -> Job]
    /\ delivered \in SUBSET (Rows \X Tokens)

IdleJob == [pc |-> "idle", row |-> 0, token |-> 0, retry |-> FALSE]

NewRow(c, kind, origin) ==
    [status |-> "PENDING", kind |-> kind, conv |-> c, origin |-> origin, epoch |-> 0,
     case |-> 0, ev |-> NoEvidence, proof |-> FALSE, after |-> 0, attempts |-> 0,
     claims |-> 0, token |-> 0, phase |-> "NONE"]

AbsentRow(c) == [NewRow(c, "TEXT", "NONE") EXCEPT !.status = "ABSENT"]

OInit ==
    /\ HInit
    /\ \E c \in Conversations :
         \/ outbox = [r \in Rows |-> AbsentRow(c)]
         \/ \E s \in LegacyStatuses, p \in BOOLEAN :
              outbox = [r \in Rows |->
                          IF r = 1 THEN [AbsentRow(c) EXCEPT !.status = s, !.proof = p]
                                   ELSE AbsentRow(c)]
    /\ batch = [w \in Workers |-> {}]
    /\ job = [w \in Workers |-> IdleJob]
    /\ delivered = {}

(***************************************************************************)
(* A definition whose name has a suffix (StopDelivery_ForgetsUnknown) is   *)
(* not part of the specification: it is a plausible mistake in the         *)
(* definition it is named after, which the properties must detect.         *)
(***************************************************************************)

(***************************************************************************)
(* Producers.  Each inserts PENDING rows in the transaction of the event.  *)
(***************************************************************************)
FreshRow(r) ==
    /\ r \in Rows
    /\ outbox[r].status = "ABSENT"
    /\ \A q \in Rows : q < r => outbox[q].status # "ABSENT"

Insert(r, row) ==
    /\ FreshRow(r)
    /\ outbox' = [outbox EXCEPT ![r] = row]
    /\ UNCHANGED <<batch, job, delivered>>

\* automatic_context and handoff_context, over the conversation row cv being written.
AutoRow(c, cv, kind) == [NewRow(c, kind, "AUTO") EXCEPT !.epoch = cv.epoch]
NoticeRow(c, cv, i) ==
    [NewRow(c, "TEXT", "HANDOFF_NOTICE") EXCEPT !.epoch = cv.epoch, !.case = i]

EnqueueTemplate(c, r) ==
    /\ AutomationOn(conv[c])
    /\ Insert(r, AutoRow(c, conv[c], "TEXT"))
    /\ UNCHANGED hvars

EnqueueCatalog(c, r) ==
    /\ AutomationOn(conv[c])
    /\ Insert(r, AutoRow(c, conv[c], "DOCUMENT"))
    /\ UNCHANGED hvars

\* A proactive catalog goes out behind the text of the same turn (after_outbox_id).
EnqueueTextThenCatalog(c, r) ==
    /\ AutomationOn(conv[c])
    /\ FreshRow(r)
    /\ r + 1 \in Rows
    /\ outbox' = [outbox EXCEPT
                    ![r] = AutoRow(c, conv[c], "TEXT"),
                    ![r + 1] = [AutoRow(c, conv[c], "DOCUMENT") EXCEPT !.after = r]]
    /\ UNCHANGED <<hvars, batch, job, delivered>>

\* create_handoff_and_pause: the notice carries the case and the period of the wait.
HandoffWithNotice(c, i, r) ==
    /\ BotHandoff(c, i)
    /\ Insert(r, NoticeRow(c, conv'[c], i))

\* A handoff whose accompanying text is not a transfer notice stays automatic.
HandoffWithQuestion(c, i, r) ==
    /\ BotHandoff(c, i)
    /\ Insert(r, AutoRow(c, conv'[c], "TEXT"))

CatalogHandoffWithNotice(c, i, r) ==
    /\ CatalogHandoff(c, i)
    /\ Insert(r, NoticeRow(c, conv'[c], i))

TemplateUnavailable(c, i) ==
    /\ CatalogHandoff(c, i)
    /\ UNCHANGED ovars

EvidenceWithNotice(c, e, i, r) ==
    /\ FirstEvidence(c, e, i)
    /\ Insert(r, NoticeRow(c, conv'[c], i))

AckEligible_WhileOpen(c, i) ==
    i \in OpenCases(c) /\ handoffs[i].reason = "PAYMENT_REVIEW"

\* payment_ack_eligibility of a receipt acknowledgement for case i.
AckEligible(c, i) ==
    /\ conv[c].state = "WAITING_FOR_HUMAN"
    /\ conv[c].bot
    /\ OpenCases(c) = {i}
    /\ handoffs[i].status = "PENDING"
    /\ handoffs[i].reason = "PAYMENT_REVIEW"

\* acknowledge_linked_payment_evidence: nothing is enqueued unless already permitted.
EvidenceWithAck(c, e, r) ==
    /\ MoreEvidence(c, e)
    /\ \E i \in CaseIds :
         /\ AckEligible(c, i)
         /\ Insert(r, [NewRow(c, "TEXT", "PAYMENT_EVIDENCE_ACK") EXCEPT !.case = i, !.ev = e])

EvidenceWithoutAck(c, e) ==
    /\ MoreEvidence(c, e)
    /\ ~\E i \in CaseIds : AckEligible(c, i)
    /\ UNCHANGED ovars

ResultRow(e) ==
    [NewRow(evidence[e].conv, "TEXT", "PAYMENT_REVIEW_RESULT") EXCEPT !.ev = e]

DecisionWithResult(e, r) ==
    /\ NotifyDecision(e) \/ NotifyUnlinked(e)
    /\ Insert(r, ResultRow(e))

ConflictWithNotice(e, i, r) ==
    /\ NotifyConflict(e, i)
    /\ Insert(r, NoticeRow(evidence[e].conv, conv'[evidence[e].conv], i))

\* No approved template, or notifications disabled: the cases change, nothing is sent.
NotifyDeferred(e) ==
    /\ \/ NotifyDecision(e)
       \/ \E i \in CaseIds : NotifyConflict(e, i)
       \/ NotifyUnlinked(e)
    /\ UNCHANGED ovars

\* create_agent_message: only the owner, and the audit row is the proof of origin.
CreateAgentMessage(a, c, i, r) ==
    /\ RequireOwned(c, i)
    /\ conv[c].agent = a
    /\ Insert(r, [NewRow(c, "TEXT", "HUMAN_REPLY") EXCEPT !.proof = TRUE])
    /\ UNCHANGED hvars

Produce ==
    \E c \in Conversations, r \in Rows :
        \/ EnqueueTemplate(c, r)
        \/ EnqueueCatalog(c, r)
        \/ EnqueueTextThenCatalog(c, r)
        \/ \E i \in CaseIds :
              \/ HandoffWithNotice(c, i, r)
              \/ HandoffWithQuestion(c, i, r)
              \/ CatalogHandoffWithNotice(c, i, r)
              \/ \E e \in Evidence : EvidenceWithNotice(c, e, i, r)
              \/ \E a \in Agents : CreateAgentMessage(a, c, i, r)
        \/ \E e \in Evidence : EvidenceWithAck(c, e, r)

ProducePayment ==
    \E e \in Evidence, r \in Rows :
        \/ DecisionWithResult(e, r)
        \/ \E i \in CaseIds : ConflictWithNotice(e, i, r)

\* The conversation changes without producing output.
Background ==
    \/ \E c \in Conversations :
          \/ \E i \in CaseIds : TemplateUnavailable(c, i)
          \/ \E e \in Evidence : EvidenceWithoutAck(c, e)
          \/ \E s \in BotStates : BotMove(c, s) /\ UNCHANGED ovars
    \/ \E e \in Evidence :
          \/ \E kind \in {"DECIDED", "CONFLICT", "UNLINKED"} :
                SettleEvidence(e, kind) /\ UNCHANGED ovars
          \/ NotifyDeferred(e)
          \/ NotifyLost(e) /\ UNCHANGED ovars
    \/ PanelStep /\ UNCHANGED ovars

(***************************************************************************)
(* Delivery decisions                                                      *)
(***************************************************************************)
\* An agent's message needs its audit row, not a particular conversation state.
HumanEligible_WhileOwned(row) == row.proof /\ conv[row.conv].state = "HUMAN_ACTIVE"

HumanEligible(row) == row.proof

ResultEligible_WhileWaiting(row) ==
    row.ev \in Evidence /\ conv[row.conv].state = "WAITING_FOR_HUMAN"

\* A payment result needs the recorded human decision.
ResultEligible(row) ==
    row.ev \in Evidence /\ evidence[row.ev].status \notin {"NONE", "PENDING_REVIEW"}

AckRowEligible(row) == row.case \in CaseIds /\ AckEligible(row.conv, row.case)

\* A transfer notice lives as long as the wait it announces.
NoticeEligible(row) ==
    /\ row.case \in CaseIds
    /\ handoffs[row.case].status = "PENDING"
    /\ conv[row.conv].state = "WAITING_FOR_HUMAN"
    /\ row.epoch = conv[row.conv].epoch

\* Automatic output lives as long as the period it was written in.
AutoEligible_AnyPeriod(row) == AutomationOn(conv[row.conv])

AutoEligible(row) == row.epoch = conv[row.conv].epoch /\ AutomationOn(conv[row.conv])

Eligible(row) ==
    \/ row.origin \in {"NONE", "HUMAN_REPLY"} /\ HumanEligible(row)
    \/ row.origin = "PAYMENT_REVIEW_RESULT" /\ ResultEligible(row)
    \/ row.origin = "PAYMENT_EVIDENCE_ACK" /\ AckRowEligible(row)
    \/ row.origin = "HANDOFF_NOTICE" /\ NoticeEligible(row)
    \/ row.origin = "AUTO" /\ AutoEligible(row)

\* eligibility: unproven origins go to a person, revoked automatic output is dropped.
Verdict(row) ==
    IF Eligible(row) THEN "ELIGIBLE"
    ELSE IF row.origin \in {"AUTO", "HANDOFF_NOTICE", "PAYMENT_EVIDENCE_ACK"}
         THEN "SUPPRESSED" ELSE "REVIEW"

\* A legacy row proven human is adopted as such while it is being judged.
Adopt(row) ==
    [row EXCEPT !.origin = IF @ = "NONE" /\ row.proof THEN "HUMAN_REPLY" ELSE @]

StopDelivery_ForgetsUnknown(row, result) ==
    [row EXCEPT !.status = IF row.phase = "ADMITTED" THEN "REVIEW" ELSE result,
                !.token = 0]

StopDelivery(row, result) ==
    [row EXCEPT
       !.status = IF row.phase \in {"ADMITTED", "UNKNOWN"} THEN "REVIEW" ELSE result,
       !.token = 0]

MarkFailure_OneMoreTry(row, permanent) ==
    [row EXCEPT !.phase = IF @ = "ADMITTED" THEN "UNKNOWN" ELSE @,
                !.token = 0,
                !.attempts = @ + 1,
                !.status = IF permanent \/ row.attempts + 1 > MaxAttempts
                           THEN "FAILED" ELSE "PENDING"]

\* _mark_outbox_failure_locked, shared by failed settlements and the reaper.
MarkFailure(row, permanent) ==
    LET known == Adopt(row)
        after == IF row.phase = "ADMITTED" THEN "UNKNOWN" ELSE row.phase
    IN  IF ~Eligible(row)
        THEN [StopDelivery(known, Verdict(row)) EXCEPT
                !.phase = after,
                !.attempts = IF row.phase = "ADMITTED" THEN @ + 1 ELSE @]
        ELSE [known EXCEPT
                !.phase = after,
                !.token = 0,
                !.attempts = @ + 1,
                !.status = IF permanent \/ row.attempts + 1 >= MaxAttempts
                           THEN "FAILED" ELSE "PENDING"]

(***************************************************************************)
(* Claiming                                                                *)
(***************************************************************************)
Claimable_RetriesFailed(r) == outbox[r].status \in {"PENDING", "FAILED"}

\* PENDING, due, and the text it must follow is no longer on its way.
Claimable(r) ==
    /\ outbox[r].status = "PENDING"
    /\ outbox[r].after # 0 => outbox[outbox[r].after].status \notin {"PENDING", "SENDING"}

TextBlocks_NotOnFailure(r) ==
    outbox[r].after # 0 /\ outbox[outbox[r].after].status \notin {"SENT", "FAILED"}

TextBlocks(r) == outbox[r].after # 0 /\ outbox[outbox[r].after].status # "SENT"

\* _dependency_blocks_claim retires a row whose text was not sent, else it is claimed.
ClaimRow(r) ==
    IF TextBlocks(r)
    THEN StopDelivery(outbox[r],
                      IF outbox[outbox[r].after].status \in {"SUPPRESSED", "FAILED"}
                      THEN "SUPPRESSED" ELSE "REVIEW")
    ELSE [outbox[r] EXCEPT !.status = "SENDING", !.claims = @ + 1,
                           !.token = outbox[r].claims + 1]

\* SKIP LOCKED may leave out any row, hence any non-empty set of due rows.
ClaimBatch(w, S) ==
    /\ job[w].pc = "idle"
    /\ batch[w] = {}
    /\ S # {}
    /\ Cardinality(S) <= BatchSize
    /\ \A r \in S : Claimable(r)
    /\ outbox' = [r \in Rows |-> IF r \in S THEN ClaimRow(r) ELSE outbox[r]]
    /\ batch' = [batch EXCEPT ![w] =
                   { [row |-> r, token |-> outbox[r].claims + 1] :
                       r \in {q \in S : ~TextBlocks(q)} }]
    /\ UNCHANGED <<hvars, job, delivered>>

\* The claims of a batch are processed in row order.
StartItem(w, k) ==
    /\ job[w].pc = "idle"
    /\ k \in batch[w]
    /\ \A l \in batch[w] : k.row <= l.row
    /\ batch' = [batch EXCEPT ![w] = @ \ {k}]
    /\ job' = [job EXCEPT ![w] =
                 [pc |-> IF outbox[k.row].kind = "TEXT" THEN "admit" ELSE "check",
                  row |-> k.row, token |-> k.token, retry |-> FALSE]]
    /\ UNCHANGED <<hvars, outbox, delivered>>

(***************************************************************************)
(* Processing one claim                                                    *)
(***************************************************************************)
Owns_AnyToken(w) == job[w].row # 0 /\ outbox[job[w].row].status = "SENDING"

Owns(w) ==
    /\ job[w].row # 0
    /\ outbox[job[w].row].status = "SENDING"
    /\ outbox[job[w].row].token = job[w].token

Goto(w, pc) == job' = [job EXCEPT ![w].pc = pc]
Finish(w)   == job' = [job EXCEPT ![w] = IdleJob]
Write(w, row) == outbox' = [outbox EXCEPT ![job[w].row] = row]

\* _decide: discard a claim that is not current, stop one that is not eligible,
\* otherwise continue (check_outbox) or record an admission (admit_outbox).
Discard(w) ==
    /\ job[w].pc \in {"check", "admit"}
    /\ ~Owns(w) \/ outbox[job[w].row].phase = "ADMITTED"
    /\ Finish(w)
    /\ UNCHANGED <<hvars, outbox, batch, delivered>>

Stop(w) ==
    LET row == outbox[job[w].row] IN
    /\ job[w].pc \in {"check", "admit"}
    /\ Owns(w)
    /\ row.phase # "ADMITTED"
    /\ ~Eligible(row)
    /\ Write(w, StopDelivery(row, Verdict(row)))
    /\ Finish(w)
    /\ UNCHANGED <<hvars, batch, delivered>>

Check(w) ==
    LET row == outbox[job[w].row] IN
    /\ job[w].pc = "check"
    /\ Owns(w)
    /\ row.phase # "ADMITTED"
    /\ Eligible(row)
    /\ Write(w, Adopt(row))
    /\ Goto(w, "resolve")
    /\ UNCHANGED <<hvars, batch, delivered>>

Admit(w) ==
    LET row == outbox[job[w].row] IN
    /\ job[w].pc = "admit"
    /\ Owns(w)
    /\ row.phase # "ADMITTED"
    /\ Eligible(row)
    /\ Write(w, [Adopt(row) EXCEPT !.phase = "ADMITTED"])
    /\ Goto(w, "send")
    /\ UNCHANGED <<hvars, batch, delivered>>

\* Anything raised before the provider call ends in settle_outbox_failure.
PreparationFails(w) ==
    /\ job[w].pc \in {"check", "admit", "resolve", "reject"}
    /\ Goto(w, "err")
    /\ UNCHANGED <<hvars, outbox, batch, delivered>>

\* resolve_document: uploads if needed, outside any lock.
Resolve(w) ==
    /\ job[w].pc = "resolve"
    /\ Goto(w, "admit") \/ Goto(w, "perm")
    /\ UNCHANGED <<hvars, outbox, batch, delivered>>

SendAccepted_CallsAgain(w) ==
    /\ job[w].pc = "send"
    /\ delivered' = delivered \cup {<<job[w].row, job[w].token>>}
    /\ Goto(w, "ok") \/ UNCHANGED job
    /\ UNCHANGED <<hvars, outbox, batch>>

\* The provider accepts the message; the worker may or may not hear about it.
SendAccepted(w) ==
    /\ job[w].pc = "send"
    /\ delivered' = delivered \cup {<<job[w].row, job[w].token>>}
    /\ Goto(w, "ok") \/ Goto(w, "err")
    /\ UNCHANGED <<hvars, outbox, batch>>

SendRejected(w) ==
    /\ job[w].pc = "send"
    /\ Goto(w, "err")
    /\ UNCHANGED <<hvars, outbox, batch, delivered>>

\* WhatsAppInvalidMediaError is retried once within the claim, with fresh media.
SendInvalidMedia(w) ==
    /\ job[w].pc = "send"
    /\ outbox[job[w].row].kind = "DOCUMENT"
    /\ ~job[w].retry
    /\ Goto(w, "reject")
    /\ UNCHANGED <<hvars, outbox, batch, delivered>>

RejectMedia(w) ==
    /\ job[w].pc = "reject"
    /\ IF Owns(w)
       THEN /\ Write(w, [outbox[job[w].row] EXCEPT !.phase = "REJECTED_MEDIA"])
            /\ job' = [job EXCEPT ![w].pc = "check", ![w].retry = TRUE]
       ELSE Finish(w) /\ UNCHANGED outbox
    /\ UNCHANGED <<hvars, batch, delivered>>

SettleSuccess(w) ==
    /\ job[w].pc = "ok"
    /\ IF Owns(w)
       THEN Write(w, [outbox[job[w].row] EXCEPT !.status = "SENT", !.phase = "SENT",
                                                !.token = 0])
       ELSE UNCHANGED outbox
    /\ Finish(w)
    /\ UNCHANGED <<hvars, batch, delivered>>

SettleFailure(w) ==
    /\ job[w].pc \in {"err", "perm"}
    /\ IF Owns(w)
       THEN Write(w, MarkFailure(outbox[job[w].row], job[w].pc = "perm"))
       ELSE UNCHANGED outbox
    /\ Finish(w)
    /\ UNCHANGED <<hvars, batch, delivered>>

\* The settling transaction itself fails: logged, and the next claim is processed.
SettleRaises(w) ==
    /\ job[w].pc \in {"ok", "err", "perm"}
    /\ Finish(w)
    /\ UNCHANGED <<hvars, outbox, batch, delivered>>

\* The worker process stops and is started again: its claims stay SENDING.
Crash(w) ==
    /\ job[w].pc # "idle" \/ batch[w] # {}
    /\ job' = [job EXCEPT ![w] = IdleJob]
    /\ batch' = [batch EXCEPT ![w] = {}]
    /\ UNCHANGED <<hvars, outbox, delivered>>

Recover_NotAdmitted(r) ==
    /\ outbox[r].status = "SENDING"
    /\ outbox[r].phase # "ADMITTED"
    /\ outbox' = [outbox EXCEPT ![r] = MarkFailure(@, FALSE)]
    /\ UNCHANGED <<hvars, batch, job, delivered>>

\* recover_stale_sending_outbox, for one row.
Recover(r) ==
    /\ outbox[r].status = "SENDING"
    /\ outbox' = [outbox EXCEPT ![r] = MarkFailure(@, FALSE)]
    /\ UNCHANGED <<hvars, batch, job, delivered>>

ClaimSome == \E w \in Workers : \E S \in SUBSET Rows : ClaimBatch(w, S)

Process(w) ==
    \/ \E k \in batch[w] : StartItem(w, k)
    \/ Discard(w) \/ Stop(w) \/ Check(w) \/ Admit(w) \/ PreparationFails(w) \/ Resolve(w)
    \/ SendAccepted(w) \/ SendRejected(w) \/ SendInvalidMedia(w) \/ RejectMedia(w)
    \/ SettleSuccess(w) \/ SettleFailure(w) \/ SettleRaises(w)

ONext ==
    \/ Produce \/ ProducePayment \/ Background
    \/ ClaimSome
    \/ \E w \in Workers : Process(w) \/ Crash(w)
    \/ \E r \in Rows : Recover(r)

OSpec == OInit /\ [][ONext]_vars

\* Each outbox loop polls for ever: it runs the reaper, claims what is due and works
\* through its batch.  Nothing is assumed of producers, agents or the provider.
OFairness ==
    /\ WF_vars(ClaimSome)
    /\ \A w \in Workers : WF_vars(Process(w))
    /\ \A r \in Rows : WF_vars(Recover(r))

OLiveSpec == OSpec /\ OFairness

(***************************************************************************)
(* Properties                                                              *)
(***************************************************************************)

\* Send calls in progress for row r, whether or not their claim is still current.
InFlight(r) == {w \in Workers : job[w].pc = "send" /\ job[w].row = r}

MaybeSent(r) == InFlight(r) # {} \/ \E t \in Tokens : <<r, t>> \in delivered

\* stop_delivery: "An earlier admitted call may have effects; never call it 'not sent'
\* after a pause".  For texts: a row retired as SUPPRESSED reached the provider in no
\* attempt, not even in one whose worker lost its claim and is still calling.
SuppressedTextNeverSent ==
    \A r \in Rows :
        outbox[r].status = "SUPPRESSED" /\ outbox[r].kind = "TEXT" => ~MaybeSent(r)

\* The same statement for every kind of row, as the comment in stop_delivery makes it.
SuppressedNeverSent ==
    \A r \in Rows : outbox[r].status = "SUPPRESSED" => ~MaybeSent(r)

\* The automation period the row was written in has ended; for the acknowledgement of a
\* receipt, somebody has taken or closed the case it was written for.
Revoked(r) ==
    /\ outbox[r].status # "ABSENT"
    /\ \/ /\ outbox[r].origin \in {"AUTO", "HANDOFF_NOTICE"}
          /\ outbox[r].epoch # conv[outbox[r].conv].epoch
       \/ /\ outbox[r].origin = "PAYMENT_EVIDENCE_ACK"
          /\ handoffs[outbox[r].case].status # "PENDING"

\* Once a pause, a take or a reset has committed, no new provider call is started for
\* output it revokes (admit_outbox): calls admitted before may still run.
NoCallAfterRevocation ==
    [][\A r \in Rows : Revoked(r) => InFlight(r)' \subseteq InFlight(r)]_vars

\* A period never comes back: revoked output stays revoked through any sequence of
\* takes, returns, reviews and resets, so returning to the bot releases no old row.
RevokedForEver ==
    [][\A r \in Rows : Revoked(r) => Revoked(r)']_vars

\* SENT is recorded only by the claim that delivered: the last claim of a SENT row is
\* in the provider's log, so a late result of an older claim never settles the row.
SentByItsOwnClaim ==
    \A r \in Rows : outbox[r].status = "SENT" => <<r, outbox[r].claims>> \in delivered

\* A catalog document that must follow a text is delivered only after the text is SENT
\* (_dependency_blocks_claim), whatever happens to the text's own attempts.
DocumentFollowsText ==
    \A r \in Rows :
        outbox[r].after # 0 /\ MaybeSent(r) => outbox[outbox[r].after].status = "SENT"

\* One claim is accepted by the provider at most once: the second call of a document
\* after an invalid-media answer is only made if the first one delivered nothing.
NoSecondDeliveryInClaim ==
    \A w \in Workers : job[w].pc = "send" => <<job[w].row, job[w].token>> \notin delivered

\* At-least-once has a limit: a row that is not settled has spent fewer than
\* outbox_max_attempts attempts, and every claim but the current one is paid for by
\* a counted attempt, so a message is sent at most MaxAttempts times.
AttemptsBoundClaims ==
    \A r \in Rows :
        /\ outbox[r].status = "PENDING" =>
             outbox[r].attempts < MaxAttempts /\ outbox[r].claims <= outbox[r].attempts
        /\ outbox[r].status = "SENDING" =>
             outbox[r].attempts < MaxAttempts /\ outbox[r].claims <= outbox[r].attempts + 1

\* Terminal rows are final: no worker that comes back late, and no reaper, moves a row
\* out of SENT, FAILED, SUPPRESSED or REVIEW.
TerminalIsFinal ==
    [][\A r \in Rows : outbox[r].status \in Terminal => outbox'[r] = outbox[r]]_vars

\* What a person decided to say, a reply of an agent or the result of a payment review,
\* is not lost to a take, a return, a reset or a pause: it ends SENT, or FAILED after
\* every attempt was used.
HumanOutputSurvivesPause ==
    \A r \in Rows : outbox[r].origin \in {"HUMAN_REPLY", "PAYMENT_REVIEW_RESULT"} =>
        /\ outbox[r].status \notin {"SUPPRESSED", "REVIEW"}
        /\ outbox[r].status = "FAILED" => outbox[r].attempts = MaxAttempts

\* Every row is eventually settled, in spite of crashes, lost answers, dependencies
\* and pauses, as long as the worker loops keep polling.
EveryRowSettles ==
    \A r \in Rows : outbox[r].status \in {"PENDING", "SENDING"} ~> outbox[r].status \in Terminal

\* Every row is well formed, and its attempt counter accounts for the claims made of it,
\* whichever of the reaper, a failed settlement or a stop gave it back.
RowsWellFormed == OTypeOK /\ AttemptsBoundClaims

\* A row is SENT by the claim that made the call, and no claim delivers a row twice, although
\* an invalid-media answer makes it call again (worker.py, _process_claimed).
ClaimDeliversOnce == SentByItsOwnClaim /\ NoSecondDeliveryInClaim

\* What was revoked or settled stays so: no call is made for a revoked row, its epoch is
\* never in force again, and no worker, late or not, takes up a settled row.
RevocationIsFinal == NoCallAfterRevocation /\ RevokedForEver /\ TerminalIsFinal
=============================================================================
