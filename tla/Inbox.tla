-------------------------------- MODULE Inbox --------------------------------
(***************************************************************************)
(* The durable inbox: webhook events, the messages and jobs they expand    *)
(* into, and the claims that turn each message into one bot turn.          *)
(*                                                                         *)
(* Models app/channel/inbox.py, the intake half of app/channel/inbound.py, *)
(* app/orchestrator/inbox_effects.py and the operator's retry command.     *)
(* The API's background task, the worker loop and the command line run the *)
(* same functions, so a claim is a process of its own here: the ones that  *)
(* wait their turn in a batch are claims that have not taken a step yet.   *)
(* Backoff and claim ages are left to nondeterminism.                      *)
(***************************************************************************)
EXTENDS Naturals, FiniteSets

CONSTANTS
    Customers,     \* phone numbers; their order is the order of the numbers
    Staff,         \* phones of active notification recipients
    Messages,      \* provider message ids; within a payload, in this order
    Sender,        \* [Messages -> Customers]
    Events,        \* webhook deliveries
    Payload,       \* [Events -> SUBSET Messages]: redeliveries share messages
    Legacy,        \* messages stored before jobs existed, all of one customer
    OldEvents,     \* events stored before intake_version existed
    Claimers,      \* claims that can be in progress at the same time
    Data,          \* values of the conversation's other columns and the customer's name
    MaxAttempts,   \* inbox_max_attempts
    MaxCalls,      \* agenda calls in one turn (12 in the code)
    MaxClaims,     \* bound: claims of a job after which nobody cancels or retries it
    MaxEpoch       \* bound: epoch at which people stop pausing a conversation

ASSUME InboxAssumption ==
    /\ Customers \subseteq Nat /\ Customers # {} /\ Staff \subseteq Customers
    /\ Messages \subseteq Nat \ {0} /\ IsFiniteSet(Messages)
    /\ Sender \in [Messages -> Customers]
    /\ Payload \in [Events -> SUBSET Messages]
    /\ Legacy \subseteq {m \in Messages : Sender[m] \notin Staff}
    /\ \A m, n \in Legacy : Sender[m] = Sender[n]
    /\ OldEvents \subseteq Events
    /\ Data # {}
    /\ {MaxAttempts, MaxCalls} \subseteq Nat \ {0}
    /\ {MaxClaims, MaxEpoch} \subseteq Nat

\* Every conversation is opened by a message, or existed with the legacy ones.
Conversations == 1..(Cardinality(Messages) + 1)
Tokens == 0..(MaxClaims + MaxAttempts)   \* claim_token: 0 is NULL, n the n-th uuid of a job

VARIABLES
    events,    \* [Events -> webhook_event row]
    jobs,      \* [Messages -> inbox_job row, at most one per message]
    ctx,       \* [Conversations -> what the fingerprint covers]
    claim,     \* [Claimers -> the claim in progress and the step it is at]
    applied,   \* [Messages -> turns committed for the message]
    mutated    \* <<message, token>> of appointment calls that took effect

ivars == <<events, jobs, ctx, claim, applied, mutated>>

EventStatus == {"ABSENT", "RECEIVED", "FAILED", "PREPARED", "PROCESSED", "EXHAUSTED", "REVIEW"}
JobStatus == {"NONE", "PENDING", "PROCESSING", "EXTERNAL", "COMPLETED", "FAILED", "REVIEW"}
\* PAUSED stands for WAITING_FOR_HUMAN, HUMAN_ACTIVE and bot_enabled = False.
Stage == {"ABSENT", "BOT", "PAUSED", "RESOLVED", "CLOSED"}
Context == [stage : Stage, customer : Customers, epoch : Nat, data : Data]
Steps == {"idle", "classify", "apply", "prepare", "call", "record", "fail"}

ITypeOK ==
    /\ events \in [Events -> [status : EventStatus, attempts : 0..MaxAttempts, v2 : BOOLEAN]]
    /\ jobs \in [Messages -> [status : JobStatus, id : Nat, conv : Conversations,
                              new : BOOLEAN, attempts : 0..MaxAttempts, claims : Tokens,
                              token : Tokens, ext : BOOLEAN]]
    /\ ctx \in [Conversations -> Context]
    /\ claim \in [Claimers -> [pc : Steps, msg : Messages \cup {0}, token : Tokens,
                               seen : Context, calls : 0..MaxCalls, mutating : BOOLEAN]]
    /\ applied \in [Messages -> Nat]
    /\ mutated \in SUBSET (Messages \X Tokens)

(***************************************************************************)
(* A definition whose name has a suffix (FailLocked_Retries) is not part   *)
(* of the specification: it is a plausible mistake in the definition it is *)
(* named after, which the properties must detect.                          *)
(***************************************************************************)

NoContext == [stage |-> "ABSENT", customer |-> CHOOSE c \in Customers : TRUE,
              epoch |-> 0, data |-> CHOOSE d \in Data : TRUE]
IdleClaim == [pc |-> "idle", msg |-> 0, token |-> 0, seen |-> NoContext,
              calls |-> 0, mutating |-> FALSE]
NoJob == [status |-> "NONE", id |-> 0, conv |-> 1, new |-> TRUE, attempts |-> 0,
          claims |-> 0, token |-> 0, ext |-> FALSE]

Opened(customer) == [NoContext EXCEPT !.stage = "BOT", !.customer = customer]

IInit ==
    /\ events = [e \in Events |->
                   [status |-> IF e \in OldEvents THEN "RECEIVED" ELSE "ABSENT",
                    attempts |-> 0, v2 |-> e \notin OldEvents]]
    /\ jobs = [m \in Messages |-> NoJob]
    /\ ctx = [c \in Conversations |->
                IF c = 1 /\ Legacy # {} THEN Opened(Sender[CHOOSE m \in Legacy : TRUE])
                ELSE NoContext]
    /\ claim = [w \in Claimers |-> IdleClaim]
    /\ applied = [m \in Messages |-> 0]
    /\ mutated = {}

Exists(m) == jobs[m].status # "NONE"
Unfinished(m) == jobs[m].status \notin {"NONE", "COMPLETED"}

(***************************************************************************)
(* Intake                                                                  *)
(***************************************************************************)
\* receive_webhook commits the event before anything is done with it.
StoreWebhookEvent(e) ==
    /\ events[e].status = "ABSENT"
    /\ events' = [events EXCEPT ![e].status = "RECEIVED"]
    /\ UNCHANGED <<jobs, ctx, claim, applied, mutated>>

ActiveConversation_ReusesClosed(customer) ==
    LET mine == {c \in Conversations : /\ ctx[c].customer = customer
                                       /\ ctx[c].stage \notin {"ABSENT", "RESOLVED"}}
    IN  IF mine = {} THEN 0 ELSE CHOOSE c \in mine : \A d \in mine : d <= c

\* get_or_create_active_conversation: the latest one not RESOLVED or CLOSED, 0 if none.
ActiveConversation(customer) ==
    LET mine == {c \in Conversations : /\ ctx[c].customer = customer
                                       /\ ctx[c].stage \in {"BOT", "PAUSED"}}
    IN  IF mine = {} THEN 0 ELSE CHOOSE c \in mine : \A d \in mine : d <= c

\* persist_payload_phase_a: a job for every message that has none, sorted by phone;
\* staff messages are intercepted and a stored message without a job is never replayed.
Missing(e) == {m \in Payload[e] : ~Exists(m) /\ Sender[m] \notin Staff}
Openers(e) == {Sender[m] : m \in {n \in Missing(e) \ Legacy : ActiveConversation(Sender[n]) = 0}}

OpenedAs(e, customer) ==
    Cardinality({c \in Conversations : ctx[c].stage # "ABSENT"})
      + Cardinality({d \in Openers(e) : d <= customer})

JobId(e, m) ==
    Cardinality({n \in Messages : Exists(n)})
      + Cardinality({n \in Missing(e) : \/ Sender[n] < Sender[m]
                                        \/ Sender[n] = Sender[m] /\ n <= m})

NewJob_LegacyAsNew(e, m) ==
    [NoJob EXCEPT !.status = "PENDING", !.id = JobId(e, m),
                  !.conv = IF Sender[m] \in Openers(e) THEN OpenedAs(e, Sender[m])
                           ELSE IF m \in Legacy THEN 1 ELSE ActiveConversation(Sender[m])]

NewJob(e, m) ==
    IF m \in Legacy
    THEN [NoJob EXCEPT !.status = "REVIEW", !.id = JobId(e, m), !.new = FALSE]
    ELSE [NoJob EXCEPT !.status = "PENDING", !.id = JobId(e, m),
                       !.conv = IF Sender[m] \in Openers(e) THEN OpenedAs(e, Sender[m])
                                ELSE ActiveConversation(Sender[m])]

Expandable_ReceivedOnly(e) == events[e].status = "RECEIVED"

\* expand_event of an event whose turn it is
Expandable(e) == events[e].status \in {"RECEIVED", "FAILED"}

ExpandEvent(e) ==
    /\ Expandable(e)
    /\ events[e].v2
    /\ events' = [events EXCEPT ![e].status = "PREPARED"]
    /\ jobs' = [m \in Messages |-> IF m \in Missing(e) THEN NewJob(e, m) ELSE jobs[m]]
    /\ ctx' = [c \in Conversations |->
                 IF \E d \in Openers(e) : c = OpenedAs(e, d)
                 THEN Opened(CHOOSE d \in Openers(e) : c = OpenedAs(e, d)) ELSE ctx[c]]
    /\ UNCHANGED <<claim, applied, mutated>>

\* The savepoint is rolled back: nothing is stored but the failed attempt.
ExpandEventFails(e) ==
    /\ Expandable(e)
    /\ events[e].v2
    /\ events' = [events EXCEPT
                    ![e].attempts = @ + 1,
                    ![e].status = IF events[e].attempts + 1 >= MaxAttempts
                                  THEN "EXHAUSTED" ELSE "FAILED"]
    /\ UNCHANGED <<jobs, ctx, claim, applied, mutated>>

ExpandOldEvent(e) ==
    /\ Expandable(e)
    /\ ~events[e].v2
    /\ events' = [events EXCEPT ![e].status = "REVIEW"]
    /\ UNCHANGED <<jobs, ctx, claim, applied, mutated>>

\* adopt_unmaterialized: the operator admits an old event none of whose messages is stored.
AdoptOldEvent(e) ==
    /\ Expandable(e)
    /\ ~events[e].v2
    /\ \A m \in Payload[e] : ~Exists(m) /\ m \notin Legacy
    /\ events' = [events EXCEPT ![e].v2 = TRUE, ![e].status = "RECEIVED"]
    /\ UNCHANGED <<jobs, ctx, claim, applied, mutated>>

Outcome_AnyDone(e) ==
    LET has(s) == \E m \in Payload[e] : jobs[m].status = s
    IN  IF has("COMPLETED") THEN "PROCESSED"
        ELSE IF has("REVIEW") THEN "REVIEW"
        ELSE IF has("FAILED") THEN "EXHAUSTED" ELSE "PREPARED"

\* refresh_event: what the event's jobs say of it
Outcome(e) ==
    LET has(s) == \E m \in Payload[e] : jobs[m].status = s
    IN  IF has("NONE") THEN "REVIEW"
        ELSE IF \A m \in Payload[e] : jobs[m].status = "COMPLETED" THEN "PROCESSED"
        ELSE IF has("REVIEW") THEN "REVIEW"
        ELSE IF has("FAILED") THEN "EXHAUSTED" ELSE "PREPARED"

RefreshEvent(e) ==
    /\ events[e].status = "PREPARED"
    /\ Outcome(e) # "PREPARED"
    /\ events' = [events EXCEPT ![e].status = Outcome(e)]
    /\ UNCHANGED <<jobs, ctx, claim, applied, mutated>>

(***************************************************************************)
(* Jobs                                                                    *)
(***************************************************************************)
Retire(j, status) == [j EXCEPT !.status = status, !.token = 0]

FailLocked_Retries(j) ==
    [Retire(j, IF j.attempts + 1 >= MaxAttempts THEN "FAILED" ELSE "PENDING")
       EXCEPT !.attempts = j.attempts + 1]

FailLocked_NoLimit(j) ==
    [Retire(j, IF j.ext THEN "REVIEW" ELSE "PENDING") EXCEPT !.attempts = j.attempts + 1]

\* An attempt that may have changed the agenda is never repeated by itself.
FailLocked(j) ==
    [Retire(j, IF j.ext THEN "REVIEW"
               ELSE IF j.attempts + 1 >= MaxAttempts THEN "FAILED" ELSE "PENDING")
       EXCEPT !.attempts = j.attempts + 1]

IsHead_FirstPending(m) ==
    \A n \in Messages :
        jobs[n].status = "PENDING" /\ jobs[n].conv = jobs[m].conv => jobs[m].id <= jobs[n].id

\* The earliest unfinished job of its conversation.
IsHead(m) ==
    \A n \in Messages :
        Unfinished(n) /\ jobs[n].conv = jobs[m].conv => jobs[m].id <= jobs[n].id

ClaimJob(w, m) ==
    /\ claim[w].pc = "idle"
    /\ jobs[m].status = "PENDING"
    /\ IsHead(m)
    /\ jobs' = [jobs EXCEPT ![m].status = "PROCESSING", ![m].claims = @ + 1,
                            ![m].token = jobs[m].claims + 1]
    /\ claim' = [claim EXCEPT ![w] =
                   [pc |-> "classify", msg |-> m, token |-> jobs[m].claims + 1,
                    seen |-> ctx[jobs[m].conv], calls |-> 0, mutating |-> FALSE]]
    /\ UNCHANGED <<events, ctx, applied, mutated>>

Job(w) == jobs[claim[w].msg]

Owned_NotRechecked(w) == claim[w].msg # 0

Owned(w) ==
    /\ claim[w].msg # 0
    /\ Job(w).status \in {"PROCESSING", "EXTERNAL"}
    /\ Job(w).token = claim[w].token

Silent(c) == ctx[c].stage \in {"PAUSED", "CLOSED"}
ContextChanged(w) == ctx[Job(w).conv] # claim[w].seen

Goto(w, pc) == claim' = [claim EXCEPT ![w].pc = pc]
Release(w) == claim' = [claim EXCEPT ![w] = IdleClaim]
WriteJob(w, j) == jobs' = [jobs EXCEPT ![claim[w].msg] = j]

\* ensure_transcription and classify_message: outside every lock.
Classify(w) ==
    /\ claim[w].pc = "classify"
    /\ Goto(w, "apply")
    /\ UNCHANGED <<events, jobs, ctx, applied, mutated>>

\* An exception in any step is settled by settle_inbox_failure.
Raise(w) ==
    /\ claim[w].pc \in {"classify", "apply", "prepare", "record"}
    /\ Goto(w, "fail")
    /\ UNCHANGED <<events, jobs, ctx, applied, mutated>>

\* owned finds that the claim was taken away: the result is discarded.
Discard(w) ==
    /\ claim[w].pc \in {"apply", "prepare", "record", "fail"}
    /\ ~Owned(w)
    /\ Release(w)
    /\ UNCHANGED <<events, jobs, ctx, applied, mutated>>

\* The context moved since the claim and somebody may answer: classify it again, or have
\* a person look if the agenda was already touched.
ApplyStale(w) ==
    /\ claim[w].pc = "apply"
    /\ Owned(w)
    /\ ContextChanged(w)
    /\ \/ Job(w).ext /\ WriteJob(w, Retire(Job(w), "REVIEW"))
       \/ ~Job(w).ext /\ ~Silent(Job(w).conv) /\ WriteJob(w, FailLocked(Job(w)))
    /\ Release(w)
    /\ UNCHANGED <<events, ctx, applied, mutated>>

Applicable(w) ==
    /\ claim[w].pc = "apply"
    /\ Owned(w)
    /\ ContextChanged(w) => ~Job(w).ext /\ Silent(Job(w).conv)

TurnLeaves(cv, s, d) ==
    [cv EXCEPT !.stage = s, !.data = d, !.epoch = IF s = "PAUSED" THEN @ + 1 ELSE @]

\* What an answering turn may leave behind: an answer, a handoff or a farewell.
TurnOutcome(cv) == {TurnLeaves(cv, s, d) : s \in {"BOT", "PAUSED", "RESOLVED"}, d \in Data}

\* apply_turn commits the effects and COMPLETED together; a pause makes the turn silent.
ApplyTurn(w) ==
    LET c == Job(w).conv IN
    /\ Applicable(w)
    /\ WriteJob(w, Retire(Job(w), "COMPLETED"))
    /\ applied' = [applied EXCEPT ![claim[w].msg] = @ + 1]
    /\ IF Silent(c) THEN UNCHANGED ctx
       ELSE \E next \in TurnOutcome(ctx[c]) : ctx' = [ctx EXCEPT ![c] = next]
    /\ Release(w)
    /\ UNCHANGED <<events, mutated>>

\* DeferredAgendaCall rolls the turn back to make the call outside the transaction.
DeferCall(w, mutating) ==
    /\ Applicable(w)
    /\ ~Silent(Job(w).conv)
    /\ claim' = [claim EXCEPT ![w].pc = "prepare", ![w].mutating = mutating]
    /\ UNCHANGED <<events, jobs, ctx, applied, mutated>>

PrepareExternal(w) ==
    /\ claim[w].pc = "prepare"
    /\ Owned(w)
    /\ IF ContextChanged(w)
       THEN WriteJob(w, FailLocked(Job(w))) /\ Release(w)
       ELSE /\ IF claim[w].mutating
               THEN WriteJob(w, [Job(w) EXCEPT !.status = "EXTERNAL", !.ext = TRUE])
               ELSE UNCHANGED jobs
            /\ Goto(w, "call")
    /\ UNCHANGED <<events, ctx, applied, mutated>>

\* The replay loop runs the turn at most MaxCalls times.
NextApply(w) ==
    claim' = [claim EXCEPT ![w].calls = @ + 1,
                           ![w].pc = IF claim[w].calls + 1 = MaxCalls THEN "fail" ELSE "apply"]

\* The appointment service answers, or raises, with or without having had its effect.
Call(w) ==
    /\ claim[w].pc = "call"
    /\ \/ UNCHANGED mutated
       \/ claim[w].mutating /\ mutated' = mutated \cup {<<claim[w].msg, claim[w].token>>}
    /\ \/ Goto(w, "fail")
       \/ claim[w].mutating /\ Goto(w, "record")
       \/ ~claim[w].mutating /\ NextApply(w)
    /\ UNCHANGED <<events, jobs, ctx, applied>>

RecordExternalResult(w) ==
    /\ claim[w].pc = "record"
    /\ Owned(w)
    /\ NextApply(w)
    /\ UNCHANGED <<events, jobs, ctx, applied, mutated>>

SettleInboxFailure(w) ==
    /\ claim[w].pc = "fail"
    /\ Owned(w)
    /\ WriteJob(w, FailLocked(Job(w)))
    /\ Release(w)
    /\ UNCHANGED <<events, ctx, applied, mutated>>

\* CancelledError: the process stops in an orderly way and releases its claim.
Cancel(w) ==
    /\ claim[w].pc # "idle"
    /\ Job(w).claims < MaxClaims
    /\ IF Owned(w)
       THEN WriteJob(w, Retire(Job(w), IF Job(w).ext THEN "REVIEW" ELSE "PENDING"))
       ELSE UNCHANGED jobs
    /\ Release(w)
    /\ UNCHANGED <<events, ctx, applied, mutated>>

\* The process dies, or the settling transaction fails: only the reaper is left.
Crash(w) ==
    /\ claim[w].pc # "idle"
    /\ Release(w)
    /\ UNCHANGED <<events, jobs, ctx, applied, mutated>>

RecoverStale_ProcessingOnly(m) ==
    /\ jobs[m].status = "PROCESSING"
    /\ jobs' = [jobs EXCEPT ![m] = FailLocked(@)]
    /\ UNCHANGED <<events, ctx, claim, applied, mutated>>

RecoverStale(m) ==
    /\ jobs[m].status \in {"PROCESSING", "EXTERNAL"}
    /\ jobs' = [jobs EXCEPT ![m] = FailLocked(@)]
    /\ UNCHANGED <<events, ctx, claim, applied, mutated>>

(***************************************************************************)
(* People                                                                  *)
(***************************************************************************)
\* Takes, returns, reviews and edits change what the fingerprint covers; see HumanCase.
HumanChange(c) ==
    /\ ctx[c].stage \in {"BOT", "PAUSED", "RESOLVED"}
    /\ \/ /\ ctx[c].epoch < MaxEpoch
          /\ ctx' = [ctx EXCEPT ![c].stage = IF @ = "PAUSED" THEN "BOT" ELSE "PAUSED",
                                ![c].epoch = @ + 1]
       \/ \E d \in Data \ {ctx[c].data} : ctx' = [ctx EXCEPT ![c].data = d]
    /\ UNCHANGED <<events, jobs, claim, applied, mutated>>

\* reset_conversation_by_phone answers 409 while a job of the customer is being processed.
ResetAllowed(customer) ==
    \A m \in Messages : Exists(m) /\ ctx[jobs[m].conv].customer = customer =>
        jobs[m].status \notin {"PROCESSING", "EXTERNAL"}

ResetConversation(customer) ==
    LET mine == {c \in Conversations : ctx[c].stage # "ABSENT" /\ ctx[c].customer = customer} IN
    /\ mine # {}
    /\ \A c \in mine : ctx[c].epoch < MaxEpoch
    /\ ResetAllowed(customer)
    /\ ctx' = [c \in Conversations |->
                 IF c \in mine
                 THEN [ctx[c] EXCEPT !.stage = "CLOSED", !.epoch = @ + 1,
                                     !.data = NoContext.data]
                 ELSE ctx[c]]
    /\ jobs' = [m \in Messages |->
                  IF Unfinished(m) /\ jobs[m].conv \in mine
                  THEN Retire(jobs[m], "COMPLETED") ELSE jobs[m]]
    /\ UNCHANGED <<events, claim, applied, mutated>>

\* retry_job: the operator gives an exhausted, purely local job a new budget.
RetryJob(m) ==
    /\ jobs[m].status = "FAILED"
    /\ jobs[m].new
    /\ ~jobs[m].ext
    /\ jobs[m].claims < MaxClaims
    /\ jobs' = [jobs EXCEPT ![m] = [Retire(@, "PENDING") EXCEPT !.attempts = 0]]
    /\ events' = [e \in Events |->
                    IF m \in Payload[e] /\ events[e].status = "EXHAUSTED" /\ events[e].v2
                    THEN [events[e] EXCEPT !.status = "PREPARED"] ELSE events[e]]
    /\ UNCHANGED <<ctx, claim, applied, mutated>>

Expand(e) == ExpandEvent(e) \/ ExpandEventFails(e) \/ ExpandOldEvent(e)

ClaimSome == \E w \in Claimers, m \in Messages : ClaimJob(w, m)

Process(w) ==
    \/ Classify(w) \/ Raise(w) \/ Discard(w) \/ ApplyStale(w) \/ ApplyTurn(w)
    \/ \E mutating \in BOOLEAN : DeferCall(w, mutating)
    \/ PrepareExternal(w) \/ Call(w) \/ RecordExternalResult(w) \/ SettleInboxFailure(w)

INext ==
    \/ \E e \in Events :
          StoreWebhookEvent(e) \/ Expand(e) \/ AdoptOldEvent(e) \/ RefreshEvent(e)
    \/ ClaimSome
    \/ \E w \in Claimers : Process(w) \/ Cancel(w) \/ Crash(w)
    \/ \E m \in Messages : RecoverStale(m) \/ RetryJob(m)
    \/ \E c \in Conversations : HumanChange(c)
    \/ \E customer \in Customers : ResetConversation(customer)

ISpec == IInit /\ [][INext]_ivars

\* _run_inbox_loop polls for ever: reaper, expansion, claims, refresh.  Nothing is assumed
\* of the provider, of people or of the services a turn calls beyond their returning.
IFairness ==
    /\ \A e \in Events : WF_ivars(Expand(e)) /\ WF_ivars(RefreshEvent(e))
    /\ WF_ivars(ClaimSome)
    /\ \A w \in Claimers : WF_ivars(Process(w))
    /\ \A m \in Messages : WF_ivars(RecoverStale(m))

ILiveSpec == ISpec /\ IFairness

(***************************************************************************)
(* Properties                                                              *)
(***************************************************************************)

\* At most one claim ever changes the agenda on behalf of a message: a confirmation, a
\* change or a cancellation of an appointment is not repeated by a retry, a reaper, a
\* cancellation or a redelivered webhook (R2: "no hay replay automatico").
OneMutatingClaim ==
    \A m \in Messages : Cardinality({t \in Tokens : <<m, t>> \in mutated}) <= 1

\* A message whose turn touched the agenda is finished or in a person's hands, or still
\* owned by the claim that did it; it never goes back to the queue.
MutationIsAccountedFor ==
    \A m \in Messages, t \in Tokens : <<m, t>> \in mutated =>
        \/ jobs[m].status \in {"COMPLETED", "REVIEW"}
        \/ jobs[m].status = "EXTERNAL" /\ jobs[m].token = t

\* Turns of a conversation are applied in the order the messages were accepted: when a
\* turn commits, every earlier job of its conversation is COMPLETED.
TurnsInOrder ==
    [][\A m \in Messages : applied'[m] # applied[m] =>
         \A n \in Messages :
            Exists(n) /\ jobs[n].conv = jobs[m].conv /\ jobs[n].id < jobs[m].id =>
                jobs[n].status = "COMPLETED"]_ivars

\* A message has at most one committed turn, in spite of late workers, reapers, resets,
\* manual retries and duplicated deliveries.
OneTurnPerMessage ==
    \A m \in Messages : applied[m] <= 1 /\ (applied[m] = 1 => jobs[m].status = "COMPLETED")

\* PROCESSED is only said of an event all of whose messages are done, and stays true.
ProcessedMeansDone ==
    \A e \in Events : events[e].status = "PROCESSED" =>
        \A m \in Payload[e] : jobs[m].status = "COMPLETED"

\* After a reset no turn of the old conversations is still to commit: whatever a worker
\* was doing, a CLOSED conversation has no unfinished job, but for a legacy message
\* redelivered afterwards, which waits in REVIEW and never runs.
ResetLeavesNothingRunning ==
    \A m \in Messages :
        Exists(m) /\ ctx[jobs[m].conv].stage = "CLOSED" =>
            jobs[m].status = IF m \in Legacy /\ jobs[m].status # "COMPLETED"
                             THEN "REVIEW" ELSE "COMPLETED"

\* A message stored before jobs existed may have been answered then: no redelivery, retry
\* or adopted event ever runs its turn again (persist_inbound_message_in_session).
LegacyNeverReplayed == \A m \in Legacy : applied[m] = 0 /\ ~\E t \in Tokens : <<m, t>> \in mutated

\* Jobs and events are well formed; a message has at most one turn, however often it is
\* delivered, claimed and retried, and a message of the time before jobs has none.
MessagesAccountedFor == ITypeOK /\ OneTurnPerMessage /\ LegacyNeverReplayed

\* The agenda is touched by at most one claim of a message, and a message whose claim may have
\* touched it is never offered to another one (inbox.py, fail_locked).
MutationsFenced == OneMutatingClaim /\ MutationIsAccountedFor

\* docs/remediation/r2: "WebhookEvent.PROCESSED se calcula posteriormente cuando todos sus
\* trabajos estan COMPLETED": an event that has jobs, all of them COMPLETED, is refreshed
\* to PROCESSED and to nothing else (refresh_event).
CompletedJobsMeanProcessed ==
    [][\A e \in Events :
         LET mine == {m \in Payload[e] : Exists(m)} IN
         /\ events[e].status = "PREPARED"
         /\ events'[e].status # "PREPARED"
         /\ mine # {}
         /\ \A m \in mine : jobs[m].status = "COMPLETED"
         => events'[e].status = "PROCESSED"]_ivars

\* FAILED and REVIEW stop the conversation they are in until somebody intervenes.
Blocked(m) ==
    \E n \in Messages : /\ jobs[n].status \in {"FAILED", "REVIEW"}
                        /\ jobs[n].conv = jobs[m].conv
                        /\ jobs[n].id <= jobs[m].id

\* Every accepted message is eventually answered or stopped by a job a person must look
\* at; it is never left behind by crashes, cancellations or context changes.
EveryMessageSettles ==
    \A m \in Messages : Unfinished(m) ~> (jobs[m].status = "COMPLETED" \/ Blocked(m))

\* Every stored event is eventually classified, unless one of its messages is blocked.
EveryEventSettles ==
    \A e \in Events :
        events[e].status \in {"RECEIVED", "FAILED", "PREPARED"} ~>
            \/ events[e].status \in {"PROCESSED", "EXHAUSTED", "REVIEW"}
            \/ \E m \in Payload[e] : Exists(m) /\ Blocked(m)
=============================================================================
