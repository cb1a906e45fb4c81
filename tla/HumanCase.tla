------------------------------ MODULE HumanCase ------------------------------
(***************************************************************************)
(* Who may speak in a conversation: the bot, nobody, or one human agent.   *)
(*                                                                         *)
(* Models the conversation state machine (app/conversation), the handoff   *)
(* cases (app/handoff), the ownership guards and take / return / reassign  *)
(* / reset routes of the panel (app/admin) and the part of the payment     *)
(* review that opens and resolves cases (app/reservation/notifications).   *)
(* Every action is one database transaction: each holds the conversation   *)
(* row lock from its first read to its commit, so it is atomic here.       *)
(***************************************************************************)
EXTENDS Naturals, ConversationStates

CONSTANTS
    Conversations,   \* conversation rows
    Agents,          \* panel users
    Admins,          \* the ones whose role is ADMIN
    NoAgent,         \* assigned_agent_id IS NULL
    Evidence,        \* payment evidence rows
    MaxCases,        \* bound: handoff rows ever created
    MaxEpoch,        \* bound: epoch at which a conversation stops being reset
    BotStates        \* the unpaused states the bot moves through in an instance

CaseIds == 1..MaxCases

ASSUME HumanCaseAssumption ==
    /\ MaxCases \in Nat
    /\ MaxEpoch \in Nat
    /\ NoAgent \notin Agents
    /\ Admins \subseteq Agents
    /\ BotStates \subseteq UnpausedStates

\* States from which an agent may take a conversation that has no case.
DIRECT_TAKE_ELIGIBLE_STATES ==
    { "BOT_ACTIVE", "ANSWERING_INFORMATION", "COLLECTING_EVENT_DATA",
      "WAITING_FOR_APPOINTMENT_DATE", "WAITING_FOR_APPOINTMENT_SELECTION",
      "APPOINTMENT_PENDING_CONFIRMATION", "APPOINTMENT_CONFIRMED", "RESOLVED" }

VARIABLES
    conv,       \* [Conversations -> state, bot (bot_enabled), epoch, agent]
    handoffs,   \* [CaseIds -> status, reason, conv, agent]
    evidence,   \* [Evidence -> review progress, conversation]
    active      \* agents whose account is active

hvars == <<conv, handoffs, evidence, active>>

CaseStatus == {"NONE", "PENDING", "TAKEN", "RETURNED", "RESOLVED"}
CaseReason == {"PAYMENT_REVIEW", "RESERVATION_CONFIRMATION", "MANUAL_TAKEOVER", "OTHER"}

\* PENDING_REVIEW until an admin decides; DECIDED / CONFLICT / UNLINKED between
\* the commit of the decision and the second transaction that notifies it;
\* NOTIFIED afterwards, or LOST if that second transaction never commits.
EvidenceStatus ==
    {"NONE", "PENDING_REVIEW", "DECIDED", "CONFLICT", "UNLINKED", "NOTIFIED", "LOST"}

Conversation == [state : ConversationState, bot : BOOLEAN, epoch : Nat,
                 agent : Agents \cup {NoAgent}]
Handoff == [status : CaseStatus, reason : CaseReason, conv : Conversations,
            agent : Agents \cup {NoAgent}]

HTypeOK ==
    /\ conv \in [Conversations -> Conversation]
    /\ handoffs \in [CaseIds -> Handoff]
    /\ evidence \in [Evidence -> [status : EvidenceStatus, conv : Conversations]]
    /\ active \in SUBSET Agents

(***************************************************************************)
(* A definition whose name has a suffix (SetState_OnEntry) is not part of  *)
(* the specification: it is a plausible mistake in the definition it is    *)
(* named after, which the properties must detect.                          *)
(***************************************************************************)

(***************************************************************************)
(* Reading the tables                                                      *)
(***************************************************************************)
Open(h) == h.status \in {"PENDING", "TAKEN"}
OpenCases(c) == {i \in CaseIds : handoffs[i].conv = c /\ Open(handoffs[i])}

\* silent_reason: a turn that finds the conversation paused produces no output.
AutomationOn(cv) == cv.state \notin PausedStates /\ cv.bot

\* The next primary key of the handoff table.
FreshCase(i) ==
    /\ handoffs[i].status = "NONE"
    /\ \A j \in CaseIds : j < i => handoffs[j].status # "NONE"

(***************************************************************************)
(* Writing a conversation row: the validators of the ORM class rotate the  *)
(* automation epoch whenever a pause starts or ends or bot_enabled flips.  *)
(***************************************************************************)
SetState_OnEntry(cv, s) ==
    [cv EXCEPT !.state = s,
               !.epoch = IF s # cv.state /\ s \in PausedStates THEN @ + 1 ELSE @]

SetState_Restores(cv, s) ==
    [cv EXCEPT !.state = s,
               !.epoch = IF s # cv.state /\ s \in PausedStates THEN @ + 1
                         ELSE IF cv.state \in PausedStates /\ @ > 0 THEN @ - 1 ELSE @]

SetState(cv, s) ==
    [cv EXCEPT !.state = s,
               !.epoch = IF s # cv.state /\ (s \in PausedStates \/ cv.state \in PausedStates)
                         THEN @ + 1 ELSE @]

SetBot(cv, b) ==
    [cv EXCEPT !.bot = b, !.epoch = IF b # cv.bot THEN @ + 1 ELSE @]

SetAgent(cv, a) == [cv EXCEPT !.agent = a]

\* transition_conversation raises InvalidStateTransition unless this holds.
CanMove(cv, s) == s \in ALLOWED_TRANSITIONS[cv.state]

\* create_handoff moves to WAITING_FOR_HUMAN unless already there.
CanWait(cv) == cv.state = "WAITING_FOR_HUMAN" \/ CanMove(cv, "WAITING_FOR_HUMAN")

NewCase_Misspelt(c, status, reason, a) ==
    [status |-> IF status = "TAKEN" THEN "ASSIGNED" ELSE status, reason |-> reason,
     conv |-> c, agent |-> a]

NewCase(c, status, reason, a) ==
    [status |-> status, reason |-> reason, conv |-> c, agent |-> a]

HInit ==
    /\ conv \in [Conversations -> {[state |-> "BOT_ACTIVE", bot |-> TRUE,
                                    epoch |-> 0, agent |-> NoAgent]}]
    /\ \E c \in Conversations :
         /\ handoffs = [i \in CaseIds |-> NewCase(c, "NONE", "OTHER", NoAgent)]
         /\ evidence = [e \in Evidence |-> [status |-> "NONE", conv |-> c]]
    /\ active = Agents

(***************************************************************************)
(* Bot turns                                                               *)
(***************************************************************************)
\* A turn moves the conversation along the table without involving a human.
BotMove(c, s) ==
    /\ AutomationOn(conv[c])
    /\ s \in BotStates
    /\ CanMove(conv[c], s)
    /\ conv' = [conv EXCEPT ![c] = SetState(@, s)]
    /\ UNCHANGED <<handoffs, evidence, active>>

\* create_handoff from a turn: the row is PENDING and the bot waits.
CreateHandoff(c, i, reason) ==
    /\ AutomationOn(conv[c])
    /\ CanWait(conv[c])
    /\ FreshCase(i)
    /\ handoffs' = [handoffs EXCEPT ![i] = NewCase(c, "PENDING", reason, NoAgent)]
    /\ conv' = [conv EXCEPT ![c] = SetState(@, "WAITING_FOR_HUMAN")]

\* A payment announced without its receipt opens a payment case with no evidence yet.
BotHandoff(c, i) ==
    /\ \E reason \in {"OTHER", "PAYMENT_REVIEW"} : CreateHandoff(c, i, reason)
    /\ UNCHANGED <<evidence, active>>

\* The catalog's two producers also switch the bot off.
CatalogHandoff(c, i) ==
    /\ AutomationOn(conv[c])
    /\ CanWait(conv[c])
    /\ FreshCase(i)
    /\ handoffs' = [handoffs EXCEPT ![i] = NewCase(c, "PENDING", "OTHER", NoAgent)]
    /\ conv' = [conv EXCEPT ![c] = SetState(SetBot(@, FALSE), "WAITING_FOR_HUMAN")]
    /\ UNCHANGED <<evidence, active>>

\* A receipt with no open payment case opens one ...
FirstEvidence(c, e, i) ==
    /\ evidence[e].status = "NONE"
    /\ \A j \in OpenCases(c) : handoffs[j].reason # "PAYMENT_REVIEW"
    /\ CreateHandoff(c, i, "PAYMENT_REVIEW")
    /\ evidence' = [evidence EXCEPT ![e] = [status |-> "PENDING_REVIEW", conv |-> c]]
    /\ UNCHANGED active

\* ... and one that arrives during the pause joins the open case.
MoreEvidence(c, e) ==
    /\ evidence[e].status = "NONE"
    /\ conv[c].state # "CLOSED"
    /\ \E j \in OpenCases(c) : handoffs[j].reason = "PAYMENT_REVIEW"
    /\ evidence' = [evidence EXCEPT ![e] = [status |-> "PENDING_REVIEW", conv |-> c]]
    /\ UNCHANGED <<conv, handoffs, active>>

(***************************************************************************)
(* Payment decisions: one transaction settles the evidence, a second one   *)
(* resolves cases and notifies.  Anything may happen between the two.      *)
(***************************************************************************)
SettleEvidence(e, kind) ==
    /\ evidence[e].status = "PENDING_REVIEW"
    /\ kind \in {"DECIDED", "CONFLICT", "UNLINKED"}
    /\ evidence' = [evidence EXCEPT ![e].status = kind]
    /\ UNCHANGED <<conv, handoffs, active>>

ReviewPending(c) ==
    \E e \in Evidence : evidence[e].conv = c /\ evidence[e].status = "PENDING_REVIEW"

ResolvePaymentCases_All(hs, c) ==
    IF ReviewPending(c)
    THEN hs
    ELSE [i \in CaseIds |->
            IF hs[i].conv = c /\ Open(hs[i])
            THEN [hs[i] EXCEPT !.status = "RESOLVED", !.agent = NoAgent]
            ELSE hs[i]]

\* resolve_payment_handoffs over the table hs, for a conversation row cv.
ResolvePaymentCases(hs, c) ==
    IF ReviewPending(c)
    THEN hs
    ELSE [i \in CaseIds |->
            IF hs[i].conv = c /\ Open(hs[i]) /\ hs[i].reason = "PAYMENT_REVIEW"
            THEN [hs[i] EXCEPT !.status = "RESOLVED", !.agent = NoAgent]
            ELSE hs[i]]

ResolvePaymentConversation_IgnoresOthers(hs, cv, c) ==
    IF ~ReviewPending(c) /\ cv.state \in {"WAITING_FOR_HUMAN", "HUMAN_ACTIVE"}
    THEN SetState(SetAgent(SetBot(cv, TRUE), NoAgent), "BOT_ACTIVE")
    ELSE cv

\* The conversation returns to the bot only if payment cases were all its open cases.
ResolvePaymentConversation(hs, cv, c) ==
    LET open == {i \in CaseIds : hs[i].conv = c /\ Open(hs[i])}
    IN  IF /\ ~ReviewPending(c)
           /\ open # {}
           /\ \A i \in open : hs[i].reason = "PAYMENT_REVIEW"
           /\ cv.state \in {"WAITING_FOR_HUMAN", "HUMAN_ACTIVE"}
        THEN LET freed == SetAgent(SetBot(cv, TRUE), NoAgent)
             IN  SetState(IF cv.state = "HUMAN_ACTIVE"
                          THEN SetState(freed, "RETURNED_TO_BOT") ELSE freed,
                          "BOT_ACTIVE")
        ELSE cv

Notified(e) == evidence' = [evidence EXCEPT ![e].status = "NOTIFIED"]

NotifyDecision(e) ==
    LET c == evidence[e].conv IN
    /\ evidence[e].status = "DECIDED"
    /\ handoffs' = ResolvePaymentCases(handoffs, c)
    /\ conv' = [conv EXCEPT ![c] = ResolvePaymentConversation(handoffs, @, c)]
    /\ Notified(e)
    /\ UNCHANGED active

\* A slot conflict opens an urgent case of its own before payment cases are resolved.
NotifyConflict(e, i) ==
    LET c  == evidence[e].conv
        hs == [handoffs EXCEPT ![i] =
                 NewCase(c, "PENDING", "RESERVATION_CONFIRMATION", NoAgent)]
    IN  /\ evidence[e].status = "CONFLICT"
        /\ FreshCase(i)
        /\ CanWait(conv[c])
        /\ handoffs' = ResolvePaymentCases(hs, c)
        /\ conv' = [conv EXCEPT ![c] =
                      ResolvePaymentConversation(hs, SetState(@, "WAITING_FOR_HUMAN"), c)]
        /\ Notified(e)
        /\ UNCHANGED active

\* Evidence without a reservation is notified without touching cases.
NotifyUnlinked(e) ==
    /\ evidence[e].status = "UNLINKED"
    /\ Notified(e)
    /\ UNCHANGED <<conv, handoffs, active>>

\* The API process stops, or the second transaction raises: nothing retries it.
NotifyLost(e) ==
    /\ evidence[e].status \in {"DECIDED", "CONFLICT", "UNLINKED"}
    /\ evidence' = [evidence EXCEPT ![e].status = "LOST"]
    /\ UNCHANGED <<conv, handoffs, active>>

(***************************************************************************)
(* Panel routes                                                            *)
(***************************************************************************)
RequirePending_AnyCase(c, i) ==
    /\ i \in OpenCases(c)
    /\ conv[c].state = "WAITING_FOR_HUMAN"
    /\ conv[c].agent = NoAgent
    /\ handoffs[i].status = "PENDING"

RequirePending_NoExclusivity(c, i) ==
    /\ i \in OpenCases(c)
    /\ conv[c].state = "WAITING_FOR_HUMAN"
    /\ handoffs[i].status = "PENDING"

RequirePending_ById(c, i) ==
    /\ conv[c].state = "WAITING_FOR_HUMAN"
    /\ conv[c].agent = NoAgent
    /\ handoffs[i].conv = c
    /\ handoffs[i].status # "NONE"

\* lock_human_case by handoff id, then require_pending_case.
RequirePending(c, i) ==
    /\ OpenCases(c) = {i}
    /\ conv[c].state = "WAITING_FOR_HUMAN"
    /\ conv[c].agent = NoAgent
    /\ handoffs[i].status = "PENDING"
    /\ handoffs[i].agent = NoAgent

\* require_owned_case.  authenticated_agent is a transaction of its own that ends before
\* the route's transaction begins, so an agent deactivated in between still acts here.
RequireOwned(c, i) ==
    /\ OpenCases(c) = {i}
    /\ conv[c].state = "HUMAN_ACTIVE"
    /\ ~conv[c].bot
    /\ handoffs[i].status = "TAKEN"
    /\ conv[c].agent # NoAgent
    /\ conv[c].agent = handoffs[i].agent

TakeHandoff(a, c, i) ==
    /\ RequirePending(c, i)
    /\ CanMove(conv[c], "HUMAN_ACTIVE")
    /\ handoffs' = [handoffs EXCEPT ![i].status = "TAKEN", ![i].agent = a]
    /\ conv' = [conv EXCEPT ![c] =
                  SetState(SetAgent(SetBot(@, FALSE), a), "HUMAN_ACTIVE")]
    /\ UNCHANGED <<evidence, active>>

TakeConversation(a, c, i) ==
    /\ conv[c].state \in DIRECT_TAKE_ELIGIBLE_STATES
    /\ conv[c].agent = NoAgent
    /\ OpenCases(c) = {}
    /\ FreshCase(i)
    /\ handoffs' = [handoffs EXCEPT ![i] = NewCase(c, "TAKEN", "MANUAL_TAKEOVER", a)]
    /\ LET reopened == IF conv[c].state = "RESOLVED"
                       THEN SetState(conv[c], "BOT_ACTIVE") ELSE conv[c]
       IN  /\ CanMove(reopened, "WAITING_FOR_HUMAN")
           /\ conv' = [conv EXCEPT ![c] =
                         SetState(SetState(SetAgent(SetBot(reopened, FALSE), a),
                                           "WAITING_FOR_HUMAN"),
                                  "HUMAN_ACTIVE")]
    /\ UNCHANGED <<evidence, active>>

ReassignConversation(b, c, i) ==
    /\ RequireOwned(c, i)
    /\ b \in active
    /\ b # conv[c].agent
    /\ handoffs' = [handoffs EXCEPT ![i].agent = b]
    /\ conv' = [conv EXCEPT ![c] = SetAgent(@, b)]
    /\ UNCHANGED <<evidence, active>>

ReturnHandoff_Requeues(a, c, i) ==
    /\ RequireOwned(c, i)
    /\ conv[c].agent = a
    /\ handoffs' = [handoffs EXCEPT ![i].status = "PENDING", ![i].agent = NoAgent]
    /\ conv' = [conv EXCEPT ![c] =
                  SetState(SetState(SetAgent(SetBot(@, TRUE), NoAgent), "RETURNED_TO_BOT"),
                           "BOT_ACTIVE")]
    /\ UNCHANGED <<evidence, active>>

ReturnHandoff(a, c, i) ==
    /\ RequireOwned(c, i)
    /\ conv[c].agent = a
    /\ handoffs' = [handoffs EXCEPT ![i].status = "RETURNED", ![i].agent = NoAgent]
    /\ conv' = [conv EXCEPT ![c] =
                  SetState(SetState(SetAgent(SetBot(@, TRUE), NoAgent), "RETURNED_TO_BOT"),
                           "BOT_ACTIVE")]
    /\ UNCHANGED <<evidence, active>>

\* reset_conversation_by_phone: close, resolve every case, always a new epoch.
ResetConversation(c) ==
    /\ conv[c].epoch < MaxEpoch
    /\ conv' = [conv EXCEPT ![c] =
                  [state |-> "CLOSED", bot |-> TRUE, epoch |-> @.epoch + 1,
                   agent |-> NoAgent]]
    /\ handoffs' = [i \in CaseIds |->
                      IF handoffs[i].conv = c /\ handoffs[i].status # "NONE"
                      THEN [handoffs[i] EXCEPT !.status = "RESOLVED", !.agent = NoAgent]
                      ELSE handoffs[i]]
    /\ UNCHANGED <<evidence, active>>

\* deactivate_agent keeps the agent's conversations assigned, and refuses the last
\* active admin; activate_agent undoes it.
DeactivateAgent(a) ==
    /\ a \in active
    /\ a \in Admins => \E b \in Admins \ {a} : b \in active
    /\ active' = active \ {a}
    /\ UNCHANGED <<conv, handoffs, evidence>>

ActivateAgent(a) ==
    /\ a \notin active
    /\ active' = active \cup {a}
    /\ UNCHANGED <<conv, handoffs, evidence>>

BotStep ==
    \E c \in Conversations :
        \/ \E s \in BotStates : BotMove(c, s)
        \/ \E i \in CaseIds : BotHandoff(c, i) \/ CatalogHandoff(c, i)
        \/ \E e \in Evidence : MoreEvidence(c, e)
        \/ \E e \in Evidence, i \in CaseIds : FirstEvidence(c, e, i)

ReviewStep ==
    \E e \in Evidence :
        \/ \E kind \in {"DECIDED", "CONFLICT", "UNLINKED"} : SettleEvidence(e, kind)
        \/ NotifyDecision(e)
        \/ \E i \in CaseIds : NotifyConflict(e, i)
        \/ NotifyUnlinked(e)
        \/ NotifyLost(e)

PanelStep ==
    \/ \E c \in Conversations, a \in Agents, i \in CaseIds :
          \/ TakeHandoff(a, c, i)
          \/ TakeConversation(a, c, i)
          \/ ReassignConversation(a, c, i)
          \/ ReturnHandoff(a, c, i)
    \/ \E c \in Conversations : ResetConversation(c)
    \/ \E a \in Agents : DeactivateAgent(a) \/ ActivateAgent(a)

HNext == BotStep \/ ReviewStep \/ PanelStep

HSpec == HInit /\ [][HNext]_hvars

(***************************************************************************)
(* Properties                                                              *)
(***************************************************************************)

\* A conversation in HUMAN_ACTIVE has its bot off, exactly one open case, taken,
\* and one owner recorded identically in the conversation and in the case: the
\* precondition every panel mutation re-checks (require_owned_case), so an owner
\* is never locked out of answering or returning.
HumanActiveIsOwned ==
    \A c \in Conversations : conv[c].state = "HUMAN_ACTIVE" =>
        \E i \in CaseIds : RequireOwned(c, i)

\* When nobody has paused the conversation, no case is left open behind it and no
\* agent stays assigned: otherwise the next take would answer 409 for ever
\* (require_unassigned_conversation) or a case would sit in the inbox unattended.
UnpausedIsClean ==
    \A c \in Conversations : conv[c].state \notin PausedStates =>
        /\ OpenCases(c) = {}
        /\ conv[c].agent = NoAgent
        /\ conv[c].bot

\* A conversation that waits for a human has a PENDING case in the shared inbox:
\* the pause set by create_handoff never outlives the work that caused it.
WaitingHasPendingCase ==
    \A c \in Conversations : conv[c].state = "WAITING_FOR_HUMAN" =>
        \E i \in OpenCases(c) : handoffs[i].status = "PENDING"

\* At most one case of a conversation is taken: two agents never own one
\* conversation, whatever the order of takes, reassignments, returns and reviews.
OneAgentPerConversation ==
    \A i, j \in CaseIds :
        /\ handoffs[i].status = "TAKEN"
        /\ handoffs[j].status = "TAKEN"
        /\ handoffs[i].conv = handoffs[j].conv
        => i = j

\* A closed case is never reopened: RETURNED and RESOLVED are left only by a reset
\* that resolves the case, so a late take or notification cannot revive it.
ClosedCasesStayClosed ==
    [][\A i \in CaseIds :
         handoffs[i].status \in {"RETURNED", "RESOLVED"} =>
            /\ ~Open(handoffs'[i])
            /\ handoffs[i].status = "RESOLVED" => handoffs'[i].status = "RESOLVED"]_hvars

\* docs/conversation/states.md: a WAITING_FOR_HUMAN conversation "debe tomarse con el
\* handoff pendiente existente".  Says that the take of the only pending case is
\* accepted by require_pending_case.
WaitingCaseCanBeTaken ==
    \A c \in Conversations, i \in CaseIds :
        /\ conv[c].state = "WAITING_FOR_HUMAN"
        /\ OpenCases(c) = {i}
        /\ handoffs[i].status = "PENDING"
        => RequirePending(c, i)

(***************************************************************************)
(* What the rest of the system may rely on: see AutomationGate.            *)
(***************************************************************************)
Gate == INSTANCE AutomationGate WITH
            on <- [c \in Conversations |-> AutomationOn(conv[c])],
            epoch <- [c \in Conversations |-> conv[c].epoch]

\* The conversation rows implement the automation gate the outbox and the inbox are
\* fenced by: whenever the permission of the bot to speak changes, the epoch moves
\* to a value never used before.
ImplementsGate == Gate!Spec
=============================================================================
