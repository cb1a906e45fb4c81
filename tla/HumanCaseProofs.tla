--------------------------- MODULE HumanCaseProofs ---------------------------
(***************************************************************************)
(* Proofs about HumanCase, for any number of conversations, agents,        *)
(* receipts and cases.                                                     *)
(***************************************************************************)
EXTENDS HumanCase, TLAPS

(***************************************************************************)
(* The writers of a conversation row and of a case                         *)
(***************************************************************************)

\* The state validator of Conversation keeps the row well formed.
LEMMA SetStateType ==
    ASSUME NEW cv \in Conversation, NEW s \in ConversationState
    PROVE  SetState(cv, s) \in Conversation
  <1> DEFINE rotates == s # cv.state /\ (s \in PausedStates \/ cv.state \in PausedStates)
  <1>0. cv.epoch \in Nat /\ cv.epoch + 1 \in Nat
    BY DEF Conversation
  <1>1. CASE rotates
    <2>1. SetState(cv, s) = [cv EXCEPT !.state = s, !.epoch = cv.epoch + 1]
      BY <1>1 DEF SetState
    <2> QED
      BY <1>0, <2>1 DEF Conversation
  <1>2. CASE ~rotates
    <2>1. SetState(cv, s) = [cv EXCEPT !.state = s, !.epoch = @]
      BY <1>2 DEF SetState
    <2> QED
      BY <2>1 DEF Conversation
  <1> QED
    BY <1>1, <1>2

\* So does the bot_enabled validator.
LEMMA SetBotType ==
    ASSUME NEW cv \in Conversation, NEW b \in BOOLEAN
    PROVE  SetBot(cv, b) \in Conversation
  <1>0. cv.epoch \in Nat /\ cv.epoch + 1 \in Nat
    BY DEF Conversation
  <1>1. CASE b # cv.bot
    <2>1. SetBot(cv, b) = [cv EXCEPT !.bot = b, !.epoch = cv.epoch + 1]
      BY <1>1 DEF SetBot
    <2> QED
      BY <1>0, <2>1 DEF Conversation
  <1>2. CASE ~(b # cv.bot)
    <2>1. SetBot(cv, b) = [cv EXCEPT !.bot = b, !.epoch = @]
      BY <1>2 DEF SetBot
    <2> QED
      BY <2>1 DEF Conversation
  <1> QED
    BY <1>1, <1>2

\* And the assignment of an agent, or of nobody.
LEMMA SetAgentType ==
    ASSUME NEW cv \in Conversation, NEW a \in Agents \cup {NoAgent}
    PROVE  SetAgent(cv, a) \in Conversation
  BY DEF SetAgent, Conversation

\* A case created by create_handoff or take_conversation is well formed.
LEMMA NewCaseType ==
    ASSUME NEW c \in Conversations, NEW st \in CaseStatus, NEW re \in CaseReason,
           NEW a \in Agents \cup {NoAgent}
    PROVE  NewCase(c, st, re, a) \in Handoff
  BY DEF NewCase, Handoff

\* The states the operations move to are conversation states.
LEMMA NamedStates ==
    /\ {"BOT_ACTIVE", "RETURNED_TO_BOT", "RESOLVED", "WAITING_FOR_HUMAN", "HUMAN_ACTIVE",
        "CLOSED"} \subseteq ConversationState
    /\ BotStates \subseteq ConversationState
  BY HumanCaseAssumption DEF ConversationState, PausedStates, UnpausedStates

\* resolve_payment_handoffs keeps the case table well formed.
LEMMA ResolvePaymentCasesType ==
    ASSUME NEW hs \in [CaseIds -> Handoff], NEW c \in Conversations
    PROVE  ResolvePaymentCases(hs, c) \in [CaseIds -> Handoff]
  <1>1. \A i \in CaseIds : [hs[i] EXCEPT !.status = "RESOLVED", !.agent = NoAgent] \in Handoff
    BY DEF Handoff, CaseStatus
  <1> QED
    BY <1>1 DEF ResolvePaymentCases

\* And the conversation it may hand back to the bot.
LEMMA ResolvePaymentConversationType ==
    ASSUME NEW hs \in [CaseIds -> Handoff], NEW c \in Conversations, NEW cv \in Conversation
    PROVE  ResolvePaymentConversation(hs, cv, c) \in Conversation
  <1> DEFINE freed == SetAgent(SetBot(cv, TRUE), NoAgent)
             back  == IF cv.state = "HUMAN_ACTIVE" THEN SetState(freed, "RETURNED_TO_BOT")
                      ELSE freed
  <1>1. freed \in Conversation
    BY SetBotType, SetAgentType
  <1>2. back \in Conversation
    BY <1>1, SetStateType, NamedStates
  <1>3. SetState(back, "BOT_ACTIVE") \in Conversation
    BY <1>2, SetStateType, NamedStates
  <1>4. ResolvePaymentConversation(hs, cv, c) \in {cv, SetState(back, "BOT_ACTIVE")}
    BY DEF ResolvePaymentConversation
  <1> QED
    BY <1>3, <1>4

(***************************************************************************)
(* Type correctness                                                        *)
(***************************************************************************)

\* The initial rows are well formed.
LEMMA HTypeInit == HInit => HTypeOK
  <1> SUFFICES ASSUME HInit PROVE HTypeOK
    OBVIOUS
  <1>1. [state |-> "BOT_ACTIVE", bot |-> TRUE, epoch |-> 0, agent |-> NoAgent] \in Conversation
    BY NamedStates DEF Conversation
  <1>2. conv \in [Conversations -> Conversation]
    BY <1>1 DEF HInit
  <1>3. PICK c \in Conversations :
          /\ handoffs = [i \in CaseIds |-> NewCase(c, "NONE", "OTHER", NoAgent)]
          /\ evidence = [e \in Evidence |-> [status |-> "NONE", conv |-> c]]
    BY DEF HInit
  <1>4. NewCase(c, "NONE", "OTHER", NoAgent) \in Handoff
    BY NewCaseType DEF CaseStatus, CaseReason
  <1>5. handoffs \in [CaseIds -> Handoff]
    BY <1>3, <1>4
  <1>6. evidence \in [Evidence -> [status : EvidenceStatus, conv : Conversations]]
    BY <1>3 DEF EvidenceStatus
  <1> QED
    BY <1>2, <1>5, <1>6 DEF HTypeOK, HInit

\* create_handoff from a turn.
LEMMA CreateHandoffType ==
    ASSUME HTypeOK, NEW c \in Conversations, NEW i \in CaseIds, NEW reason \in CaseReason,
           CreateHandoff(c, i, reason)
    PROVE  /\ conv' \in [Conversations -> Conversation]
           /\ handoffs' \in [CaseIds -> Handoff]
  <1>1. NewCase(c, "PENDING", reason, NoAgent) \in Handoff
    BY NewCaseType DEF CaseStatus
  <1>2. SetState(conv[c], "WAITING_FOR_HUMAN") \in Conversation
    BY SetStateType, NamedStates DEF HTypeOK
  <1> QED
    BY <1>1, <1>2 DEF CreateHandoff, HTypeOK

\* Every turn of the bot keeps the tables well formed.
LEMMA BotStepType == HTypeOK /\ BotStep => HTypeOK'
  <1> SUFFICES ASSUME HTypeOK, NEW c \in Conversations,
                      \/ \E s \in BotStates : BotMove(c, s)
                      \/ \E i \in CaseIds : BotHandoff(c, i) \/ CatalogHandoff(c, i)
                      \/ \E e \in Evidence : MoreEvidence(c, e)
                      \/ \E e \in Evidence, i \in CaseIds : FirstEvidence(c, e, i)
               PROVE  HTypeOK'
    BY DEF BotStep
  <1>1. ASSUME NEW s \in BotStates, BotMove(c, s) PROVE HTypeOK'
    <2>1. SetState(conv[c], s) \in Conversation
      BY SetStateType, NamedStates DEF HTypeOK
    <2> QED
      BY <1>1, <2>1 DEF BotMove, HTypeOK
  <1>2. ASSUME NEW i \in CaseIds, BotHandoff(c, i) PROVE HTypeOK'
    BY <1>2, CreateHandoffType DEF BotHandoff, CaseReason, HTypeOK
  <1>3. ASSUME NEW i \in CaseIds, CatalogHandoff(c, i) PROVE HTypeOK'
    <2>1. NewCase(c, "PENDING", "OTHER", NoAgent) \in Handoff
      BY NewCaseType DEF CaseStatus, CaseReason
    <2>2. SetBot(conv[c], FALSE) \in Conversation
      BY SetBotType DEF HTypeOK
    <2>3. SetState(SetBot(conv[c], FALSE), "WAITING_FOR_HUMAN") \in Conversation
      BY <2>2, SetStateType, NamedStates
    <2> QED
      BY <1>3, <2>1, <2>3 DEF CatalogHandoff, HTypeOK
  <1>4. ASSUME NEW e \in Evidence, MoreEvidence(c, e) PROVE HTypeOK'
    BY <1>4 DEF MoreEvidence, HTypeOK, EvidenceStatus
  <1>5. ASSUME NEW e \in Evidence, NEW i \in CaseIds, FirstEvidence(c, e, i) PROVE HTypeOK'
    <2>1. conv' \in [Conversations -> Conversation] /\ handoffs' \in [CaseIds -> Handoff]
      BY <1>5, CreateHandoffType DEF FirstEvidence, CaseReason
    <2> QED
      BY <1>5, <2>1 DEF FirstEvidence, HTypeOK, EvidenceStatus
  <1> QED
    BY <1>1, <1>2, <1>3, <1>4, <1>5

\* Every step of the payment review keeps the tables well formed.
LEMMA ReviewStepType == HTypeOK /\ ReviewStep => HTypeOK'
  <1> SUFFICES ASSUME HTypeOK, NEW e \in Evidence,
                      \/ \E kind \in {"DECIDED", "CONFLICT", "UNLINKED"} : SettleEvidence(e, kind)
                      \/ NotifyDecision(e)
                      \/ \E i \in CaseIds : NotifyConflict(e, i)
                      \/ NotifyUnlinked(e)
                      \/ NotifyLost(e)
               PROVE  HTypeOK'
    BY DEF ReviewStep
  <1> DEFINE c == evidence[e].conv
  <1>0. c \in Conversations /\ conv[c] \in Conversation
    BY DEF HTypeOK
  <1>1. ASSUME NEW kind \in {"DECIDED", "CONFLICT", "UNLINKED"}, SettleEvidence(e, kind)
        PROVE  HTypeOK'
    BY <1>1 DEF SettleEvidence, HTypeOK, EvidenceStatus
  <1>2. CASE NotifyDecision(e)
    <2>1. ResolvePaymentCases(handoffs, c) \in [CaseIds -> Handoff]
      BY <1>0, ResolvePaymentCasesType DEF HTypeOK
    <2>2. ResolvePaymentConversation(handoffs, conv[c], c) \in Conversation
      BY <1>0, ResolvePaymentConversationType DEF HTypeOK
    <2> QED
      BY <1>0, <1>2, <2>1, <2>2 DEF NotifyDecision, Notified, HTypeOK, EvidenceStatus
  <1>3. ASSUME NEW i \in CaseIds, NotifyConflict(e, i) PROVE HTypeOK'
    <2> DEFINE hs == [handoffs EXCEPT ![i] =
                        NewCase(c, "PENDING", "RESERVATION_CONFIRMATION", NoAgent)]
    <2>1. NewCase(c, "PENDING", "RESERVATION_CONFIRMATION", NoAgent) \in Handoff
      BY <1>0, NewCaseType DEF CaseStatus, CaseReason
    <2>2. hs \in [CaseIds -> Handoff]
      BY <2>1 DEF HTypeOK
    <2>3. ResolvePaymentCases(hs, c) \in [CaseIds -> Handoff]
      BY <1>0, <2>2, ResolvePaymentCasesType
    <2>4. SetState(conv[c], "WAITING_FOR_HUMAN") \in Conversation
      BY <1>0, SetStateType, NamedStates
    <2>5. ResolvePaymentConversation(hs, SetState(conv[c], "WAITING_FOR_HUMAN"), c)
            \in Conversation
      BY <1>0, <2>2, <2>4, ResolvePaymentConversationType
    <2> QED
      BY <1>0, <1>3, <2>3, <2>5 DEF NotifyConflict, Notified, HTypeOK, EvidenceStatus
  <1>4. CASE NotifyUnlinked(e)
    BY <1>4 DEF NotifyUnlinked, Notified, HTypeOK, EvidenceStatus
  <1>5. CASE NotifyLost(e)
    BY <1>5 DEF NotifyLost, HTypeOK, EvidenceStatus
  <1> QED
    BY <1>1, <1>2, <1>3, <1>4, <1>5

\* Every panel route keeps the tables well formed.
LEMMA PanelStepType == HTypeOK /\ PanelStep => HTypeOK'
  <1> SUFFICES ASSUME HTypeOK, PanelStep PROVE HTypeOK'
    OBVIOUS
  <1>1. ASSUME NEW c \in Conversations, NEW a \in Agents, NEW i \in CaseIds, TakeHandoff(a, c, i)
        PROVE  HTypeOK'
    <2>1. SetAgent(SetBot(conv[c], FALSE), a) \in Conversation
      BY SetBotType, SetAgentType DEF HTypeOK
    <2>2. SetState(SetAgent(SetBot(conv[c], FALSE), a), "HUMAN_ACTIVE") \in Conversation
      BY <2>1, SetStateType, NamedStates
    <2>3. [handoffs EXCEPT ![i].status = "TAKEN", ![i].agent = a] \in [CaseIds -> Handoff]
      BY DEF HTypeOK, Handoff, CaseStatus
    <2> QED
      BY <1>1, <2>2, <2>3 DEF TakeHandoff, HTypeOK
  <1>2. ASSUME NEW c \in Conversations, NEW a \in Agents, NEW i \in CaseIds,
               TakeConversation(a, c, i)
        PROVE  HTypeOK'
    <2> DEFINE reopened == IF conv[c].state = "RESOLVED"
                           THEN SetState(conv[c], "BOT_ACTIVE") ELSE conv[c]
               owned    == SetAgent(SetBot(reopened, FALSE), a)
               waiting  == SetState(owned, "WAITING_FOR_HUMAN")
    <2>1. reopened \in Conversation
      BY SetStateType, NamedStates DEF HTypeOK
    <2>2. owned \in Conversation
      BY <2>1, SetBotType, SetAgentType
    <2>3. waiting \in Conversation
      BY <2>2, SetStateType, NamedStates
    <2>4. SetState(waiting, "HUMAN_ACTIVE") \in Conversation
      BY <2>3, SetStateType, NamedStates
    <2>5. NewCase(c, "TAKEN", "MANUAL_TAKEOVER", a) \in Handoff
      BY NewCaseType DEF CaseStatus, CaseReason
    <2>6. /\ conv' = [conv EXCEPT ![c] = SetState(waiting, "HUMAN_ACTIVE")]
          /\ handoffs' = [handoffs EXCEPT ![i] = NewCase(c, "TAKEN", "MANUAL_TAKEOVER", a)]
          /\ UNCHANGED <<evidence, active>>
      BY <1>2 DEF TakeConversation
    <2> QED
      BY <2>4, <2>5, <2>6 DEF HTypeOK
  <1>3. ASSUME NEW c \in Conversations, NEW a \in Agents, NEW i \in CaseIds,
               ReassignConversation(a, c, i)
        PROVE  HTypeOK'
    <2>1. SetAgent(conv[c], a) \in Conversation
      BY SetAgentType DEF HTypeOK
    <2>2. [handoffs EXCEPT ![i].agent = a] \in [CaseIds -> Handoff]
      BY DEF HTypeOK, Handoff
    <2> QED
      BY <1>3, <2>1, <2>2 DEF ReassignConversation, HTypeOK
  <1>4. ASSUME NEW c \in Conversations, NEW a \in Agents, NEW i \in CaseIds,
               ReturnHandoff(a, c, i)
        PROVE  HTypeOK'
    <2> DEFINE freed == SetAgent(SetBot(conv[c], TRUE), NoAgent)
    <2>1. freed \in Conversation
      BY SetBotType, SetAgentType DEF HTypeOK
    <2>2. SetState(freed, "RETURNED_TO_BOT") \in Conversation
      BY <2>1, SetStateType, NamedStates
    <2>3. SetState(SetState(freed, "RETURNED_TO_BOT"), "BOT_ACTIVE") \in Conversation
      BY <2>2, SetStateType, NamedStates
    <2>4. [handoffs EXCEPT ![i].status = "RETURNED", ![i].agent = NoAgent]
            \in [CaseIds -> Handoff]
      BY DEF HTypeOK, Handoff, CaseStatus
    <2> QED
      BY <1>4, <2>3, <2>4 DEF ReturnHandoff, HTypeOK
  <1>5. ASSUME NEW c \in Conversations, ResetConversation(c) PROVE HTypeOK'
    <2> DEFINE closed == [state |-> "CLOSED", bot |-> TRUE, epoch |-> conv[c].epoch + 1,
                          agent |-> NoAgent]
    <2>1. conv[c].epoch + 1 \in Nat
      BY DEF HTypeOK, Conversation
    <2>2. closed \in Conversation
      BY <2>1, NamedStates DEF Conversation
    <2>3. \A i \in CaseIds :
            [handoffs[i] EXCEPT !.status = "RESOLVED", !.agent = NoAgent] \in Handoff
      BY DEF HTypeOK, Handoff, CaseStatus
    <2> QED
      BY <1>5, <2>2, <2>3 DEF ResetConversation, HTypeOK
  <1>6. ASSUME NEW a \in Agents, DeactivateAgent(a) \/ ActivateAgent(a) PROVE HTypeOK'
    BY <1>6 DEF DeactivateAgent, ActivateAgent, HTypeOK
  <1> QED
    BY <1>1, <1>2, <1>3, <1>4, <1>5, <1>6 DEF PanelStep

\* Type correctness is preserved by every step.
LEMMA HTypeNext == HTypeOK /\ [HNext]_hvars => HTypeOK'
  <1>1. HTypeOK /\ UNCHANGED hvars => HTypeOK'
    BY DEF hvars, HTypeOK
  <1> QED
    BY <1>1, BotStepType, ReviewStepType, PanelStepType DEF HNext

\* The conversation, handoff, evidence and agent tables stay well formed: only the
\* documented states, statuses and reasons are ever stored, and every owner is an agent.
THEOREM HTypeInvariant == HSpec => []HTypeOK
  BY HTypeInit, HTypeNext, PTL DEF HSpec

(***************************************************************************)
(* The conversation rows implement the automation gate                     *)
(***************************************************************************)

\* Row cw may follow row cv: the epoch never decreases, and it grows whenever the
\* permission of the bot to speak changes.
Later(cv, cw) ==
    /\ cv.epoch \in Nat
    /\ cw.epoch \in Nat
    /\ cw.epoch >= cv.epoch
    /\ (AutomationOn(cv) /\ ~AutomationOn(cw)) => cw.epoch > cv.epoch
    /\ (~AutomationOn(cv) /\ AutomationOn(cw)) => cw.epoch > cv.epoch

\* The fields of a row after the state validator.
LEMMA SetStateFields ==
    ASSUME NEW cv \in Conversation, NEW s \in ConversationState
    PROVE  /\ SetState(cv, s).state = s
           /\ SetState(cv, s).bot = cv.bot
           /\ SetState(cv, s).agent = cv.agent
           /\ SetState(cv, s).epoch =
                IF s # cv.state /\ (s \in PausedStates \/ cv.state \in PausedStates)
                THEN cv.epoch + 1 ELSE cv.epoch
  BY DEF SetState, Conversation

\* The fields of a row after the bot_enabled validator.
LEMMA SetBotFields ==
    ASSUME NEW cv \in Conversation, NEW b \in BOOLEAN
    PROVE  /\ SetBot(cv, b).state = cv.state
           /\ SetBot(cv, b).bot = b
           /\ SetBot(cv, b).agent = cv.agent
           /\ SetBot(cv, b).epoch = IF b # cv.bot THEN cv.epoch + 1 ELSE cv.epoch
  BY DEF SetBot, Conversation

\* The fields of a row after an assignment.
LEMMA SetAgentFields ==
    ASSUME NEW cv \in Conversation, NEW a
    PROVE  /\ SetAgent(cv, a).state = cv.state
           /\ SetAgent(cv, a).bot = cv.bot
           /\ SetAgent(cv, a).agent = a
           /\ SetAgent(cv, a).epoch = cv.epoch
  BY DEF SetAgent, Conversation

\* A change of state that starts or ends a pause rotates the epoch.
LEMMA SetStateLater ==
    ASSUME NEW cv \in Conversation, NEW s \in ConversationState
    PROVE  Later(cv, SetState(cv, s))
  <1>1. cv.epoch \in Nat
    BY DEF Conversation
  <1> QED
    BY <1>1, SetStateFields DEF Later, AutomationOn

\* So does switching the bot on or off.
LEMMA SetBotLater ==
    ASSUME NEW cv \in Conversation, NEW b \in BOOLEAN
    PROVE  Later(cv, SetBot(cv, b))
  <1>1. cv.epoch \in Nat /\ cv.bot \in BOOLEAN
    BY DEF Conversation
  <1>2. CASE b = cv.bot
    BY <1>1, <1>2, SetBotFields DEF Later, AutomationOn
  <1>3. CASE b # cv.bot
    BY <1>1, <1>3, SetBotFields DEF Later, AutomationOn
  <1> QED
    BY <1>2, <1>3

\* An assignment leaves both alone.
LEMMA SetAgentLater ==
    ASSUME NEW cv \in Conversation, NEW a
    PROVE  Later(cv, SetAgent(cv, a))
  <1>1. cv.epoch \in Nat
    BY DEF Conversation
  <1> QED
    BY <1>1, SetAgentFields DEF Later, AutomationOn

\* Writes of one transaction compose.
LEMMA LaterTransitive ==
    ASSUME NEW cu, NEW cv, NEW cw, Later(cu, cv), Later(cv, cw)
    PROVE  Later(cu, cw)
  <1>1. CASE AutomationOn(cv)
    BY <1>1 DEF Later
  <1>2. CASE ~AutomationOn(cv)
    BY <1>2 DEF Later
  <1> QED
    BY <1>1, <1>2

\* resolve_payment_handoffs writes a later row.
LEMMA ResolvePaymentLater ==
    ASSUME NEW hs, NEW c \in Conversations, NEW cv \in Conversation
    PROVE  Later(cv, ResolvePaymentConversation(hs, cv, c))
  <1> DEFINE on    == SetBot(cv, TRUE)
             freed == SetAgent(on, NoAgent)
             back  == IF cv.state = "HUMAN_ACTIVE" THEN SetState(freed, "RETURNED_TO_BOT")
                      ELSE freed
  <1>1. on \in Conversation /\ Later(cv, on)
    BY SetBotType, SetBotLater
  <1>2. freed \in Conversation /\ Later(on, freed)
    BY <1>1, SetAgentType, SetAgentLater
  <1>3. Later(cv, freed)
    BY <1>1, <1>2, LaterTransitive
  <1>4. back \in Conversation /\ Later(cv, back)
    BY <1>2, <1>3, SetStateType, SetStateLater, NamedStates, LaterTransitive
  <1>5. Later(cv, SetState(back, "BOT_ACTIVE"))
    BY <1>4, SetStateLater, NamedStates, LaterTransitive
  <1>6. Later(cv, cv)
    BY DEF Later, Conversation
  <1>7. ResolvePaymentConversation(hs, cv, c) \in {cv, SetState(back, "BOT_ACTIVE")}
    BY DEF ResolvePaymentConversation
  <1> QED
    BY <1>5, <1>6, <1>7

\* Row c, and only row c, may have been rewritten, by a later row.
OneRowLater ==
    \E c \in Conversations, cw \in Conversation :
        Later(conv[c], cw) /\ conv' = [conv EXCEPT ![c] = cw]

\* Each transaction of the bot leaves the conversations alone or rewrites one.
LEMMA BotStepLater == HTypeOK /\ BotStep => UNCHANGED conv \/ OneRowLater
  <1> SUFFICES ASSUME HTypeOK, BotStep PROVE UNCHANGED conv \/ OneRowLater
    OBVIOUS
  <1>1. ASSUME NEW c \in Conversations, NEW s \in ConversationState,
               conv' = [conv EXCEPT ![c] = SetState(@, s)]
        PROVE  OneRowLater
    <2>1. SetState(conv[c], s) \in Conversation /\ Later(conv[c], SetState(conv[c], s))
      BY SetStateType, SetStateLater DEF HTypeOK
    <2> QED
      BY <1>1, <2>1 DEF OneRowLater, HTypeOK
  <1>2. ASSUME NEW c \in Conversations, NEW i \in CaseIds, CatalogHandoff(c, i)
        PROVE  OneRowLater
    <2> DEFINE off == SetBot(conv[c], FALSE)
    <2>1. off \in Conversation /\ Later(conv[c], off)
      BY SetBotType, SetBotLater DEF HTypeOK
    <2>2. /\ SetState(off, "WAITING_FOR_HUMAN") \in Conversation
          /\ Later(off, SetState(off, "WAITING_FOR_HUMAN"))
      BY <2>1, SetStateType, SetStateLater, NamedStates
    <2>3. Later(conv[c], SetState(off, "WAITING_FOR_HUMAN"))
      BY <2>1, <2>2, LaterTransitive
    <2> QED
      BY <1>2, <2>2, <2>3 DEF CatalogHandoff, OneRowLater, HTypeOK
  <1>3. ASSUME NEW c \in Conversations, NEW s \in BotStates, BotMove(c, s) PROVE OneRowLater
    BY <1>1, <1>3, NamedStates DEF BotMove
  <1>4. ASSUME NEW c \in Conversations, NEW i \in CaseIds, BotHandoff(c, i) PROVE OneRowLater
    BY <1>1, <1>4, NamedStates DEF BotHandoff, CreateHandoff
  <1>5. ASSUME NEW c \in Conversations, NEW e \in Evidence, NEW i \in CaseIds,
               FirstEvidence(c, e, i)
        PROVE  OneRowLater
    BY <1>1, <1>5, NamedStates DEF FirstEvidence, CreateHandoff
  <1>6. ASSUME NEW c \in Conversations, NEW e \in Evidence, MoreEvidence(c, e)
        PROVE  UNCHANGED conv
    BY <1>6 DEF MoreEvidence
  <1> QED
    BY <1>2, <1>3, <1>4, <1>5, <1>6 DEF BotStep

\* Each transaction of the payment review does the same.
LEMMA ReviewStepLater == HTypeOK /\ ReviewStep => UNCHANGED conv \/ OneRowLater
  <1> SUFFICES ASSUME HTypeOK, NEW e \in Evidence,
                      \/ \E kind \in {"DECIDED", "CONFLICT", "UNLINKED"} : SettleEvidence(e, kind)
                      \/ NotifyDecision(e)
                      \/ \E i \in CaseIds : NotifyConflict(e, i)
                      \/ NotifyUnlinked(e)
                      \/ NotifyLost(e)
               PROVE  UNCHANGED conv \/ OneRowLater
    BY DEF ReviewStep
  <1> DEFINE c == evidence[e].conv
  <1>0. c \in Conversations /\ conv[c] \in Conversation
    BY DEF HTypeOK
  <1>1. CASE NotifyDecision(e)
    <2>1. /\ ResolvePaymentConversation(handoffs, conv[c], c) \in Conversation
          /\ Later(conv[c], ResolvePaymentConversation(handoffs, conv[c], c))
      BY <1>0, ResolvePaymentConversationType, ResolvePaymentLater DEF HTypeOK
    <2> QED
      BY <1>0, <1>1, <2>1 DEF NotifyDecision, OneRowLater, HTypeOK
  <1>2. ASSUME NEW i \in CaseIds, NotifyConflict(e, i) PROVE OneRowLater
    <2> DEFINE hs   == [handoffs EXCEPT ![i] =
                          NewCase(c, "PENDING", "RESERVATION_CONFIRMATION", NoAgent)]
               wait == SetState(conv[c], "WAITING_FOR_HUMAN")
               last == ResolvePaymentConversation(hs, wait, c)
    <2>1. NewCase(c, "PENDING", "RESERVATION_CONFIRMATION", NoAgent) \in Handoff
      BY <1>0, NewCaseType DEF CaseStatus, CaseReason
    <2>2. hs \in [CaseIds -> Handoff]
      BY <2>1 DEF HTypeOK
    <2>3. wait \in Conversation /\ Later(conv[c], wait)
      BY <1>0, SetStateType, SetStateLater, NamedStates
    <2>4. last \in Conversation /\ Later(wait, last)
      BY <1>0, <2>2, <2>3, ResolvePaymentConversationType, ResolvePaymentLater
    <2>5. Later(conv[c], last)
      BY <2>3, <2>4, LaterTransitive
    <2>6. conv' = [conv EXCEPT ![c] = last]
      BY <1>2 DEF NotifyConflict
    <2> QED
      BY <1>0, <2>4, <2>5, <2>6 DEF OneRowLater
  <1> QED
    BY <1>1, <1>2 DEF SettleEvidence, NotifyUnlinked, NotifyLost

\* Each panel route does the same.
LEMMA PanelStepLater == HTypeOK /\ PanelStep => UNCHANGED conv \/ OneRowLater
  <1> SUFFICES ASSUME HTypeOK, PanelStep PROVE UNCHANGED conv \/ OneRowLater
    OBVIOUS
  <1>1. ASSUME NEW c \in Conversations, NEW a \in Agents, NEW i \in CaseIds, TakeHandoff(a, c, i)
        PROVE  OneRowLater
    <2> DEFINE off  == SetBot(conv[c], FALSE)
               mine == SetAgent(off, a)
               last == SetState(mine, "HUMAN_ACTIVE")
    <2>1. off \in Conversation /\ Later(conv[c], off)
      BY SetBotType, SetBotLater DEF HTypeOK
    <2>2. mine \in Conversation /\ Later(off, mine)
      BY <2>1, SetAgentType, SetAgentLater
    <2>3. last \in Conversation /\ Later(mine, last)
      BY <2>2, SetStateType, SetStateLater, NamedStates
    <2>4. Later(conv[c], last)
      BY <2>1, <2>2, <2>3, LaterTransitive
    <2>5. conv' = [conv EXCEPT ![c] = last]
      BY <1>1 DEF TakeHandoff
    <2> QED
      BY <2>3, <2>4, <2>5 DEF OneRowLater
  <1>2. ASSUME NEW c \in Conversations, NEW a \in Agents, NEW i \in CaseIds,
               TakeConversation(a, c, i)
        PROVE  OneRowLater
    <2> DEFINE reopened == IF conv[c].state = "RESOLVED"
                           THEN SetState(conv[c], "BOT_ACTIVE") ELSE conv[c]
               off      == SetBot(reopened, FALSE)
               mine     == SetAgent(off, a)
               waiting  == SetState(mine, "WAITING_FOR_HUMAN")
               last     == SetState(waiting, "HUMAN_ACTIVE")
    <2>0. conv[c] \in Conversation
      BY DEF HTypeOK
    <2>1. reopened \in Conversation /\ Later(conv[c], reopened)
      <3>1. Later(conv[c], conv[c])
        BY <2>0 DEF Later, Conversation
      <3> QED
        BY <2>0, <3>1, SetStateType, SetStateLater, NamedStates
    <2>2. off \in Conversation /\ Later(reopened, off)
      BY <2>1, SetBotType, SetBotLater
    <2>3. mine \in Conversation /\ Later(off, mine)
      BY <2>2, SetAgentType, SetAgentLater
    <2>4. waiting \in Conversation /\ Later(mine, waiting)
      BY <2>3, SetStateType, SetStateLater, NamedStates
    <2>5. last \in Conversation /\ Later(waiting, last)
      BY <2>4, SetStateType, SetStateLater, NamedStates
    <2>6. Later(conv[c], mine)
      <3> HIDE DEF reopened, off, mine
      <3> QED
        BY <2>1, <2>2, <2>3, LaterTransitive
    <2>7. Later(conv[c], last)
      BY <2>4, <2>5, <2>6, LaterTransitive
    <2>8. conv' = [conv EXCEPT ![c] = last]
      BY <1>2 DEF TakeConversation
    <2> QED
      BY <2>5, <2>7, <2>8 DEF OneRowLater
  <1>3. ASSUME NEW c \in Conversations, NEW a \in Agents, NEW i \in CaseIds,
               ReassignConversation(a, c, i)
        PROVE  OneRowLater
    <2>1. SetAgent(conv[c], a) \in Conversation /\ Later(conv[c], SetAgent(conv[c], a))
      BY SetAgentType, SetAgentLater DEF HTypeOK
    <2> QED
      BY <1>3, <2>1 DEF ReassignConversation, OneRowLater, HTypeOK
  <1>4. ASSUME NEW c \in Conversations, NEW a \in Agents, NEW i \in CaseIds,
               ReturnHandoff(a, c, i)
        PROVE  OneRowLater
    <2> DEFINE on    == SetBot(conv[c], TRUE)
               freed == SetAgent(on, NoAgent)
               back  == SetState(freed, "RETURNED_TO_BOT")
               last  == SetState(back, "BOT_ACTIVE")
    <2>1. on \in Conversation /\ Later(conv[c], on)
      BY SetBotType, SetBotLater DEF HTypeOK
    <2>2. freed \in Conversation /\ Later(on, freed)
      BY <2>1, SetAgentType, SetAgentLater
    <2>3. back \in Conversation /\ Later(freed, back)
      BY <2>2, SetStateType, SetStateLater, NamedStates
    <2>4. last \in Conversation /\ Later(back, last)
      BY <2>3, SetStateType, SetStateLater, NamedStates
    <2>5. Later(conv[c], last)
      BY <2>1, <2>2, <2>3, <2>4, LaterTransitive
    <2>6. conv' = [conv EXCEPT ![c] = last]
      BY <1>4 DEF ReturnHandoff
    <2> QED
      BY <2>4, <2>5, <2>6 DEF OneRowLater
  <1>5. ASSUME NEW c \in Conversations, ResetConversation(c) PROVE OneRowLater
    <2> DEFINE closed == [state |-> "CLOSED", bot |-> TRUE, epoch |-> conv[c].epoch + 1,
                          agent |-> NoAgent]
    <2>1. conv[c].epoch \in Nat /\ conv[c].epoch + 1 \in Nat
      BY DEF HTypeOK, Conversation
    <2>2. closed \in Conversation /\ Later(conv[c], closed)
      BY <2>1, NamedStates DEF Conversation, Later
    <2>3. conv' = [conv EXCEPT ![c] = closed]
      BY <1>5 DEF ResetConversation
    <2> QED
      BY <2>2, <2>3 DEF OneRowLater
  <1> QED
    BY <1>1, <1>2, <1>3, <1>4, <1>5 DEF PanelStep, DeactivateAgent, ActivateAgent

\* A row that is rewritten by a later row is a step of the gate, or none.
LEMMA GateStep ==
    HTypeOK /\ [HNext]_hvars => [Gate!Next]_(Gate!gvars)
  <1> SUFFICES ASSUME HTypeOK, [HNext]_hvars, ~UNCHANGED Gate!gvars
               PROVE  Gate!Next
    OBVIOUS
  <1>1. UNCHANGED conv => UNCHANGED Gate!gvars
    BY DEF Gate!gvars, AutomationOn
  <1>2. OneRowLater
    BY <1>1, BotStepLater, ReviewStepLater, PanelStepLater DEF HNext, hvars
  <1>3. PICK c \in Conversations, cw \in Conversation :
          Later(conv[c], cw) /\ conv' = [conv EXCEPT ![c] = cw]
    BY <1>2 DEF OneRowLater
  <1>4. conv \in [Conversations -> Conversation]
    BY DEF HTypeOK
  <1>5. conv'[c] = cw /\ \A d \in Conversations \ {c} : conv'[d] = conv[d]
    BY <1>3, <1>4
  <1>6. cw.epoch > conv[c].epoch
    <2> SUFFICES ASSUME cw.epoch = conv[c].epoch PROVE FALSE
      BY <1>3 DEF Later
    <2>1. AutomationOn(cw) = AutomationOn(conv[c])
      <3>1. AutomationOn(cw) <=> AutomationOn(conv[c])
        BY <1>3 DEF Later
      <3> QED
        BY <3>1 DEF AutomationOn
    <2>2. \A d \in Conversations :
            AutomationOn(conv'[d]) = AutomationOn(conv[d]) /\ conv'[d].epoch = conv[d].epoch
      BY <1>5, <2>1
    <2>3. UNCHANGED Gate!gvars
      BY <2>2 DEF Gate!gvars, AutomationOn
    <2> QED
      BY <2>3
  <1>7. Gate!Rotate(c)
    <2>1. [d \in Conversations |-> AutomationOn(conv'[d])] =
            [[d \in Conversations |-> AutomationOn(conv[d])] EXCEPT ![c] = AutomationOn(cw)]
      BY <1>5
    <2>2. AutomationOn(cw) \in BOOLEAN
      BY DEF AutomationOn, Conversation
    <2> QED
      BY <1>5, <1>6, <2>1, <2>2 DEF Gate!Rotate, AutomationOn
  <1> QED
    BY <1>7 DEF Gate!Next

\* Initially the bot speaks in every conversation, in epoch 0.
LEMMA GateInit == HInit => Gate!Init
  <1> SUFFICES ASSUME HInit PROVE Gate!Init
    OBVIOUS
  <1>1. \A c \in Conversations :
          conv[c] = [state |-> "BOT_ACTIVE", bot |-> TRUE, epoch |-> 0, agent |-> NoAgent]
    BY DEF HInit
  <1>2. \A c \in Conversations : AutomationOn(conv[c]) = TRUE /\ conv[c].epoch = 0
    <2> TAKE c \in Conversations
    <2>1. conv[c].state = "BOT_ACTIVE" /\ conv[c].bot = TRUE /\ conv[c].epoch = 0
      BY <1>1
    <2>2. "BOT_ACTIVE" \notin PausedStates
      BY DEF PausedStates
    <2>3. AutomationOn(conv[c])
      BY <2>1, <2>2, Zenon DEF AutomationOn
    <2>4. AutomationOn(conv[c]) \in BOOLEAN
      BY Zenon DEF AutomationOn
    <2> QED
      BY <2>1, <2>3, <2>4, Zenon
  <1> QED
    BY <1>2 DEF Gate!Init

\* The conversation rows implement the automation gate: in any behaviour of the panel,
\* the payment review and the bot, the permission to speak changes only together with
\* the epoch, and no epoch is used twice.
THEOREM HImplementsGate == HSpec => ImplementsGate
  <1>1. HSpec => []HTypeOK
    BY HTypeInvariant
  <1> QED
    BY <1>1, GateInit, GateStep, PTL DEF HSpec, ImplementsGate, Gate!Spec

(***************************************************************************)
(* Closed cases stay closed                                                *)
(***************************************************************************)

\* What ClosedCasesStayClosed says of one step, over the case tables before and after.
KeepsClosed(hs, hs2) ==
    \A i \in CaseIds :
        hs[i].status \in {"RETURNED", "RESOLVED"} =>
            /\ ~Open(hs2[i])
            /\ hs[i].status = "RESOLVED" => hs2[i].status = "RESOLVED"

\* Writing an entry that was not closed closes nothing else.
LEMMA OneEntryKeepsClosed ==
    ASSUME NEW hs, NEW hs2, NEW i \in CaseIds, \A j \in CaseIds \ {i} : hs2[j] = hs[j],
           hs[i].status \notin {"RETURNED", "RESOLVED"}
    PROVE  KeepsClosed(hs, hs2)
  BY DEF KeepsClosed, Open

\* resolve_payment_handoffs only closes.
LEMMA ResolvePaymentKeepsClosed ==
    ASSUME NEW hs \in [CaseIds -> Handoff], NEW c \in Conversations
    PROVE  KeepsClosed(hs, ResolvePaymentCases(hs, c))
  <1> SUFFICES ASSUME NEW i \in CaseIds, hs[i].status \in {"RETURNED", "RESOLVED"}
               PROVE  ResolvePaymentCases(hs, c)[i] = hs[i]
    BY DEF KeepsClosed, Open
  <1>1. ~Open(hs[i])
    BY DEF Open
  <1> QED
    BY <1>1 DEF ResolvePaymentCases

\* No step reopens a case.
LEMMA ClosedStep == HTypeOK /\ [HNext]_hvars => KeepsClosed(handoffs, handoffs')
  <1> SUFFICES ASSUME HTypeOK, [HNext]_hvars PROVE KeepsClosed(handoffs, handoffs')
    OBVIOUS
  <1>0. handoffs \in [CaseIds -> Handoff]
    BY DEF HTypeOK
  <1>1. ASSUME handoffs' = handoffs PROVE KeepsClosed(handoffs, handoffs')
    BY <1>1 DEF KeepsClosed, Open
  <1>2. ASSUME NEW i \in CaseIds, NEW h, FreshCase(i), handoffs' = [handoffs EXCEPT ![i] = h]
        PROVE  KeepsClosed(handoffs, handoffs')
    <2>1. /\ \A j \in CaseIds \ {i} : handoffs'[j] = handoffs[j]
          /\ handoffs[i].status \notin {"RETURNED", "RESOLVED"}
      BY <1>0, <1>2 DEF FreshCase
    <2> QED
      BY <2>1, OneEntryKeepsClosed
  <1>3. CASE BotStep
    BY <1>1, <1>2, <1>3 DEF BotStep, BotMove, BotHandoff, CreateHandoff, CatalogHandoff,
                            MoreEvidence, FirstEvidence
  <1>4. CASE ReviewStep
    <2>1. ASSUME NEW e \in Evidence, NotifyDecision(e) PROVE KeepsClosed(handoffs, handoffs')
      BY <1>0, <2>1, ResolvePaymentKeepsClosed DEF NotifyDecision, HTypeOK
    <2>2. ASSUME NEW e \in Evidence, NEW i \in CaseIds, NotifyConflict(e, i)
          PROVE  KeepsClosed(handoffs, handoffs')
      <3> DEFINE c    == evidence[e].conv
                 case == NewCase(c, "PENDING", "RESERVATION_CONFIRMATION", NoAgent)
                 hs   == [handoffs EXCEPT ![i] = case]
      <3>1. c \in Conversations
        BY DEF HTypeOK
      <3>2. case \in Handoff
        BY <3>1, NewCaseType DEF CaseStatus, CaseReason
      <3>3. /\ handoffs' = ResolvePaymentCases(hs, c)
            /\ handoffs[i].status = "NONE"
        BY <2>2 DEF NotifyConflict, FreshCase
      <3> HIDE DEF c, case
      <3>4. hs \in [CaseIds -> Handoff] /\ \A j \in CaseIds \ {i} : hs[j] = handoffs[j]
        BY <1>0, <3>2
      <3> HIDE DEF hs
      <3>5. KeepsClosed(hs, handoffs')
        BY <3>1, <3>3, <3>4, ResolvePaymentKeepsClosed
      <3> QED
        BY <3>3, <3>4, <3>5 DEF KeepsClosed
    <2> QED
      BY <1>1, <1>4, <2>1, <2>2 DEF ReviewStep, SettleEvidence, NotifyUnlinked, NotifyLost
  <1>5. CASE PanelStep
    <2>1. ASSUME NEW c \in Conversations, NEW a \in Agents, NEW i \in CaseIds,
                 TakeHandoff(a, c, i)
          PROVE  KeepsClosed(handoffs, handoffs')
      <3>1. /\ \A j \in CaseIds \ {i} : handoffs'[j] = handoffs[j]
            /\ handoffs[i].status \notin {"RETURNED", "RESOLVED"}
        BY <1>0, <2>1 DEF TakeHandoff, RequirePending
      <3> QED
        BY <3>1, OneEntryKeepsClosed
    <2>2. ASSUME NEW c \in Conversations, NEW a \in Agents, NEW i \in CaseIds,
                 ReassignConversation(a, c, i) \/ ReturnHandoff(a, c, i)
          PROVE  KeepsClosed(handoffs, handoffs')
      <3>1. /\ \A j \in CaseIds \ {i} : handoffs'[j] = handoffs[j]
            /\ handoffs[i].status \notin {"RETURNED", "RESOLVED"}
        BY <1>0, <2>2 DEF ReassignConversation, ReturnHandoff, RequireOwned
      <3> QED
        BY <3>1, OneEntryKeepsClosed
    <2>3. ASSUME NEW c \in Conversations, ResetConversation(c)
          PROVE  KeepsClosed(handoffs, handoffs')
      <3>1. \A i \in CaseIds : handoffs'[i] = handoffs[i] \/ handoffs'[i].status = "RESOLVED"
        BY <1>0, <2>3 DEF ResetConversation, Handoff
      <3> QED
        BY <3>1 DEF KeepsClosed, Open
    <2> QED
      BY <1>1, <1>2, <1>5, <2>1, <2>2, <2>3
         DEF PanelStep, TakeConversation, DeactivateAgent, ActivateAgent
  <1> QED
    BY <1>1, <1>3, <1>4, <1>5 DEF HNext, hvars

\* No late take, reassignment, notification or return revives a closed case.
THEOREM ClosedStayClosed == HSpec => ClosedCasesStayClosed
  <1>1. KeepsClosed(handoffs, handoffs') =>
          \A i \in CaseIds :
             handoffs[i].status \in {"RETURNED", "RESOLVED"} =>
                /\ ~Open(handoffs'[i])
                /\ handoffs[i].status = "RESOLVED" => handoffs'[i].status = "RESOLVED"
    BY DEF KeepsClosed
  <1> QED
    BY <1>1, HTypeInvariant, ClosedStep, PTL DEF HSpec, ClosedCasesStayClosed

(***************************************************************************)
(* Who owns a conversation.                                                *)
(*                                                                         *)
(* None of the ownership invariants is inductive alone.  The strengthening *)
(* is stated one conversation at a time, over a conversation row cv and a  *)
(* case table hs, so that a step is judged only for the conversation it    *)
(* writes.                                                                 *)
(***************************************************************************)

\* Case i of table hs is an open case of conversation c.
IsOpen(hs, c, i) == hs[i].conv = c /\ Open(hs[i])

NoneOpen(hs, c) == \A i \in CaseIds : ~IsOpen(hs, c, i)

\* What require_owned_case demands.
OwnedBy(cv, hs, c, i) ==
    /\ IsOpen(hs, c, i)
    /\ \A j \in CaseIds : IsOpen(hs, c, j) => j = i
    /\ hs[i].status = "TAKEN"
    /\ cv.agent # NoAgent
    /\ cv.agent = hs[i].agent
    /\ cv.bot = FALSE

\* A waiting conversation has a pending case that the next payment decision will not
\* resolve while a taken case is left behind: the second half is what makes
\* WaitingHasPendingCase inductive.
WaitKept(hs, c) ==
    \E i \in CaseIds :
        /\ IsOpen(hs, c, i)
        /\ hs[i].status = "PENDING"
        /\ hs[i].reason = "PAYMENT_REVIEW" =>
             \A j \in CaseIds : IsOpen(hs, c, j) => hs[j].status = "PENDING"

CaseInv(cv, hs, c) ==
    /\ cv.state = "HUMAN_ACTIVE" => \E i \in CaseIds : OwnedBy(cv, hs, c, i)
    /\ cv.state \notin PausedStates =>
         NoneOpen(hs, c) /\ cv.agent = NoAgent /\ cv.bot = TRUE
    /\ cv.state = "CLOSED" => NoneOpen(hs, c)
    /\ cv.state = "WAITING_FOR_HUMAN" => WaitKept(hs, c)
    /\ \A i, j \in CaseIds :
         /\ IsOpen(hs, c, i)
         /\ IsOpen(hs, c, j)
         /\ hs[i].status = "TAKEN"
         /\ hs[j].status = "TAKEN"
         => i = j

HInv == HTypeOK /\ \A c \in Conversations : CaseInv(conv[c], handoffs, c)

\* The tables hold the same open cases of conversation d.
Agree(hs, hs2, d) ==
    \A i \in CaseIds : IsOpen(hs, d, i) \/ IsOpen(hs2, d, i) => hs2[i] = hs[i]

\* What CaseInv says of a conversation depends on its own open cases alone.
LEMMA CaseInvFrame ==
    ASSUME NEW cv, NEW hs, NEW hs2, NEW d, Agree(hs, hs2, d), CaseInv(cv, hs, d)
    PROVE  CaseInv(cv, hs2, d)
  <1>1. \A i \in CaseIds : IsOpen(hs2, d, i) <=> IsOpen(hs, d, i)
    BY DEF Agree, IsOpen
  <1>2. \A i \in CaseIds : IsOpen(hs, d, i) => hs2[i] = hs[i]
    BY DEF Agree
  <1>3. NoneOpen(hs, d) => NoneOpen(hs2, d)
    BY <1>1 DEF NoneOpen
  <1>4. \A i \in CaseIds : OwnedBy(cv, hs, d, i) => OwnedBy(cv, hs2, d, i)
    BY <1>1, <1>2 DEF OwnedBy
  <1>5. WaitKept(hs, d) => WaitKept(hs2, d)
    BY <1>1, <1>2 DEF WaitKept
  <1>6. \A i, j \in CaseIds :
          /\ IsOpen(hs2, d, i)
          /\ IsOpen(hs2, d, j)
          /\ hs2[i].status = "TAKEN"
          /\ hs2[j].status = "TAKEN"
          => i = j
    BY <1>1, <1>2 DEF CaseInv
  <1> QED
    BY <1>3, <1>4, <1>5, <1>6 DEF CaseInv

\* So a transaction that writes conversation c and its cases is judged for c alone.
LEMMA OneConversation ==
    ASSUME HInv, HTypeOK', NEW c \in Conversations, NEW cw,
           conv' = [conv EXCEPT ![c] = cw],
           \A d \in Conversations \ {c} : Agree(handoffs, handoffs', d),
           CaseInv(cw, handoffs', c)
    PROVE  HInv'
  <1>1. conv'[c] = cw /\ \A d \in Conversations \ {c} : conv'[d] = conv[d]
    BY DEF HInv, HTypeOK
  <1>2. \A d \in Conversations \ {c} : CaseInv(conv'[d], handoffs', d)
    BY <1>1, CaseInvFrame DEF HInv
  <1> QED
    BY <1>1, <1>2 DEF HInv

\* A transaction that writes neither table.
LEMMA NoConversation ==
    ASSUME HInv, HTypeOK', UNCHANGED <<conv, handoffs>>
    PROVE  HInv'
  BY DEF HInv

\* Initially nothing is paused and no case exists.
LEMMA HInvInit == HInit => HInv
  <1> SUFFICES ASSUME HInit, NEW d \in Conversations PROVE CaseInv(conv[d], handoffs, d)
    BY HTypeInit DEF HInv
  <1>1. conv[d].state = "BOT_ACTIVE" /\ conv[d].bot = TRUE /\ conv[d].agent = NoAgent
    BY DEF HInit
  <1>2. \A i \in CaseIds : handoffs[i].status = "NONE"
    BY DEF HInit, NewCase
  <1>3. NoneOpen(handoffs, d)
    BY <1>2 DEF NoneOpen, IsOpen, Open
  <1> QED
    BY <1>1, <1>2, <1>3 DEF CaseInv, NoneOpen

(***************************************************************************)
(* Bot turns                                                               *)
(***************************************************************************)

\* A pending case opened in a conversation that had none keeps the wait.
LEMMA FirstCase ==
    ASSUME HTypeOK, NEW c \in Conversations, NEW i \in CaseIds, NEW reason \in CaseReason,
           NEW cw \in Conversation, cw.state = "WAITING_FOR_HUMAN",
           NoneOpen(handoffs, c), handoffs[i].status = "NONE",
           handoffs' = [handoffs EXCEPT ![i] = NewCase(c, "PENDING", reason, NoAgent)]
    PROVE  /\ CaseInv(cw, handoffs', c)
           /\ \A d \in Conversations \ {c} : Agree(handoffs, handoffs', d)
  <1>1. /\ handoffs'[i].status = "PENDING"
        /\ handoffs'[i].conv = c
        /\ \A j \in CaseIds \ {i} : handoffs'[j] = handoffs[j]
    BY DEF HTypeOK, NewCase
  <1>2. IsOpen(handoffs', c, i) /\ \A j \in CaseIds : IsOpen(handoffs', c, j) => j = i
    BY <1>1 DEF IsOpen, Open, NoneOpen
  <1>3. WaitKept(handoffs', c)
    BY <1>1, <1>2 DEF WaitKept
  <1>4. \A d \in Conversations \ {c} : Agree(handoffs, handoffs', d)
    BY <1>1 DEF Agree, IsOpen, Open
  <1>5. cw.state \in PausedStates /\ cw.state # "HUMAN_ACTIVE" /\ cw.state # "CLOSED"
    BY DEF PausedStates
  <1> QED
    BY <1>2, <1>3, <1>4, <1>5 DEF CaseInv

\* create_handoff from a turn.
LEMMA CreateHandoffInv ==
    ASSUME HInv, HTypeOK', NEW c \in Conversations, NEW i \in CaseIds, NEW reason \in CaseReason,
           CreateHandoff(c, i, reason)
    PROVE  HInv'
  <1>1. HTypeOK /\ NoneOpen(handoffs, c)
    BY DEF HInv, CaseInv, CreateHandoff, AutomationOn
  <1>2. conv[c] \in Conversation
    BY <1>1 DEF HTypeOK
  <1> DEFINE cw == SetState(conv[c], "WAITING_FOR_HUMAN")
  <1>3. cw \in Conversation /\ cw.state = "WAITING_FOR_HUMAN"
    BY <1>2, SetStateType, SetStateFields, NamedStates
  <1>4. /\ CaseInv(cw, handoffs', c)
        /\ \A d \in Conversations \ {c} : Agree(handoffs, handoffs', d)
    <2>1. /\ handoffs[i].status = "NONE"
          /\ handoffs' = [handoffs EXCEPT ![i] = NewCase(c, "PENDING", reason, NoAgent)]
      BY DEF CreateHandoff, FreshCase
    <2> QED
      BY <1>1, <1>3, <2>1, FirstCase
  <1>5. conv' = [conv EXCEPT ![c] = cw]
    BY DEF CreateHandoff
  <1> QED
    BY <1>4, <1>5, OneConversation

\* The bot never leaves the invariant.
LEMMA BotStepInv == HInv /\ BotStep => HInv'
  <1> SUFFICES ASSUME HInv, BotStep, HTypeOK, HTypeOK' PROVE HInv'
    BY BotStepType DEF HInv
  <1>1. ASSUME NEW c \in Conversations, NEW s \in BotStates, BotMove(c, s) PROVE HInv'
    <2> DEFINE cw == SetState(conv[c], s)
    <2>1. conv[c] \in Conversation /\ s \in ConversationState /\ s \notin PausedStates
      BY NamedStates, HumanCaseAssumption DEF HTypeOK, PausedStates, UnpausedStates
    <2>2. cw.state = s /\ cw.bot = conv[c].bot /\ cw.agent = conv[c].agent
      BY <2>1, SetStateFields
    <2>3. conv[c].state \notin PausedStates
      BY <1>1 DEF BotMove, AutomationOn
    <2>4. NoneOpen(handoffs, c) /\ conv[c].agent = NoAgent /\ conv[c].bot = TRUE
      BY <2>3 DEF HInv, CaseInv
    <2>5. CaseInv(cw, handoffs, c)
      <3>1. cw.state \notin {"HUMAN_ACTIVE", "CLOSED", "WAITING_FOR_HUMAN"}
        BY <2>1, <2>2 DEF PausedStates
      <3> QED
        BY <2>2, <2>4, <3>1 DEF CaseInv, NoneOpen
    <2>6. conv' = [conv EXCEPT ![c] = cw] /\ handoffs' = handoffs
      BY <1>1 DEF BotMove
    <2>7. \A d \in Conversations \ {c} : Agree(handoffs, handoffs', d)
      BY <2>6 DEF Agree
    <2> QED
      BY <2>5, <2>6, <2>7, OneConversation
  <1>2. ASSUME NEW c \in Conversations, NEW i \in CaseIds, BotHandoff(c, i) PROVE HInv'
    BY <1>2, CreateHandoffInv DEF BotHandoff, CaseReason
  <1>3. ASSUME NEW c \in Conversations, NEW i \in CaseIds, CatalogHandoff(c, i) PROVE HInv'
    <2> DEFINE cw == SetState(SetBot(conv[c], FALSE), "WAITING_FOR_HUMAN")
    <2>1. SetBot(conv[c], FALSE) \in Conversation
      BY SetBotType DEF HTypeOK
    <2>2. cw \in Conversation /\ cw.state = "WAITING_FOR_HUMAN"
      BY <2>1, SetStateType, SetStateFields, NamedStates
    <2>3. NoneOpen(handoffs, c)
      BY <1>3 DEF HInv, CaseInv, CatalogHandoff, AutomationOn
    <2>4. /\ handoffs[i].status = "NONE"
          /\ handoffs' = [handoffs EXCEPT ![i] = NewCase(c, "PENDING", "OTHER", NoAgent)]
          /\ conv' = [conv EXCEPT ![c] = cw]
      BY <1>3 DEF CatalogHandoff, FreshCase
    <2>5. /\ CaseInv(cw, handoffs', c)
          /\ \A d \in Conversations \ {c} : Agree(handoffs, handoffs', d)
      BY <2>2, <2>3, <2>4, FirstCase DEF CaseReason
    <2> QED
      BY <2>4, <2>5, OneConversation
  <1>4. ASSUME NEW c \in Conversations, NEW e \in Evidence, MoreEvidence(c, e) PROVE HInv'
    BY <1>4, NoConversation DEF MoreEvidence
  <1>5. ASSUME NEW c \in Conversations, NEW e \in Evidence, NEW i \in CaseIds,
               FirstEvidence(c, e, i)
        PROVE  HInv'
    BY <1>5, CreateHandoffInv DEF FirstEvidence, CaseReason
  <1> QED
    BY <1>1, <1>2, <1>3, <1>4, <1>5 DEF BotStep

(***************************************************************************)
(* Payment decisions                                                       *)
(***************************************************************************)

\* resolve_payment_handoffs touches no case of another conversation.
LEMMA ResolvePaymentAgree ==
    ASSUME NEW hs \in [CaseIds -> Handoff], NEW c \in Conversations,
           NEW d \in Conversations \ {c}
    PROVE  Agree(hs, ResolvePaymentCases(hs, c), d)
  BY DEF Agree, IsOpen, ResolvePaymentCases, Handoff

\* The case table after resolve_payment_handoffs, once no review is pending: the open
\* cases are the earlier ones that are not about a payment, and they are unchanged.
LEMMA ResolvedCases ==
    ASSUME NEW hs \in [CaseIds -> Handoff], NEW c \in Conversations, ~ReviewPending(c)
    PROVE  \A i \in CaseIds :
             /\ IsOpen(ResolvePaymentCases(hs, c), c, i) <=>
                  IsOpen(hs, c, i) /\ hs[i].reason # "PAYMENT_REVIEW"
             /\ IsOpen(ResolvePaymentCases(hs, c), c, i) =>
                  ResolvePaymentCases(hs, c)[i] = hs[i]
  <1> DEFINE rs == ResolvePaymentCases(hs, c)
  <1> SUFFICES ASSUME NEW i \in CaseIds
               PROVE  /\ IsOpen(rs, c, i) <=> IsOpen(hs, c, i) /\ hs[i].reason # "PAYMENT_REVIEW"
                      /\ IsOpen(rs, c, i) => rs[i] = hs[i]
    OBVIOUS
  <1>1. CASE hs[i].conv = c /\ Open(hs[i]) /\ hs[i].reason = "PAYMENT_REVIEW"
    <2>1. rs[i] = [hs[i] EXCEPT !.status = "RESOLVED", !.agent = NoAgent]
      BY <1>1 DEF ResolvePaymentCases
    <2>2. rs[i].status = "RESOLVED"
      BY <2>1 DEF Handoff
    <2> QED
      BY <1>1, <2>2 DEF IsOpen, Open
  <1>2. CASE ~(hs[i].conv = c /\ Open(hs[i]) /\ hs[i].reason = "PAYMENT_REVIEW")
    <2>1. rs[i] = hs[i]
      BY <1>2 DEF ResolvePaymentCases
    <2> QED
      BY <1>2, <2>1 DEF IsOpen
  <1> QED
    BY <1>1, <1>2

\* The conversation that resolve_payment_handoffs gives back is free.
LEMMA ResolvedConversation ==
    ASSUME NEW cv \in Conversation, NEW hs, NEW c,
           ResolvePaymentConversation(hs, cv, c) # cv
    PROVE  /\ ~ReviewPending(c)
           /\ \A i \in CaseIds : IsOpen(hs, c, i) => hs[i].reason = "PAYMENT_REVIEW"
           /\ ResolvePaymentConversation(hs, cv, c).state = "BOT_ACTIVE"
           /\ ResolvePaymentConversation(hs, cv, c).agent = NoAgent
           /\ ResolvePaymentConversation(hs, cv, c).bot = TRUE
  <1> DEFINE on    == SetBot(cv, TRUE)
             freed == SetAgent(on, NoAgent)
             back  == IF cv.state = "HUMAN_ACTIVE" THEN SetState(freed, "RETURNED_TO_BOT")
                      ELSE freed
             last  == SetState(back, "BOT_ACTIVE")
  <1>1. on \in Conversation /\ on.bot = TRUE
    BY SetBotType, SetBotFields
  <1>2. freed \in Conversation /\ freed.bot = TRUE /\ freed.agent = NoAgent
    BY <1>1, SetAgentType, SetAgentFields
  <1>3. back \in Conversation /\ back.bot = TRUE /\ back.agent = NoAgent
    BY <1>2, SetStateType, SetStateFields, NamedStates
  <1>4. last.state = "BOT_ACTIVE" /\ last.bot = TRUE /\ last.agent = NoAgent
    BY <1>3, SetStateFields, NamedStates
  <1>5. /\ ~ReviewPending(c)
        /\ \A i \in {j \in CaseIds : hs[j].conv = c /\ Open(hs[j])} :
             hs[i].reason = "PAYMENT_REVIEW"
        /\ ResolvePaymentConversation(hs, cv, c) = last
    BY DEF ResolvePaymentConversation
  <1> QED
    BY <1>4, <1>5 DEF IsOpen

\* Resolving the payment cases of a conversation keeps its invariant, whatever the
\* state it is in: it is given back only when nothing else is open in it.
LEMMA ResolvePaymentInv ==
    ASSUME NEW hs \in [CaseIds -> Handoff], NEW c \in Conversations, NEW cv \in Conversation,
           CaseInv(cv, hs, c)
    PROVE  CaseInv(ResolvePaymentConversation(hs, cv, c), ResolvePaymentCases(hs, c), c)
  <1> DEFINE cw == ResolvePaymentConversation(hs, cv, c)
             rs == ResolvePaymentCases(hs, c)
  <1> SUFFICES CaseInv(cw, rs, c)
    OBVIOUS
  <1>1. CASE ReviewPending(c)
    <2>1. rs = hs
      BY <1>1 DEF ResolvePaymentCases
    <2>2. cw = cv
      BY <1>1, ResolvedConversation
    <2> QED
      BY <2>1, <2>2
  <1>2. CASE ~ReviewPending(c) /\ cw # cv
    <2>1. NoneOpen(rs, c)
      <3>1. \A i \in CaseIds : IsOpen(hs, c, i) => hs[i].reason = "PAYMENT_REVIEW"
        BY <1>2, ResolvedConversation
      <3>2. \A i \in CaseIds :
              IsOpen(rs, c, i) <=> IsOpen(hs, c, i) /\ hs[i].reason # "PAYMENT_REVIEW"
        BY <1>2, ResolvedCases
      <3> QED
        BY <3>1, <3>2 DEF NoneOpen
    <2>2. cw.state = "BOT_ACTIVE" /\ cw.agent = NoAgent /\ cw.bot = TRUE
      BY <1>2, ResolvedConversation
    <2> HIDE DEF cw, rs
    <2> QED
      BY <2>1, <2>2 DEF CaseInv, NoneOpen, PausedStates
  <1>3. CASE ~ReviewPending(c) /\ cw = cv
    <2>0. \A i \in CaseIds :
             /\ IsOpen(rs, c, i) <=> IsOpen(hs, c, i) /\ hs[i].reason # "PAYMENT_REVIEW"
             /\ IsOpen(rs, c, i) => rs[i] = hs[i]
      BY <1>3, ResolvedCases
    <2>1. ASSUME cv.state \in {"WAITING_FOR_HUMAN", "HUMAN_ACTIVE"}
          PROVE  \/ NoneOpen(hs, c)
                 \/ \E i \in CaseIds : IsOpen(hs, c, i) /\ hs[i].reason # "PAYMENT_REVIEW"
      <3> DEFINE open  == {i \in CaseIds : hs[i].conv = c /\ Open(hs[i])}
                 freed == SetAgent(SetBot(cv, TRUE), NoAgent)
                 back  == IF cv.state = "HUMAN_ACTIVE" THEN SetState(freed, "RETURNED_TO_BOT")
                          ELSE freed
      <3> SUFFICES ASSUME open # {}, \A i \in open : hs[i].reason = "PAYMENT_REVIEW"
                   PROVE  FALSE
        BY DEF NoneOpen, IsOpen
      <3>1. cw = SetState(back, "BOT_ACTIVE")
        BY <1>3, <2>1 DEF ResolvePaymentConversation
      <3>2. back \in Conversation
        BY SetBotType, SetAgentType, SetStateType, NamedStates
      <3>3. cw.state = "BOT_ACTIVE"
        <4> HIDE DEF cw, back
        <4> QED
          BY <3>1, <3>2, SetStateFields, NamedStates
      <3> QED
        BY <1>3, <2>1, <3>3
    <2>2. cv.state = "HUMAN_ACTIVE" => \E i \in CaseIds : OwnedBy(cv, rs, c, i)
      <3> SUFFICES ASSUME cv.state = "HUMAN_ACTIVE" PROVE \E i \in CaseIds : OwnedBy(cv, rs, c, i)
        OBVIOUS
      <3>1. PICK i \in CaseIds : OwnedBy(cv, hs, c, i)
        BY DEF CaseInv
      <3>2. IsOpen(rs, c, i) /\ rs[i] = hs[i]
        BY <2>0, <2>1, <3>1 DEF OwnedBy, NoneOpen
      <3> HIDE DEF rs
      <3> QED
        BY <2>0, <3>1, <3>2 DEF OwnedBy
    <2>3. NoneOpen(hs, c) => NoneOpen(rs, c)
      BY <2>0 DEF NoneOpen
    <2>4. cv.state = "WAITING_FOR_HUMAN" => WaitKept(rs, c)
      <3> SUFFICES ASSUME cv.state = "WAITING_FOR_HUMAN" PROVE WaitKept(rs, c)
        OBVIOUS
      <3>1. PICK i \in CaseIds :
              /\ IsOpen(hs, c, i)
              /\ hs[i].status = "PENDING"
              /\ hs[i].reason = "PAYMENT_REVIEW" =>
                   \A j \in CaseIds : IsOpen(hs, c, j) => hs[j].status = "PENDING"
        BY DEF CaseInv, WaitKept
      <3>2. PICK k \in CaseIds : IsOpen(hs, c, k) /\ hs[k].reason # "PAYMENT_REVIEW"
        BY <2>1, <3>1 DEF NoneOpen
      <3> HIDE DEF rs
      <3>3. CASE hs[i].reason # "PAYMENT_REVIEW"
        BY <2>0, <3>1, <3>3 DEF WaitKept
      <3>4. CASE hs[i].reason = "PAYMENT_REVIEW"
        BY <2>0, <3>1, <3>2, <3>4 DEF WaitKept
      <3> QED
        BY <3>3, <3>4
    <2>5. \A i, j \in CaseIds :
            /\ IsOpen(rs, c, i)
            /\ IsOpen(rs, c, j)
            /\ rs[i].status = "TAKEN"
            /\ rs[j].status = "TAKEN"
            => i = j
      <3> HIDE DEF rs
      <3> QED
        BY <2>0 DEF CaseInv
    <2> HIDE DEF cw, rs
    <2> QED
      BY <1>3, <2>2, <2>3, <2>4, <2>5 DEF CaseInv
  <1> QED
    BY <1>1, <1>2, <1>3

\* An urgent case opened by a slot conflict, before payment cases are resolved.
LEMMA ConflictCase ==
    ASSUME HInv, NEW c \in Conversations, NEW i \in CaseIds, FreshCase(i), CanWait(conv[c])
    PROVE  LET hs == [handoffs EXCEPT ![i] =
                        NewCase(c, "PENDING", "RESERVATION_CONFIRMATION", NoAgent)]
           IN  /\ hs \in [CaseIds -> Handoff]
               /\ CaseInv(SetState(conv[c], "WAITING_FOR_HUMAN"), hs, c)
               /\ \A d \in Conversations \ {c} : Agree(handoffs, hs, d)
  <1> DEFINE case == NewCase(c, "PENDING", "RESERVATION_CONFIRMATION", NoAgent)
             hs   == [handoffs EXCEPT ![i] = case]
             cw   == SetState(conv[c], "WAITING_FOR_HUMAN")
  <1>1. HTypeOK /\ conv[c] \in Conversation
    BY DEF HInv, HTypeOK
  <1>2. /\ case \in Handoff
        /\ case.status = "PENDING"
        /\ case.conv = c
        /\ case.reason = "RESERVATION_CONFIRMATION"
    BY NewCaseType DEF CaseStatus, CaseReason, NewCase
  <1> HIDE DEF case
  <1>3. /\ hs \in [CaseIds -> Handoff]
        /\ hs[i] = case
        /\ \A j \in CaseIds \ {i} : hs[j] = handoffs[j]
    BY <1>1, <1>2 DEF HTypeOK
  <1>4. handoffs[i].status = "NONE"
    BY DEF FreshCase
  <1>5. cw.state = "WAITING_FOR_HUMAN"
    BY <1>1, SetStateFields, NamedStates
  <1> HIDE DEF hs, cw
  <1>6. IsOpen(hs, c, i)
    BY <1>2, <1>3 DEF IsOpen, Open
  <1>7. WaitKept(hs, c)
    BY <1>2, <1>3, <1>6 DEF WaitKept
  <1>8. \A j \in CaseIds \ {i} : IsOpen(hs, c, j) => IsOpen(handoffs, c, j)
    BY <1>3 DEF IsOpen
  <1>9. \A j, k \in CaseIds :
          /\ IsOpen(hs, c, j)
          /\ IsOpen(hs, c, k)
          /\ hs[j].status = "TAKEN"
          /\ hs[k].status = "TAKEN"
          => j = k
    BY <1>2, <1>3, <1>8 DEF HInv, CaseInv
  <1>10. CaseInv(cw, hs, c)
    BY <1>5, <1>7, <1>9 DEF CaseInv, PausedStates
  <1>11. \A d \in Conversations \ {c} : Agree(handoffs, hs, d)
    BY <1>2, <1>3, <1>4 DEF Agree, IsOpen, Open
  <1> QED
    BY <1>3, <1>10, <1>11 DEF hs, cw, case

\* The two transactions of a payment decision never leave the invariant, with anything
\* in between.
LEMMA ReviewStepInv == HInv /\ ReviewStep => HInv'
  <1> SUFFICES ASSUME HInv, HTypeOK, HTypeOK', NEW e \in Evidence,
                      \/ \E kind \in {"DECIDED", "CONFLICT", "UNLINKED"} : SettleEvidence(e, kind)
                      \/ NotifyDecision(e)
                      \/ \E i \in CaseIds : NotifyConflict(e, i)
                      \/ NotifyUnlinked(e)
                      \/ NotifyLost(e)
               PROVE  HInv'
    BY ReviewStepType DEF HInv, ReviewStep
  <1> DEFINE c == evidence[e].conv
  <1>0. c \in Conversations /\ conv[c] \in Conversation /\ handoffs \in [CaseIds -> Handoff]
    BY DEF HTypeOK
  <1>1. CASE NotifyDecision(e)
    <2> DEFINE cw == ResolvePaymentConversation(handoffs, conv[c], c)
    <2>1. CaseInv(conv[c], handoffs, c)
      BY <1>0 DEF HInv
    <2>2. handoffs' = ResolvePaymentCases(handoffs, c) /\ conv' = [conv EXCEPT ![c] = cw]
      BY <1>1 DEF NotifyDecision
    <2>3. CaseInv(cw, handoffs', c)
      BY <1>0, <2>1, <2>2, ResolvePaymentInv
    <2>4. \A d \in Conversations \ {c} : Agree(handoffs, handoffs', d)
      BY <1>0, <2>2, ResolvePaymentAgree
    <2> HIDE DEF cw, c
    <2> QED
      BY <1>0, <2>2, <2>3, <2>4, OneConversation
  <1>2. ASSUME NEW i \in CaseIds, NotifyConflict(e, i) PROVE HInv'
    <2> DEFINE hs   == [handoffs EXCEPT ![i] =
                          NewCase(c, "PENDING", "RESERVATION_CONFIRMATION", NoAgent)]
               wait == SetState(conv[c], "WAITING_FOR_HUMAN")
               cw   == ResolvePaymentConversation(hs, wait, c)
    <2>1. /\ FreshCase(i)
          /\ CanWait(conv[c])
          /\ handoffs' = ResolvePaymentCases(hs, c)
          /\ conv' = [conv EXCEPT ![c] = cw]
      BY <1>2 DEF NotifyConflict
    <2> HIDE DEF c
    <2>2. /\ hs \in [CaseIds -> Handoff]
          /\ CaseInv(wait, hs, c)
          /\ \A d \in Conversations \ {c} : Agree(handoffs, hs, d)
      BY <1>0, <2>1, ConflictCase
    <2>3. wait \in Conversation
      BY <1>0, SetStateType, NamedStates
    <2> HIDE DEF hs, wait
    <2>4. CaseInv(cw, handoffs', c)
      BY <1>0, <2>1, <2>2, <2>3, ResolvePaymentInv
    <2>5. \A d \in Conversations \ {c} : Agree(hs, handoffs', d)
      BY <1>0, <2>1, <2>2, ResolvePaymentAgree
    <2>6. \A d \in Conversations \ {c} : Agree(handoffs, handoffs', d)
      BY <2>2, <2>5 DEF Agree, IsOpen
    <2> HIDE DEF cw
    <2> QED
      BY <1>0, <2>1, <2>4, <2>6, OneConversation
  <1>3. ASSUME UNCHANGED <<conv, handoffs>> PROVE HInv'
    BY <1>3, NoConversation
  <1> QED
    BY <1>1, <1>2, <1>3 DEF SettleEvidence, NotifyUnlinked, NotifyLost

(***************************************************************************)
(* Panel routes                                                            *)
(***************************************************************************)

\* The only open case of an owned conversation, in the terms of the invariant.
LEMMA OnlyCase ==
    ASSUME NEW c \in Conversations, NEW i \in CaseIds, OpenCases(c) = {i}
    PROVE  IsOpen(handoffs, c, i) /\ \A j \in CaseIds : IsOpen(handoffs, c, j) => j = i
  BY DEF OpenCases, IsOpen

\* An agent and the case say the same owner, and the bot is off.
LEMMA OwnedInv ==
    ASSUME NEW hs, NEW c \in Conversations, NEW i \in CaseIds, NEW cw,
           cw.state = "HUMAN_ACTIVE", OwnedBy(cw, hs, c, i)
    PROVE  CaseInv(cw, hs, c)
  BY DEF CaseInv, OwnedBy, PausedStates

\* A conversation without open cases that the bot may answer.
LEMMA FreeInv ==
    ASSUME NEW hs, NEW c \in Conversations, NEW cw, NoneOpen(hs, c),
           \/ cw.state = "CLOSED"
           \/ cw.state = "BOT_ACTIVE" /\ cw.agent = NoAgent /\ cw.bot = TRUE
    PROVE  CaseInv(cw, hs, c)
  BY DEF CaseInv, NoneOpen, PausedStates

\* Every panel route keeps the invariant.
LEMMA PanelStepInv == HInv /\ PanelStep => HInv'
  <1> SUFFICES ASSUME HInv, PanelStep, HTypeOK, HTypeOK' PROVE HInv'
    BY PanelStepType DEF HInv
  <1>0. NoAgent \notin Agents
    BY HumanCaseAssumption
  <1>1. ASSUME NEW c \in Conversations, NEW a \in Agents, NEW i \in CaseIds, TakeHandoff(a, c, i)
        PROVE  HInv'
    <2> DEFINE off  == SetBot(conv[c], FALSE)
               mine == SetAgent(off, a)
               cw   == SetState(mine, "HUMAN_ACTIVE")
    <2>1. off \in Conversation /\ off.bot = FALSE
      BY SetBotType, SetBotFields DEF HTypeOK
    <2>2. mine \in Conversation /\ mine.bot = FALSE /\ mine.agent = a
      BY <2>1, SetAgentType, SetAgentFields
    <2>3. cw.state = "HUMAN_ACTIVE" /\ cw.bot = FALSE /\ cw.agent = a
      BY <2>2, SetStateFields, NamedStates
    <2>4. IsOpen(handoffs, c, i) /\ \A j \in CaseIds : IsOpen(handoffs, c, j) => j = i
      BY <1>1, OnlyCase DEF TakeHandoff, RequirePending
    <2>5. /\ conv' = [conv EXCEPT ![c] = cw]
          /\ handoffs' = [handoffs EXCEPT ![i].status = "TAKEN", ![i].agent = a]
      BY <1>1 DEF TakeHandoff
    <2> HIDE DEF cw
    <2>6. /\ handoffs'[i].status = "TAKEN"
          /\ handoffs'[i].agent = a
          /\ handoffs'[i].conv = handoffs[i].conv
          /\ \A j \in CaseIds \ {i} : handoffs'[j] = handoffs[j]
      BY <2>5 DEF HTypeOK, Handoff
    <2>7. OwnedBy(cw, handoffs', c, i)
      BY <1>0, <2>3, <2>4, <2>6 DEF OwnedBy, IsOpen, Open
    <2>8. \A d \in Conversations \ {c} : Agree(handoffs, handoffs', d)
      BY <2>4, <2>6 DEF Agree, IsOpen
    <2>9. CaseInv(cw, handoffs', c)
      BY <2>3, <2>7, OwnedInv
    <2> QED
      BY <2>5, <2>8, <2>9, OneConversation
  <1>2. ASSUME NEW c \in Conversations, NEW a \in Agents, NEW i \in CaseIds,
               TakeConversation(a, c, i)
        PROVE  HInv'
    <2> DEFINE reopened == IF conv[c].state = "RESOLVED"
                           THEN SetState(conv[c], "BOT_ACTIVE") ELSE conv[c]
               off      == SetBot(reopened, FALSE)
               mine     == SetAgent(off, a)
               waiting  == SetState(mine, "WAITING_FOR_HUMAN")
               cw       == SetState(waiting, "HUMAN_ACTIVE")
               case     == NewCase(c, "TAKEN", "MANUAL_TAKEOVER", a)
    <2>1. /\ OpenCases(c) = {}
          /\ handoffs[i].status = "NONE"
          /\ handoffs' = [handoffs EXCEPT ![i] = case]
          /\ conv' = [conv EXCEPT ![c] = cw]
      BY <1>2 DEF TakeConversation, FreshCase
    <2>2. reopened \in Conversation
      BY SetStateType, NamedStates DEF HTypeOK
    <2> HIDE DEF reopened
    <2>3. off \in Conversation /\ off.bot = FALSE
      BY <2>2, SetBotType, SetBotFields
    <2> HIDE DEF off
    <2>4. mine \in Conversation /\ mine.bot = FALSE /\ mine.agent = a
      BY <2>3, SetAgentType, SetAgentFields
    <2> HIDE DEF mine
    <2>5. waiting \in Conversation /\ waiting.bot = FALSE /\ waiting.agent = a
      BY <2>4, SetStateType, SetStateFields, NamedStates
    <2> HIDE DEF waiting
    <2>6. cw.state = "HUMAN_ACTIVE" /\ cw.bot = FALSE /\ cw.agent = a
      BY <2>5, SetStateFields, NamedStates
    <2>7. case.status = "TAKEN" /\ case.conv = c /\ case.agent = a
      BY DEF NewCase
    <2> HIDE DEF cw, case
    <2>8. handoffs'[i] = case /\ \A j \in CaseIds \ {i} : handoffs'[j] = handoffs[j]
      BY <2>1 DEF HTypeOK
    <2>9. NoneOpen(handoffs, c)
      BY <2>1 DEF NoneOpen, OpenCases, IsOpen
    <2>10. OwnedBy(cw, handoffs', c, i)
      BY <1>0, <2>6, <2>7, <2>8, <2>9 DEF OwnedBy, NoneOpen, IsOpen, Open
    <2>11. \A d \in Conversations \ {c} : Agree(handoffs, handoffs', d)
      BY <2>7, <2>1, <2>8 DEF Agree, IsOpen, Open
    <2>12. CaseInv(cw, handoffs', c)
      BY <2>6, <2>10, OwnedInv
    <2> QED
      BY <2>1, <2>11, <2>12, OneConversation
  <1>3. ASSUME NEW c \in Conversations, NEW b \in Agents, NEW i \in CaseIds,
               ReassignConversation(b, c, i)
        PROVE  HInv'
    <2> DEFINE cw == SetAgent(conv[c], b)
    <2>1. conv[c] \in Conversation /\ conv[c].bot = FALSE
      BY <1>3 DEF HTypeOK, Conversation, ReassignConversation, RequireOwned
    <2>2. cw.state = "HUMAN_ACTIVE" /\ cw.bot = FALSE /\ cw.agent = b
      BY <1>3, <2>1, SetAgentFields DEF ReassignConversation, RequireOwned
    <2>3. IsOpen(handoffs, c, i) /\ \A j \in CaseIds : IsOpen(handoffs, c, j) => j = i
      BY <1>3, OnlyCase DEF ReassignConversation, RequireOwned
    <2>4. /\ conv' = [conv EXCEPT ![c] = cw]
          /\ handoffs' = [handoffs EXCEPT ![i].agent = b]
          /\ handoffs[i].status = "TAKEN"
      BY <1>3 DEF ReassignConversation, RequireOwned
    <2> HIDE DEF cw
    <2>5. /\ handoffs'[i].status = "TAKEN"
          /\ handoffs'[i].agent = b
          /\ handoffs'[i].conv = handoffs[i].conv
          /\ \A j \in CaseIds \ {i} : handoffs'[j] = handoffs[j]
      BY <2>4 DEF HTypeOK, Handoff
    <2>6. OwnedBy(cw, handoffs', c, i)
      BY <1>0, <2>2, <2>3, <2>5 DEF OwnedBy, IsOpen, Open
    <2>7. \A d \in Conversations \ {c} : Agree(handoffs, handoffs', d)
      BY <2>3, <2>5 DEF Agree, IsOpen
    <2>8. CaseInv(cw, handoffs', c)
      BY <2>2, <2>6, OwnedInv
    <2> QED
      BY <2>4, <2>7, <2>8, OneConversation
  <1>4. ASSUME NEW c \in Conversations, NEW a \in Agents, NEW i \in CaseIds,
               ReturnHandoff(a, c, i)
        PROVE  HInv'
    <2> DEFINE on    == SetBot(conv[c], TRUE)
               freed == SetAgent(on, NoAgent)
               back  == SetState(freed, "RETURNED_TO_BOT")
               cw    == SetState(back, "BOT_ACTIVE")
    <2>1. on \in Conversation /\ on.bot = TRUE
      BY SetBotType, SetBotFields DEF HTypeOK
    <2>2. freed \in Conversation /\ freed.bot = TRUE /\ freed.agent = NoAgent
      BY <2>1, SetAgentType, SetAgentFields
    <2>3. back \in Conversation /\ back.bot = TRUE /\ back.agent = NoAgent
      BY <2>2, SetStateType, SetStateFields, NamedStates
    <2>4. cw.state = "BOT_ACTIVE" /\ cw.bot = TRUE /\ cw.agent = NoAgent
      BY <2>3, SetStateFields, NamedStates
    <2>5. IsOpen(handoffs, c, i) /\ \A j \in CaseIds : IsOpen(handoffs, c, j) => j = i
      BY <1>4, OnlyCase DEF ReturnHandoff, RequireOwned
    <2>6. /\ conv' = [conv EXCEPT ![c] = cw]
          /\ handoffs' = [handoffs EXCEPT ![i].status = "RETURNED", ![i].agent = NoAgent]
      BY <1>4 DEF ReturnHandoff
    <2> HIDE DEF cw
    <2>7. /\ handoffs'[i].status = "RETURNED"
          /\ handoffs'[i].conv = handoffs[i].conv
          /\ \A j \in CaseIds \ {i} : handoffs'[j] = handoffs[j]
      BY <2>6 DEF HTypeOK, Handoff
    <2>8. NoneOpen(handoffs', c)
      BY <2>5, <2>7 DEF NoneOpen, IsOpen, Open
    <2>9. \A d \in Conversations \ {c} : Agree(handoffs, handoffs', d)
      BY <2>5, <2>7 DEF Agree, IsOpen
    <2>10. CaseInv(cw, handoffs', c)
      BY <2>4, <2>8, FreeInv
    <2> QED
      BY <2>6, <2>9, <2>10, OneConversation
  <1>5. ASSUME NEW c \in Conversations, ResetConversation(c) PROVE HInv'
    <2> DEFINE cw == [state |-> "CLOSED", bot |-> TRUE, epoch |-> conv[c].epoch + 1,
                      agent |-> NoAgent]
    <2>1. conv' = [conv EXCEPT ![c] = cw]
      BY <1>5 DEF ResetConversation
    <2>2. \A i \in CaseIds :
            \/ handoffs'[i] = handoffs[i] /\ ~IsOpen(handoffs, c, i)
            \/ /\ handoffs'[i].status = "RESOLVED"
               /\ handoffs'[i].conv = c
               /\ handoffs[i].conv = c
      BY <1>5 DEF ResetConversation, HTypeOK, Handoff, IsOpen, Open
    <2>3. NoneOpen(handoffs', c)
      BY <2>2 DEF NoneOpen, IsOpen, Open
    <2>4. \A d \in Conversations \ {c} : Agree(handoffs, handoffs', d)
      BY <2>2 DEF Agree, IsOpen
    <2>5. CaseInv(cw, handoffs', c)
      BY <2>3, FreeInv
    <2> QED
      BY <2>1, <2>4, <2>5, OneConversation
  <1>6. ASSUME NEW a \in Agents, DeactivateAgent(a) \/ ActivateAgent(a) PROVE HInv'
    BY <1>6, NoConversation DEF DeactivateAgent, ActivateAgent
  <1> QED
    BY <1>1, <1>2, <1>3, <1>4, <1>5, <1>6 DEF PanelStep

(***************************************************************************)
(* The theorems                                                            *)
(***************************************************************************)

\* The inductive invariant holds in every reachable state.
LEMMA HInvariant == HSpec => []HInv
  <1>1. HInv /\ [HNext]_hvars => HInv'
    <2>1. HInv /\ UNCHANGED hvars => HInv'
      BY DEF HInv, HTypeOK, hvars
    <2> QED
      BY <2>1, BotStepInv, ReviewStepInv, PanelStepInv DEF HNext
  <1> QED
    BY <1>1, HInvInit, PTL DEF HSpec

\* require_owned_case never locks out the owner: a conversation in HUMAN_ACTIVE has one
\* open case, taken, with the same agent in the case and in the conversation, bot off.
THEOREM HumanActiveOwned == HSpec => []HumanActiveIsOwned
  <1>1. HInv => HumanActiveIsOwned
    <2> SUFFICES ASSUME HInv, NEW c \in Conversations, conv[c].state = "HUMAN_ACTIVE"
                 PROVE  \E i \in CaseIds : RequireOwned(c, i)
      BY DEF HumanActiveIsOwned
    <2>1. PICK i \in CaseIds : OwnedBy(conv[c], handoffs, c, i)
      BY DEF HInv, CaseInv
    <2>2. OpenCases(c) = {i}
      BY <2>1 DEF OwnedBy, OpenCases, IsOpen
    <2> QED
      BY <2>1, <2>2 DEF RequireOwned, OwnedBy
  <1> QED
    BY <1>1, HInvariant, PTL

\* When the bot has the conversation, no case is open behind it and no agent is assigned.
THEOREM UnpausedClean == HSpec => []UnpausedIsClean
  <1>1. HInv => UnpausedIsClean
    BY DEF HInv, CaseInv, UnpausedIsClean, NoneOpen, OpenCases, IsOpen
  <1> QED
    BY <1>1, HInvariant, PTL

\* A wait for a human never outlives the pending case that caused it, through any
\* interleaving of payment decisions, slot conflicts, takes and resets.
THEOREM WaitingHasPending == HSpec => []WaitingHasPendingCase
  <1>1. HInv => WaitingHasPendingCase
    BY DEF HInv, CaseInv, WaitingHasPendingCase, WaitKept, OpenCases, IsOpen
  <1> QED
    BY <1>1, HInvariant, PTL

\* Two agents never own one conversation.
THEOREM OneAgent == HSpec => []OneAgentPerConversation
  <1>1. HInv => OneAgentPerConversation
    <2> SUFFICES ASSUME HInv, NEW i \in CaseIds, NEW j \in CaseIds,
                        handoffs[i].status = "TAKEN", handoffs[j].status = "TAKEN",
                        handoffs[i].conv = handoffs[j].conv
                 PROVE  i = j
      BY DEF OneAgentPerConversation
    <2>1. handoffs[i].conv \in Conversations
      BY DEF HInv, HTypeOK, Handoff
    <2> QED
      BY <2>1 DEF HInv, CaseInv, IsOpen, Open
  <1> QED
    BY <1>1, HInvariant, PTL
=============================================================================
