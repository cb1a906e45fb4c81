---------------------------- MODULE OutboxProofs ----------------------------
(***************************************************************************)
(* Proofs about Outbox: the delivery guarantees hold for any number of     *)
(* conversations, cases, receipts, rows, workers, attempts and batch size. *)
(*                                                                         *)
(* None of the invariants is inductive alone.  The strengthening says what *)
(* a single row may look like (RowOK), how it relates to the conversation, *)
(* the case or the receipt it is about (RowFits), and what the claims held *)
(* by workers and the provider's log have to do with the rows.             *)
(***************************************************************************)
EXTENDS Outbox, HumanCaseProofs

(***************************************************************************)
(* The inductive invariant                                                 *)
(***************************************************************************)

\* One row by itself: its claim counter, token, phase and status agree, and only what
\* the producers write for its origin is in it.
RowOK(row) ==
    /\ row \in Row
    /\ row.status = "ABSENT" =>
         /\ row.kind = "TEXT" /\ row.origin = "NONE" /\ row.after = 0
         /\ row.claims = 0 /\ row.token = 0 /\ row.phase = "NONE"
    /\ row.token # 0 => row.status = "SENDING"
    /\ row.status = "SENDING" => row.token = row.claims
    /\ row.status = "PENDING" => row.attempts < MaxAttempts /\ row.claims <= row.attempts
    /\ row.status = "SENDING" => row.attempts < MaxAttempts /\ row.claims <= row.attempts + 1
    /\ row.kind = "TEXT" => row.phase # "REJECTED_MEDIA"
    /\ row.status = "SUPPRESSED" => row.phase \notin {"ADMITTED", "UNKNOWN"}
    /\ row.phase = "SENT" => row.status = "SENT"
    /\ row.after # 0 => row.origin = "AUTO" /\ row.kind = "DOCUMENT"
    /\ row.origin = "HUMAN_REPLY" => row.proof
    /\ row.origin \in {"NONE", "HUMAN_REPLY", "PAYMENT_REVIEW_RESULT"} => row.kind = "TEXT"
    /\ row.origin \in {"HUMAN_REPLY", "PAYMENT_REVIEW_RESULT"} =>
         /\ row.status \notin {"SUPPRESSED", "REVIEW"}
         /\ row.status = "FAILED" => row.attempts = MaxAttempts

\* A row and what it is about: no period is in the future, a result is about a receipt
\* that somebody decided, an acknowledgement is about a case that exists.
RowFits(row, cv, hs, ev) ==
    /\ row.origin \in {"AUTO", "HANDOFF_NOTICE"} => row.epoch <= cv[row.conv].epoch
    /\ row.origin = "PAYMENT_REVIEW_RESULT" =>
         row.ev \in Evidence /\ ev[row.ev].status \notin {"NONE", "PENDING_REVIEW"}
    /\ row.origin = "PAYMENT_EVIDENCE_ACK" =>
         row.case \in CaseIds /\ hs[row.case].status # "NONE"

RowsOK   == \A r \in Rows : RowOK(outbox[r])
RowsFit  == \A r \in Rows : RowFits(outbox[r], conv, handoffs, evidence)

\* A row is claimed only after the text it must follow, and SENT is final.
TextsFirst ==
    \A r \in Rows : outbox[r].after # 0 /\ outbox[r].claims # 0 =>
        outbox[outbox[r].after].status = "SENT"

\* Rows are numbered in the order in which they are inserted.
InOrder ==
    \A q, r \in Rows : q < r /\ outbox[q].status = "ABSENT" => outbox[r].status = "ABSENT"

\* Token t was drawn for row r of table ob.
Drawn(ob, r, t) == r \in Rows /\ t # 0 /\ t <= ob[r].claims

\* The steps of a claim that has not reached the provider, and the ones that only a
\* document goes through.
Unsent == {"check", "resolve", "admit", "send", "reject"}
ForDocuments == {"check", "resolve", "reject", "perm"}

JobOK(j, ob, dl) ==
    j.pc # "idle" =>
        /\ Drawn(ob, j.row, j.token)
        /\ j.pc \in Unsent => <<j.row, j.token>> \notin dl
        /\ j.pc = "ok" => <<j.row, j.token>> \in dl
        /\ j.pc \in ForDocuments => ob[j.row].kind = "DOCUMENT"
        /\ j.pc = "send" => ob[j.row].phase # "NONE"

BatchOK(b, ob, dl) ==
    \A k \in b : Drawn(ob, k.row, k.token) /\ <<k.row, k.token>> \notin dl

JobsOK    == \A w \in Workers : JobOK(job[w], outbox, delivered)
BatchesOK == \A w \in Workers : BatchOK(batch[w], outbox, delivered)

\* What the provider accepted was claimed, and the row has been admitted since.
LogOK ==
    \A r \in Rows, t \in Tokens : <<r, t>> \in delivered =>
        Drawn(outbox, r, t) /\ outbox[r].phase # "NONE"

\* Worker w is working on the claim of row r with token t.
Working(j, r, t) == j.pc # "idle" /\ j.row = r /\ j.token = t

\* A claim has one holder: one place in one worker.
OneHolder ==
    \A w, v \in Workers :
        /\ \A k \in batch[w] : ~Working(job[v], k.row, k.token)
        /\ w # v => batch[w] \cap batch[v] = {}
        /\ w # v /\ job[v].pc # "idle" => ~Working(job[w], job[v].row, job[v].token)

OInv ==
    /\ HTypeOK /\ OTypeOK
    /\ RowsOK /\ RowsFit /\ TextsFirst /\ InOrder
    /\ JobsOK /\ BatchesOK /\ LogOK /\ OneHolder
    /\ SentByItsOwnClaim

(***************************************************************************)
(* Steps of the conversations, as the outbox sees them                     *)
(***************************************************************************)

\* Every step is a step of the conversations, or leaves them alone.
LEMMA ConversationStep == [ONext]_vars => [HNext]_hvars
  <1> SUFFICES ASSUME [ONext]_vars PROVE [HNext]_hvars
    OBVIOUS
  <1>1. CASE Produce
    <2>1. ASSUME NEW c \in Conversations, NEW r \in Rows,
                 \/ EnqueueTemplate(c, r) \/ EnqueueCatalog(c, r)
                 \/ EnqueueTextThenCatalog(c, r)
                 \/ \E i \in CaseIds, a \in Agents : CreateAgentMessage(a, c, i, r)
          PROVE  UNCHANGED hvars
      BY <2>1 DEF EnqueueTemplate, EnqueueCatalog, EnqueueTextThenCatalog, CreateAgentMessage
    <2>2. ASSUME NEW c \in Conversations, NEW r \in Rows, NEW i \in CaseIds,
                 \/ HandoffWithNotice(c, i, r) \/ HandoffWithQuestion(c, i, r)
                 \/ CatalogHandoffWithNotice(c, i, r)
                 \/ \E e \in Evidence : EvidenceWithNotice(c, e, i, r)
          PROVE  BotStep
      BY <2>2 DEF HandoffWithNotice, HandoffWithQuestion, CatalogHandoffWithNotice,
                  EvidenceWithNotice, BotStep
    <2>3. ASSUME NEW c \in Conversations, NEW r \in Rows, NEW e \in Evidence,
                 EvidenceWithAck(c, e, r)
          PROVE  BotStep
      BY <2>3 DEF EvidenceWithAck, BotStep
    <2> QED
      BY <1>1, <2>1, <2>2, <2>3 DEF Produce, HNext
  <1>2. CASE ProducePayment
    BY <1>2 DEF ProducePayment, DecisionWithResult, ConflictWithNotice, HNext, ReviewStep
  <1>3. CASE Background
    BY <1>3 DEF Background, TemplateUnavailable, EvidenceWithoutAck, NotifyDeferred,
                HNext, BotStep, ReviewStep
  <1>4. CASE ClaimSome
    BY <1>4 DEF ClaimSome, ClaimBatch
  <1>5. ASSUME NEW w \in Workers, Process(w) \/ Crash(w) PROVE UNCHANGED hvars
    BY <1>5 DEF Process, Crash, StartItem, Discard, Stop, Check, Admit, PreparationFails,
                Resolve, SendAccepted, SendRejected, SendInvalidMedia, RejectMedia,
                SettleSuccess, SettleFailure, SettleRaises
  <1>6. ASSUME NEW r \in Rows, Recover(r) PROVE UNCHANGED hvars
    BY <1>6 DEF Recover
  <1> QED
    BY <1>1, <1>2, <1>3, <1>4, <1>5, <1>6 DEF ONext, vars

\* Periods only grow.
LEMMA EpochsGrow ==
    ASSUME HTypeOK, [HNext]_hvars, NEW c \in Conversations
    PROVE  conv[c].epoch \in Nat /\ conv'[c].epoch \in Nat /\ conv[c].epoch <= conv'[c].epoch
  <1>0. conv \in [Conversations -> Conversation] /\ conv[c].epoch \in Nat
    BY DEF HTypeOK, Conversation
  <1>1. CASE UNCHANGED conv
    BY <1>0, <1>1
  <1>2. CASE OneRowLater
    <2>1. PICK d \in Conversations, cw \in Conversation :
            Later(conv[d], cw) /\ conv' = [conv EXCEPT ![d] = cw]
      BY <1>2 DEF OneRowLater
    <2>2. CASE c = d
      BY <1>0, <2>1, <2>2 DEF Later
    <2>3. CASE c # d
      BY <1>0, <2>1, <2>3
    <2> QED
      BY <2>2, <2>3
  <1> QED
    BY <1>1, <1>2, BotStepLater, ReviewStepLater, PanelStepLater DEF HNext, hvars

\* A case table may follow another: cases are not forgotten, and none waits again.
CasesAge(hs, hs2) ==
    \A i \in CaseIds :
        /\ hs[i].status # "NONE" => hs2[i].status # "NONE"
        /\ hs[i].status \notin {"NONE", "PENDING"} => hs2[i].status # "PENDING"

\* resolve_payment_handoffs forgets no case and puts none back to wait.
LEMMA ResolvePaymentAges ==
    ASSUME NEW hs \in [CaseIds -> Handoff], NEW c \in Conversations
    PROVE  CasesAge(hs, ResolvePaymentCases(hs, c))
  <1> SUFFICES ASSUME NEW i \in CaseIds
               PROVE  \/ ResolvePaymentCases(hs, c)[i] = hs[i]
                      \/ ResolvePaymentCases(hs, c)[i].status = "RESOLVED"
    BY DEF CasesAge
  <1>1. [hs[i] EXCEPT !.status = "RESOLVED", !.agent = NoAgent].status = "RESOLVED"
    BY DEF Handoff
  <1> QED
    BY <1>1 DEF ResolvePaymentCases

\* No step forgets a case, and a case that was taken or closed never waits again.
LEMMA CasesAgeStep == HTypeOK /\ [HNext]_hvars => CasesAge(handoffs, handoffs')
  <1> SUFFICES ASSUME HTypeOK, [HNext]_hvars PROVE CasesAge(handoffs, handoffs')
    OBVIOUS
  <1>0. handoffs \in [CaseIds -> Handoff]
    BY DEF HTypeOK
  <1>1. ASSUME handoffs' = handoffs PROVE CasesAge(handoffs, handoffs')
    BY <1>1 DEF CasesAge
  <1>2. ASSUME NEW i \in CaseIds, NEW h \in Handoff, FreshCase(i), h.status # "NONE",
               handoffs' = [handoffs EXCEPT ![i] = h]
        PROVE  CasesAge(handoffs, handoffs')
    BY <1>0, <1>2 DEF FreshCase, CasesAge
  <1>3. ASSUME NEW c \in Conversations, NEW i \in CaseIds, NEW st \in CaseStatus \ {"NONE"},
               NEW re \in CaseReason, NEW a \in Agents \cup {NoAgent}, FreshCase(i),
               handoffs' = [handoffs EXCEPT ![i] = NewCase(c, st, re, a)]
        PROVE  CasesAge(handoffs, handoffs')
    <2>1. NewCase(c, st, re, a) \in Handoff /\ NewCase(c, st, re, a).status # "NONE"
      BY NewCaseType DEF NewCase
    <2> QED
      BY <1>2, <1>3, <2>1
  <1>4. CASE BotStep
    <2>1. ASSUME NEW c \in Conversations, NEW i \in CaseIds,
                 NEW re \in {"OTHER", "PAYMENT_REVIEW"}, CreateHandoff(c, i, re)
          PROVE  CasesAge(handoffs, handoffs')
      BY <1>3, <2>1 DEF CreateHandoff, CaseStatus, CaseReason
    <2>2. ASSUME NEW c \in Conversations, NEW i \in CaseIds, CatalogHandoff(c, i)
          PROVE  CasesAge(handoffs, handoffs')
      BY <1>3, <2>2 DEF CatalogHandoff, CaseStatus, CaseReason
    <2> QED
      BY <1>1, <1>4, <2>1, <2>2 DEF BotStep, BotMove, BotHandoff, MoreEvidence, FirstEvidence
  <1>5. CASE ReviewStep
    <2>1. ASSUME NEW e \in Evidence, NotifyDecision(e) PROVE CasesAge(handoffs, handoffs')
      BY <1>0, <2>1, ResolvePaymentAges DEF NotifyDecision, HTypeOK
    <2>2. ASSUME NEW e \in Evidence, NEW i \in CaseIds, NotifyConflict(e, i)
          PROVE  CasesAge(handoffs, handoffs')
      <3> DEFINE c    == evidence[e].conv
                 case == NewCase(c, "PENDING", "RESERVATION_CONFIRMATION", NoAgent)
                 hs   == [handoffs EXCEPT ![i] = case]
      <3>1. c \in Conversations
        BY DEF HTypeOK
      <3>2. case \in Handoff
        BY <3>1, NewCaseType DEF CaseStatus, CaseReason
      <3>3. handoffs' = ResolvePaymentCases(hs, c) /\ handoffs[i].status = "NONE"
        BY <2>2 DEF NotifyConflict, FreshCase
      <3> HIDE DEF c, case
      <3>4. hs \in [CaseIds -> Handoff] /\ \A j \in CaseIds \ {i} : hs[j] = handoffs[j]
        BY <1>0, <3>2
      <3> HIDE DEF hs
      <3>5. CasesAge(hs, handoffs')
        BY <3>1, <3>3, <3>4, ResolvePaymentAges
      <3> QED
        BY <3>3, <3>4, <3>5 DEF CasesAge
    <2> QED
      BY <1>1, <1>5, <2>1, <2>2 DEF ReviewStep, SettleEvidence, NotifyUnlinked, NotifyLost
  <1>6. CASE PanelStep
    <2>1. ASSUME NEW c \in Conversations, NEW a \in Agents, NEW i \in CaseIds,
                 TakeHandoff(a, c, i) \/ ReturnHandoff(a, c, i)
          PROVE  CasesAge(handoffs, handoffs')
      <3>1. PICK st \in {"TAKEN", "RETURNED"} :
              \E b : handoffs' = [handoffs EXCEPT ![i].status = st, ![i].agent = b]
        BY <2>1 DEF TakeHandoff, ReturnHandoff
      <3>2. /\ \A j \in CaseIds \ {i} : handoffs'[j] = handoffs[j]
            /\ handoffs'[i].status = st
        BY <1>0, <3>1 DEF Handoff
      <3> QED
        BY <3>1, <3>2 DEF CasesAge
    <2>2. ASSUME NEW c \in Conversations, NEW a \in Agents, NEW i \in CaseIds,
                 ReassignConversation(a, c, i)
          PROVE  CasesAge(handoffs, handoffs')
      <3>1. \A j \in CaseIds : handoffs'[j].status = handoffs[j].status
        BY <1>0, <2>2 DEF ReassignConversation, Handoff
      <3> QED
        BY <3>1 DEF CasesAge
    <2>3. ASSUME NEW c \in Conversations, ResetConversation(c)
          PROVE  CasesAge(handoffs, handoffs')
      <3>1. \A i \in CaseIds : handoffs'[i] = handoffs[i] \/ handoffs'[i].status = "RESOLVED"
        BY <1>0, <2>3 DEF ResetConversation, Handoff
      <3> QED
        BY <3>1 DEF CasesAge
    <2>4. ASSUME NEW c \in Conversations, NEW a \in Agents, NEW i \in CaseIds,
                 TakeConversation(a, c, i)
          PROVE  CasesAge(handoffs, handoffs')
      BY <1>3, <2>4 DEF TakeConversation, CaseStatus, CaseReason
    <2> QED
      BY <1>1, <1>6, <2>1, <2>2, <2>3, <2>4 DEF PanelStep, DeactivateAgent, ActivateAgent
  <1> QED
    BY <1>1, <1>4, <1>5, <1>6 DEF HNext, hvars

\* A receipt that was decided stays decided.
LEMMA DecidedStaysDecided ==
    ASSUME HTypeOK, [HNext]_hvars, NEW e \in Evidence,
           evidence[e].status \notin {"NONE", "PENDING_REVIEW"}
    PROVE  evidence'[e].status \notin {"NONE", "PENDING_REVIEW"}
  <1>0. evidence \in [Evidence -> [status : EvidenceStatus, conv : Conversations]]
    BY DEF HTypeOK
  <1>1. CASE UNCHANGED evidence
    BY <1>1
  <1>2. CASE BotStep
    <2>1. \/ UNCHANGED evidence
          \/ \E f \in Evidence : /\ evidence[f].status = "NONE"
                                 /\ \E x : evidence' = [evidence EXCEPT ![f] = x]
      BY <1>2 DEF BotStep, BotMove, BotHandoff, CatalogHandoff, MoreEvidence, FirstEvidence
    <2> QED
      BY <1>0, <2>1
  <1>3. CASE ReviewStep
    <2>1. \E f \in Evidence, s \in EvidenceStatus \ {"NONE", "PENDING_REVIEW"} :
            evidence' = [evidence EXCEPT ![f].status = s]
      BY <1>3 DEF ReviewStep, SettleEvidence, NotifyDecision, NotifyConflict, NotifyUnlinked,
                  NotifyLost, Notified, EvidenceStatus
    <2> QED
      BY <1>0, <2>1
  <1>4. CASE PanelStep
    <2>1. ASSUME NEW a, NEW c, NEW i,
                 \/ TakeHandoff(a, c, i) \/ TakeConversation(a, c, i)
                 \/ ReassignConversation(a, c, i) \/ ReturnHandoff(a, c, i)
          PROVE  UNCHANGED evidence
      BY <2>1 DEF TakeHandoff, TakeConversation, ReassignConversation, ReturnHandoff
    <2>2. UNCHANGED evidence
      BY <1>4, <2>1 DEF PanelStep, ResetConversation, DeactivateAgent, ActivateAgent
    <2> QED
      BY <2>2
  <1> QED
    BY <1>1, <1>2, <1>3, <1>4 DEF HNext, hvars

(***************************************************************************)
(* Writers of a row                                                        *)
(***************************************************************************)

\* Row row2 may follow row: what was inserted is kept, an admission is not forgotten, the
\* origin only becomes known, and a settled row is not written.
RowAges(row, row2) ==
    /\ row.claims <= row2.claims
    /\ row.status \in Terminal => row2 = row
    /\ row.status # "ABSENT" =>
         /\ row2.status # "ABSENT"
         /\ row2.kind = row.kind /\ row2.conv = row.conv /\ row2.epoch = row.epoch
         /\ row2.case = row.case /\ row2.ev = row.ev /\ row2.after = row.after
         /\ row2.origin = row.origin \/ (row.origin = "NONE" /\ row2.origin = "HUMAN_REPLY")
         /\ row.phase # "NONE" => row2.phase # "NONE"

\* A claim, a stop, an admission or a settlement writes row2 over row without a new claim.
Rewrites(row, row2) == RowOK(row2) /\ RowAges(row, row2) /\ row2.claims = row.claims

\* A row that is not written ages.
LEMMA SameRowAges ==
    ASSUME NEW row, RowOK(row) PROVE RowAges(row, row)
  BY OutboxAssumption DEF RowAges, RowOK, Row, Tokens

\* Rows as the producers insert them.
LEMMA NewRowOK ==
    ASSUME NEW row \in Row, row.status = "PENDING", row.attempts = 0, row.claims = 0,
           row.token = 0, row.phase = "NONE",
           row.after # 0 => row.origin = "AUTO" /\ row.kind = "DOCUMENT",
           row.origin = "HUMAN_REPLY" => row.proof,
           row.origin \in {"NONE", "HUMAN_REPLY", "PAYMENT_REVIEW_RESULT"} => row.kind = "TEXT"
    PROVE  RowOK(row)
  BY OutboxAssumption DEF RowOK

\* stop_delivery of output that no person wrote.
LEMMA StopDeliveryOK ==
    ASSUME NEW row, RowOK(row), row.status \in {"PENDING", "SENDING"},
           NEW result \in {"SUPPRESSED", "REVIEW"},
           row.origin \notin {"HUMAN_REPLY", "PAYMENT_REVIEW_RESULT"}
    PROVE  Rewrites(row, StopDelivery(row, result))
  <1>1. PICK st \in {"SUPPRESSED", "REVIEW"} :
          /\ StopDelivery(row, result) = [row EXCEPT !.status = st, !.token = 0]
          /\ st = "SUPPRESSED" => row.phase \notin {"ADMITTED", "UNKNOWN"}
    BY DEF StopDelivery
  <1>2. PICK new : new = StopDelivery(row, result)
    OBVIOUS
  <1>3. 0 \in Tokens /\ row \in Row
    BY OutboxAssumption DEF Tokens, RowOK
  <1>4. /\ new \in Row /\ new.status = st /\ new.token = 0
        /\ new.kind = row.kind /\ new.conv = row.conv /\ new.origin = row.origin
        /\ new.epoch = row.epoch /\ new.case = row.case /\ new.ev = row.ev
        /\ new.proof = row.proof /\ new.after = row.after /\ new.attempts = row.attempts
        /\ new.claims = row.claims /\ new.phase = row.phase
    BY <1>1, <1>2, <1>3 DEF Row, Status
  <1>5. row.claims \in Nat
    BY <1>3, OutboxAssumption DEF Row, Tokens
  <1>6. RowOK(new)
    BY <1>1, <1>4 DEF RowOK
  <1>7. RowAges(row, new)
    BY <1>1, <1>4, <1>5 DEF RowAges, Terminal
  <1> QED
    BY <1>2, <1>4, <1>6, <1>7 DEF Rewrites

\* The origin that is written when a row is judged.
LEMMA AdoptWrites ==
    ASSUME NEW row, RowOK(row)
    PROVE  \E o \in Origin :
             /\ Adopt(row) = [row EXCEPT !.origin = o]
             /\ o = row.origin \/ (row.origin = "NONE" /\ row.proof /\ o = "HUMAN_REPLY")
  <1>1. row \in Row
    BY DEF RowOK
  <1>2. row = [row EXCEPT !.origin = row.origin]
    BY <1>1 DEF Row
  <1> QED
    BY <1>1, <1>2 DEF Adopt, Row, Origin

\* Row new is row with phase ph, and with the origin known if it is a person's.
Judged(row, new, ph) ==
    \E o \in Origin :
        /\ new = [row EXCEPT !.origin = o, !.phase = ph]
        /\ o = row.origin \/ (row.origin = "NONE" /\ row.proof /\ o = "HUMAN_REPLY")

\* Writing the phase, and the origin of a row that turns out to be a person's.
LEMMA PhaseOK ==
    ASSUME NEW row, RowOK(row), row.status = "SENDING", NEW ph \in Phase \ {"SENT"},
           NEW new, Judged(row, new, ph),
           row.phase # "NONE" => ph # "NONE",
           ph = "REJECTED_MEDIA" => row.kind = "DOCUMENT"
    PROVE  Rewrites(row, new) /\ new.status = "SENDING" /\ new.phase = ph
  <1>0. PICK o \in Origin :
          /\ new = [row EXCEPT !.origin = o, !.phase = ph]
          /\ o = row.origin \/ (row.origin = "NONE" /\ row.proof /\ o = "HUMAN_REPLY")
    BY DEF Judged
  <1>1. row \in Row
    BY DEF RowOK
  <1>2. /\ new \in Row /\ new.status = row.status /\ new.token = row.token
        /\ new.kind = row.kind /\ new.conv = row.conv /\ new.origin = o
        /\ new.epoch = row.epoch /\ new.case = row.case /\ new.ev = row.ev
        /\ new.proof = row.proof /\ new.after = row.after /\ new.attempts = row.attempts
        /\ new.claims = row.claims /\ new.phase = ph
    BY <1>0, <1>1 DEF Row
  <1>3. row.claims \in Nat
    BY <1>1, OutboxAssumption DEF Row, Tokens
  <1>4. RowOK(new)
    BY <1>0, <1>2 DEF RowOK
  <1>5. RowAges(row, new)
    BY <1>0, <1>2, <1>3 DEF RowAges, Terminal
  <1> QED
    BY <1>2, <1>4, <1>5 DEF Rewrites

\* A success is settled.
LEMMA SentOK ==
    ASSUME NEW row, RowOK(row), row.status = "SENDING", NEW new,
           new = [row EXCEPT !.status = "SENT", !.phase = "SENT", !.token = 0]
    PROVE  Rewrites(row, new) /\ new.status = "SENT"
  <1>1. row \in Row /\ 0 \in Tokens
    BY OutboxAssumption DEF RowOK, Tokens
  <1>2. /\ new \in Row /\ new.status = "SENT" /\ new.token = 0
        /\ new.kind = row.kind /\ new.conv = row.conv /\ new.origin = row.origin
        /\ new.epoch = row.epoch /\ new.case = row.case /\ new.ev = row.ev
        /\ new.proof = row.proof /\ new.after = row.after /\ new.attempts = row.attempts
        /\ new.claims = row.claims /\ new.phase = "SENT"
    BY <1>1 DEF Row, Status, Phase
  <1>3. row.claims \in Nat
    BY <1>1, OutboxAssumption DEF Row, Tokens
  <1>4. RowOK(new)
    BY <1>2 DEF RowOK
  <1>5. RowAges(row, new)
    BY <1>2, <1>3 DEF RowAges, Terminal
  <1> QED
    BY <1>2, <1>4, <1>5 DEF Rewrites

\* What a person wrote, and the result of a review, is always eligible.
LEMMA HumanIsEligible ==
    ASSUME NEW row, RowOK(row), RowFits(row, conv, handoffs, evidence),
           row.origin \in {"HUMAN_REPLY", "PAYMENT_REVIEW_RESULT"}
    PROVE  Eligible(row)
  BY DEF RowOK, RowFits, Eligible, HumanEligible, ResultEligible

\* A failed attempt is counted, and the last one fails the row.
LEMMA MarkFailureOK ==
    ASSUME NEW row, RowOK(row), RowFits(row, conv, handoffs, evidence),
           row.status = "SENDING", NEW permanent \in BOOLEAN,
           permanent => row.kind = "DOCUMENT"
    PROVE  Rewrites(row, MarkFailure(row, permanent)) /\ MarkFailure(row, permanent).status # "SENT"
  <1> DEFINE known == Adopt(row)
             next  == IF row.phase = "ADMITTED" THEN "UNKNOWN" ELSE row.phase
  <1>0. row \in Row /\ 0 \in Tokens /\ row.attempts \in Nat /\ row.attempts < MaxAttempts
        /\ row.claims \in Nat
    BY OutboxAssumption DEF RowOK, Row, Tokens
  <1>1. row.attempts + 1 \in 0..MaxAttempts /\ row.attempts \in 0..MaxAttempts
    BY <1>0, OutboxAssumption
  <1>2. PICK o \in Origin :
          /\ known = [row EXCEPT !.origin = o]
          /\ o = row.origin \/ (row.origin = "NONE" /\ row.proof /\ o = "HUMAN_REPLY")
    BY AdoptWrites
  <1>3. next \in Phase /\ (row.phase # "NONE" => next # "NONE") /\ next # "ADMITTED"
        /\ (next = "REJECTED_MEDIA" => row.phase = "REJECTED_MEDIA")
        /\ (next = "UNKNOWN" => row.phase \in {"ADMITTED", "UNKNOWN"})
        /\ (next = "SENT" => row.phase = "SENT")
    BY <1>0 DEF Row, Phase
  <1>4. PICK new : new = MarkFailure(row, permanent)
    OBVIOUS
  <1>5. CASE ~Eligible(row)
    <2>1. row.origin \notin {"HUMAN_REPLY", "PAYMENT_REVIEW_RESULT"} /\ o = row.origin
      <3>1. row.origin \notin {"HUMAN_REPLY", "PAYMENT_REVIEW_RESULT"}
        BY <1>5, HumanIsEligible
      <3>2. ~(row.origin = "NONE" /\ row.proof)
        BY <1>5 DEF Eligible, HumanEligible
      <3> QED
        BY <1>2, <3>1, <3>2
    <2>2. Verdict(row) \in {"SUPPRESSED", "REVIEW"}
      BY <1>5 DEF Verdict
    <2>3. PICK n \in 0..MaxAttempts, st \in {"SUPPRESSED", "REVIEW"} :
            /\ new = [[[known EXCEPT !.status = st, !.token = 0] EXCEPT
                        !.phase = next, !.attempts = n]
                        EXCEPT !.origin = row.origin]
            /\ st = "SUPPRESSED" => row.phase \notin {"ADMITTED", "UNKNOWN"}
      <3>1. known = row
        BY <1>0, <1>2, <2>1 DEF Row
      <3>2. StopDelivery(row, Verdict(row)) =
              [row EXCEPT !.status = IF row.phase \in {"ADMITTED", "UNKNOWN"}
                                     THEN "REVIEW" ELSE Verdict(row), !.token = 0]
        BY DEF StopDelivery
      <3> DEFINE st == IF row.phase \in {"ADMITTED", "UNKNOWN"} THEN "REVIEW" ELSE Verdict(row)
                 stopped == [row EXCEPT !.status = st, !.token = 0]
                 n == IF row.phase = "ADMITTED" THEN row.attempts + 1 ELSE row.attempts
      <3>3. n \in 0..MaxAttempts /\ st \in {"SUPPRESSED", "REVIEW"}
        BY <1>1, <2>2
      <3>4. stopped.attempts = row.attempts /\ stopped.origin = row.origin
        BY <1>0 DEF Row
      <3>5. new = [stopped EXCEPT !.phase = next, !.attempts = n]
        BY <1>4, <1>5, <3>1, <3>2, <3>4 DEF MarkFailure
      <3>6. new = [[stopped EXCEPT !.phase = next, !.attempts = n] EXCEPT !.origin = row.origin]
        BY <1>0, <3>4, <3>5 DEF Row
      <3> QED
        BY <3>1, <3>3, <3>6
    <2>4. /\ new \in Row /\ new.status = st /\ new.token = 0
          /\ new.kind = row.kind /\ new.conv = row.conv /\ new.origin = row.origin
          /\ new.epoch = row.epoch /\ new.case = row.case /\ new.ev = row.ev
          /\ new.proof = row.proof /\ new.after = row.after
          /\ new.claims = row.claims /\ new.phase = next
      <3>1. PICK p : p = next
        OBVIOUS
      <3>2. row.origin \in Origin /\ p \in Phase /\ st \in Status
        BY <1>0, <1>3, <3>1 DEF Row, Status
      <3>3. new = [row EXCEPT !.status = st, !.token = 0, !.phase = p, !.attempts = n,
                              !.origin = row.origin]
        BY <1>0, <1>2, <2>3, <3>1 DEF Row
      <3>4. /\ new \in Row /\ new.status = st /\ new.token = 0 /\ new.phase = p
            /\ new.kind = row.kind /\ new.conv = row.conv /\ new.origin = row.origin
            /\ new.epoch = row.epoch /\ new.case = row.case /\ new.ev = row.ev
            /\ new.proof = row.proof /\ new.after = row.after /\ new.claims = row.claims
        BY <1>0, <3>2, <3>3 DEF Row
      <3> QED
        BY <3>1, <3>4
    <2>5. RowOK(new)
      BY <1>3, <2>1, <2>3, <2>4 DEF RowOK
    <2>6. RowAges(row, new)
      BY <1>0, <1>3, <2>4 DEF RowAges, Terminal
    <2> QED
      BY <1>4, <2>4, <2>5, <2>6 DEF Rewrites
  <1>6. CASE Eligible(row)
    <2>1. PICK st \in {"FAILED", "PENDING"} :
            /\ new = [known EXCEPT !.phase = next, !.token = 0,
                                   !.attempts = row.attempts + 1, !.status = st]
            /\ st = "PENDING" => row.attempts + 1 < MaxAttempts
            /\ st = "FAILED" => permanent \/ row.attempts + 1 = MaxAttempts
      <3>1. known.attempts = row.attempts
        BY <1>0, <1>2 DEF Row
      <3>2. new = [known EXCEPT !.phase = next, !.token = 0, !.attempts = row.attempts + 1,
                     !.status = IF permanent \/ row.attempts + 1 >= MaxAttempts
                                THEN "FAILED" ELSE "PENDING"]
        BY <1>4, <1>6, <3>1 DEF MarkFailure
      <3>3. CASE permanent \/ row.attempts + 1 >= MaxAttempts
        <4>1. permanent \/ row.attempts + 1 = MaxAttempts
          BY <1>0, <3>3, OutboxAssumption
        <4>2. new = [known EXCEPT !.phase = next, !.token = 0,
                                  !.attempts = row.attempts + 1, !.status = "FAILED"]
          BY <3>2, <3>3, Zenon
        <4> QED
          BY <4>1, <4>2, Zenon
      <3>4. CASE ~(permanent \/ row.attempts + 1 >= MaxAttempts)
        <4>1. row.attempts + 1 < MaxAttempts
          BY <1>0, <3>4, OutboxAssumption
        <4>2. new = [known EXCEPT !.phase = next, !.token = 0,
                                  !.attempts = row.attempts + 1, !.status = "PENDING"]
          BY <3>2, <3>4, Zenon
        <4>3. "PENDING" # "FAILED"
          OBVIOUS
        <4> QED
          BY <4>1, <4>2, <4>3, Zenon
      <3> QED
        BY <3>3, <3>4
    <2>2. /\ new \in Row /\ new.status = st /\ new.token = 0
          /\ new.kind = row.kind /\ new.conv = row.conv /\ new.origin = o
          /\ new.epoch = row.epoch /\ new.case = row.case /\ new.ev = row.ev
          /\ new.proof = row.proof /\ new.after = row.after
          /\ new.attempts = row.attempts + 1
          /\ new.claims = row.claims /\ new.phase = next
      <3>1. PICK p, n : p = next /\ n = row.attempts + 1
        OBVIOUS
      <3>2. p \in Phase /\ st \in Status /\ n \in 0..MaxAttempts
        BY <1>1, <1>3, <3>1 DEF Status
      <3>3. new = [row EXCEPT !.origin = o, !.phase = p, !.token = 0, !.attempts = n,
                              !.status = st]
        BY <1>0, <1>2, <2>1, <3>1 DEF Row
      <3>4. /\ new \in Row /\ new.status = st /\ new.token = 0
            /\ new.kind = row.kind /\ new.conv = row.conv /\ new.origin = o
            /\ new.epoch = row.epoch /\ new.case = row.case /\ new.ev = row.ev
            /\ new.proof = row.proof /\ new.after = row.after
            /\ new.attempts = n /\ new.claims = row.claims /\ new.phase = p
        BY <1>0, <3>2, <3>3 DEF Row
      <3> QED
        BY <3>1, <3>4
    <2>3. RowOK(new)
      BY <1>0, <1>2, <1>3, <2>1, <2>2 DEF RowOK
    <2>4. RowAges(row, new)
      BY <1>0, <1>2, <1>3, <2>2 DEF RowAges, Terminal
    <2> QED
      BY <1>4, <2>2, <2>3, <2>4 DEF Rewrites
  <1> QED
    BY <1>5, <1>6

(***************************************************************************)
(* Steps that draw no token                                                *)
(***************************************************************************)

\* Every row is rewritten without a new claim or left alone, a row becomes SENT only if its
\* last claim was delivered, and a row that appears fits what it is about.
QuietRows ==
    /\ outbox' \in [Rows -> Row]
    /\ InOrder'
    /\ \A r \in Rows :
         /\ Rewrites(outbox[r], outbox'[r])
         /\ outbox[r].status # "SENT" /\ outbox'[r].status = "SENT" =>
              <<r, outbox[r].claims>> \in delivered
         /\ outbox[r].status = "ABSENT" /\ outbox'[r] # outbox[r] =>
              RowFits(outbox'[r], conv', handoffs', evidence')

\* Nothing is written to the outbox.
LEMMA UntouchedIsQuiet == OInv /\ UNCHANGED outbox => QuietRows
  <1> SUFFICES ASSUME OInv, UNCHANGED outbox PROVE QuietRows
    OBVIOUS
  <1>1. outbox \in [Rows -> Row] /\ \A r \in Rows : RowOK(outbox[r])
    BY DEF OInv, OTypeOK, RowsOK
  <1>2. InOrder'
    BY DEF OInv, InOrder
  <1> QED
    BY <1>1, <1>2, SameRowAges DEF QuietRows, Rewrites

\* One row that somebody holds is rewritten.
LEMMA OneRowIsQuiet ==
    ASSUME OInv, NEW r \in Rows, NEW new, outbox[r].status = "SENDING",
           outbox' = [outbox EXCEPT ![r] = new], Rewrites(outbox[r], new),
           new.status = "SENT" => <<r, outbox[r].claims>> \in delivered
    PROVE  QuietRows
  <1>1. outbox \in [Rows -> Row] /\ \A q \in Rows : RowOK(outbox[q])
    BY DEF OInv, OTypeOK, RowsOK
  <1>2. new \in Row
    BY DEF Rewrites, RowOK
  <1>3. \A q \in Rows : outbox'[q] = IF q = r THEN new ELSE outbox[q]
    BY <1>1
  <1>4. \A q \in Rows : Rewrites(outbox[q], outbox'[q])
    BY <1>1, <1>3, SameRowAges DEF Rewrites
  <1>5. InOrder'
    <2>1. \A q \in Rows : outbox'[q].status = "ABSENT" <=> outbox[q].status = "ABSENT"
      BY <1>3, <1>4 DEF Rewrites, RowAges
    <2> QED
      BY <2>1 DEF OInv, InOrder
  <1> QED
    BY <1>1, <1>2, <1>3, <1>4, <1>5 DEF QuietRows

\* An absent row becomes a new one.
LEMMA InsertedRewrites ==
    ASSUME NEW row, RowOK(row), row.status = "ABSENT", NEW new, RowOK(new), new.claims = 0
    PROVE  Rewrites(row, new)
  BY DEF Rewrites, RowAges, RowOK, Terminal

\* A producer inserts one row that fits.
LEMMA InsertIsQuiet ==
    ASSUME OInv, NEW r \in Rows, NEW new, Insert(r, new), RowOK(new), new.claims = 0,
           new.status = "PENDING", RowFits(new, conv', handoffs', evidence')
    PROVE  QuietRows
  <1>1. outbox \in [Rows -> Row] /\ \A q \in Rows : RowOK(outbox[q])
    BY DEF OInv, OTypeOK, RowsOK
  <1>2. outbox[r].status = "ABSENT" /\ outbox' = [outbox EXCEPT ![r] = new]
    BY DEF Insert, FreshRow
  <1>3. new \in Row
    BY DEF RowOK
  <1>4. \A q \in Rows : outbox'[q] = IF q = r THEN new ELSE outbox[q]
    BY <1>1, <1>2
  <1>5. \A q \in Rows : Rewrites(outbox[q], outbox'[q])
    BY <1>1, <1>2, <1>4, SameRowAges, InsertedRewrites DEF Rewrites
  <1>6. InOrder'
    <2> SUFFICES ASSUME NEW p \in Rows, NEW q \in Rows, p < q, outbox'[p].status = "ABSENT"
                 PROVE  outbox'[q].status = "ABSENT"
      BY DEF InOrder
    <2>1. p # r /\ outbox[p].status = "ABSENT"
      BY <1>4
    <2>2. q # r
      BY <2>1 DEF Insert, FreshRow
    <2> QED
      BY <1>4, <2>1, <2>2 DEF OInv, InOrder
  <1> QED
    BY <1>1, <1>2, <1>3, <1>4, <1>5, <1>6 DEF QuietRows

\* A row that ages still fits, whatever happened to its conversation, case or receipt.
LEMMA AgedRowFits ==
    ASSUME HTypeOK, [HNext]_hvars, NEW row \in Row, NEW row2, row.status # "ABSENT",
           RowAges(row, row2), RowFits(row, conv, handoffs, evidence)
    PROVE  RowFits(row2, conv', handoffs', evidence')
  <1>1. /\ row2.conv = row.conv /\ row2.epoch = row.epoch
        /\ row2.case = row.case /\ row2.ev = row.ev
        /\ row2.origin = row.origin \/ row2.origin = "HUMAN_REPLY"
    BY DEF RowAges
  <1>2. row.conv \in Conversations /\ row.epoch \in Nat
    BY DEF Row
  <1>3. conv[row.conv].epoch \in Nat /\ conv'[row.conv].epoch \in Nat
        /\ conv[row.conv].epoch <= conv'[row.conv].epoch
    BY <1>2, EpochsGrow
  <1>4. CasesAge(handoffs, handoffs')
    BY CasesAgeStep
  <1>5. row.origin \in {"AUTO", "HANDOFF_NOTICE"} => row.epoch <= conv'[row.conv].epoch
    BY <1>2, <1>3 DEF RowFits
  <1>6. row.origin = "PAYMENT_REVIEW_RESULT" =>
          row.ev \in Evidence /\ evidence'[row.ev].status \notin {"NONE", "PENDING_REVIEW"}
    BY DecidedStaysDecided DEF RowFits
  <1>7. row.origin = "PAYMENT_EVIDENCE_ACK" =>
          row.case \in CaseIds /\ handoffs'[row.case].status # "NONE"
    BY <1>4 DEF RowFits, CasesAge
  <1> QED
    BY <1>1, <1>5, <1>6, <1>7 DEF RowFits

\* An absent row fits anything.
LEMMA AbsentRowFits ==
    ASSUME NEW row, RowOK(row), row.status = "ABSENT", NEW cv, NEW hs, NEW ev
    PROVE  RowFits(row, cv, hs, ev)
  BY DEF RowOK, RowFits

\* What quiet steps keep of the rows.
LEMMA QuietRowsKeep ==
    ASSUME OInv, [HNext]_hvars, QuietRows, delivered \subseteq delivered'
    PROVE  RowsOK' /\ RowsFit' /\ TextsFirst' /\ InOrder' /\ SentByItsOwnClaim'
  <1>0. outbox \in [Rows -> Row] /\ HTypeOK
    BY DEF OInv, OTypeOK
  <1>1. RowsOK'
    BY DEF QuietRows, Rewrites, RowsOK
  <1>2. RowsFit'
    <2> SUFFICES ASSUME NEW r \in Rows PROVE RowFits(outbox'[r], conv', handoffs', evidence')
      BY DEF RowsFit
    <2>1. RowOK(outbox[r]) /\ RowFits(outbox[r], conv, handoffs, evidence)
      BY DEF OInv, RowsOK, RowsFit
    <2>2. RowAges(outbox[r], outbox'[r])
      BY DEF QuietRows, Rewrites
    <2>3. CASE outbox[r].status # "ABSENT"
      BY <1>0, <2>1, <2>2, <2>3, AgedRowFits
    <2>4. CASE outbox[r].status = "ABSENT" /\ outbox'[r] # outbox[r]
      BY <2>4 DEF QuietRows
    <2>5. CASE outbox[r].status = "ABSENT" /\ outbox'[r] = outbox[r]
      BY <2>1, <2>5, AbsentRowFits
    <2> QED
      BY <2>3, <2>4, <2>5
  <1>3. TextsFirst'
    <2> SUFFICES ASSUME NEW r \in Rows, outbox'[r].after # 0, outbox'[r].claims # 0
                 PROVE  outbox'[outbox'[r].after].status = "SENT"
      BY DEF TextsFirst
    <2>1. outbox[r].claims # 0 /\ outbox[r].status # "ABSENT" /\ RowOK(outbox[r])
      BY DEF QuietRows, Rewrites, RowOK, OInv, RowsOK
    <2>2. outbox'[r].after = outbox[r].after
      BY <2>1 DEF QuietRows, Rewrites, RowAges
    <2>3. outbox[r].after \in Rows
      BY <1>0, <2>2 DEF Row
    <2>4. outbox[outbox[r].after].status = "SENT"
      BY <2>1, <2>2 DEF OInv, TextsFirst
    <2>5. outbox'[outbox[r].after] = outbox[outbox[r].after]
      BY <2>3, <2>4 DEF QuietRows, Rewrites, RowAges, Terminal
    <2> QED
      BY <2>2, <2>4, <2>5
  <1>4. SentByItsOwnClaim'
    <2> SUFFICES ASSUME NEW r \in Rows, outbox'[r].status = "SENT"
                 PROVE  <<r, outbox'[r].claims>> \in delivered'
      BY DEF SentByItsOwnClaim
    <2>1. outbox'[r].claims = outbox[r].claims
      BY DEF QuietRows, Rewrites
    <2>2. <<r, outbox[r].claims>> \in delivered
      BY DEF QuietRows, OInv, SentByItsOwnClaim
    <2> QED
      BY <2>1, <2>2
  <1> QED
    BY <1>1, <1>2, <1>3, <1>4 DEF QuietRows

(***************************************************************************)
(* Claims under ageing rows                                                *)
(***************************************************************************)
TableAges(ob, ob2) == \A r \in Rows : RowOK(ob[r]) /\ RowAges(ob[r], ob2[r])

\* Quiet steps age every row.
LEMMA QuietAges == OInv /\ QuietRows => TableAges(outbox, outbox')
  BY DEF OInv, QuietRows, TableAges, RowsOK, Rewrites

\* A token once drawn stays drawn, and its row is there.
LEMMA DrawnStays ==
    ASSUME NEW ob, NEW ob2, TableAges(ob, ob2), NEW r \in Rows, NEW t \in Tokens,
           Drawn(ob, r, t), ob2[r].claims \in Nat
    PROVE  /\ Drawn(ob2, r, t) /\ ob[r].status # "ABSENT"
           /\ ob2[r].kind = ob[r].kind
           /\ ob[r].phase # "NONE" => ob2[r].phase # "NONE"
  <1>1. ob[r].claims \in Nat /\ t \in Nat
    BY OutboxAssumption DEF TableAges, RowOK, Row, Tokens
  <1>2. ob[r].claims # 0
    BY <1>1 DEF Drawn
  <1>3. ob[r].status # "ABSENT"
    BY <1>2 DEF TableAges, RowOK
  <1>4. RowAges(ob[r], ob2[r])
    BY DEF TableAges
  <1>5. Drawn(ob2, r, t)
    BY <1>1, <1>4 DEF Drawn, RowAges
  <1> QED
    BY <1>3, <1>4, <1>5 DEF RowAges

\* A job keeps its place when rows age and other claims are delivered.
LEMMA JobAges ==
    ASSUME NEW ob, NEW ob2 \in [Rows -> Row], TableAges(ob, ob2), NEW j \in Job, NEW dl, NEW dl2,
           JobOK(j, ob, dl), dl \subseteq dl2,
           j.pc \in Unsent => <<j.row, j.token>> \notin dl2
    PROVE  JobOK(j, ob2, dl2)
  <1> SUFFICES ASSUME j.pc # "idle" PROVE JobOK(j, ob2, dl2)
    BY DEF JobOK
  <1>1. Drawn(ob, j.row, j.token) /\ j.row \in Rows /\ j.token \in Tokens
    BY DEF JobOK, Drawn, Job
  <1>2. ob2[j.row].claims \in Nat
    BY <1>1, OutboxAssumption DEF Row, Tokens
  <1>3. /\ Drawn(ob2, j.row, j.token) /\ ob2[j.row].kind = ob[j.row].kind
        /\ ob[j.row].phase # "NONE" => ob2[j.row].phase # "NONE"
    BY <1>1, <1>2, DrawnStays
  <1> QED
    BY <1>3 DEF JobOK

\* So does a batch that waits.
LEMMA BatchAges ==
    ASSUME NEW ob, NEW ob2 \in [Rows -> Row], TableAges(ob, ob2), NEW b \in SUBSET Claim,
           NEW dl, NEW dl2, BatchOK(b, ob, dl), \A k \in b : <<k.row, k.token>> \notin dl2
    PROVE  BatchOK(b, ob2, dl2)
  <1> SUFFICES ASSUME NEW k \in b PROVE Drawn(ob2, k.row, k.token)
    BY DEF BatchOK
  <1>1. Drawn(ob, k.row, k.token) /\ k.row \in Rows /\ k.token \in Tokens
    BY DEF BatchOK, Claim
  <1>2. ob2[k.row].claims \in Nat
    BY <1>1, OutboxAssumption DEF Row, Tokens
  <1> QED
    BY <1>1, <1>2, DrawnStays

\* What was delivered stays accounted for.
LEMMA LogAges ==
    ASSUME OInv, TableAges(outbox, outbox'), outbox' \in [Rows -> Row], UNCHANGED delivered
    PROVE  LogOK'
  <1> SUFFICES ASSUME NEW r \in Rows, NEW t \in Tokens, <<r, t>> \in delivered
               PROVE  Drawn(outbox', r, t) /\ outbox'[r].phase # "NONE"
    BY DEF LogOK, Drawn
  <1>1. Drawn(outbox, r, t) /\ outbox[r].phase # "NONE"
    BY DEF OInv, LogOK
  <1>2. outbox'[r].claims \in Nat
    BY OutboxAssumption DEF Row, Tokens
  <1> QED
    BY <1>1, <1>2, DrawnStays

\* What is proved of every step.
KeptStep == OInv' /\ TableAges(outbox, outbox')

\* Claims that are dropped or carried on keep one holder each.
CarriesOn(j, j2) ==
    j2.pc = "idle" \/ (j.pc # "idle" /\ j2.row = j.row /\ j2.token = j.token)

\* No holder appears where claims are only dropped or carried on.
LEMMA HoldersShrink ==
    ASSUME OneHolder, \A w \in Workers : batch'[w] \subseteq batch[w] /\ CarriesOn(job[w], job'[w])
    PROVE  OneHolder'
  BY DEF OneHolder, CarriesOn, Working

\* A step that draws no token and delivers nothing keeps the invariant, if the job it leaves
\* with a worker is in order.
LEMMA QuietStep ==
    ASSUME OInv, [HNext]_hvars, QuietRows, UNCHANGED delivered,
           batch' \in [Workers -> SUBSET Claim], job' \in [Workers -> Job],
           \A w \in Workers :
              /\ batch'[w] \subseteq batch[w]
              /\ CarriesOn(job[w], job'[w])
              /\ job'[w] = job[w] \/ JobOK(job'[w], outbox', delivered')
    PROVE  KeptStep
  <1>1. HTypeOK'
    BY HTypeNext DEF OInv
  <1>2. OTypeOK'
    BY DEF QuietRows, OInv, OTypeOK
  <1>3. RowsOK' /\ RowsFit' /\ TextsFirst' /\ InOrder' /\ SentByItsOwnClaim'
    BY QuietRowsKeep
  <1>4. TableAges(outbox, outbox') /\ outbox' \in [Rows -> Row]
    BY QuietAges DEF QuietRows
  <1>5. JobsOK'
    <2> SUFFICES ASSUME NEW w \in Workers PROVE JobOK(job'[w], outbox', delivered')
      BY DEF JobsOK
    <2>1. CASE job'[w] = job[w]
      <3>1. job[w] \in Job /\ JobOK(job[w], outbox, delivered)
        BY DEF OInv, OTypeOK, JobsOK
      <3>2. job[w].pc \in Unsent => <<job[w].row, job[w].token>> \notin delivered
        BY <3>1 DEF JobOK, Unsent
      <3>3. JobOK(job[w], outbox', delivered)
        BY <1>4, <3>1, <3>2, JobAges
      <3> QED
        BY <2>1, <3>3
    <2> QED
      BY <2>1
  <1>6. BatchesOK'
    <2> SUFFICES ASSUME NEW w \in Workers PROVE BatchOK(batch'[w], outbox', delivered)
      BY DEF BatchesOK
    <2>1. batch'[w] \in SUBSET Claim /\ BatchOK(batch[w], outbox, delivered)
      BY DEF OInv, BatchesOK
    <2>2. BatchOK(batch'[w], outbox, delivered)
          /\ \A k \in batch'[w] : <<k.row, k.token>> \notin delivered
      BY <2>1 DEF BatchOK
    <2> QED
      BY <1>4, <2>1, <2>2, BatchAges
  <1>7. LogOK'
    BY <1>4, LogAges
  <1>8. OneHolder'
    BY HoldersShrink DEF OInv
  <1> QED
    BY <1>1, <1>2, <1>3, <1>4, <1>5, <1>6, <1>7, <1>8 DEF OInv, KeptStep

\* Steps that leave the workers alone.
LEMMA TableStep ==
    ASSUME OInv, [HNext]_hvars, QuietRows, UNCHANGED <<batch, job, delivered>>
    PROVE  KeptStep
  <1>1. batch \in [Workers -> SUBSET Claim] /\ job \in [Workers -> Job]
    BY DEF OInv, OTypeOK
  <1>2. \A w \in Workers : CarriesOn(job[w], job[w])
    BY DEF CarriesOn
  <1> QED
    BY <1>1, <1>2, QuietStep

\* Steps of one worker on the claim it is processing.
LEMMA JobStep ==
    ASSUME OInv, UNCHANGED hvars, QuietRows, UNCHANGED <<batch, delivered>>,
           NEW w \in Workers, NEW j \in Job, job' = [job EXCEPT ![w] = j],
           CarriesOn(job[w], j), JobOK(j, outbox', delivered)
    PROVE  KeptStep
  <1>1. batch \in [Workers -> SUBSET Claim] /\ job \in [Workers -> Job]
    BY DEF OInv, OTypeOK
  <1>2. job' \in [Workers -> Job] /\ \A v \in Workers : job'[v] = IF v = w THEN j ELSE job[v]
    BY <1>1
  <1>3. \A v \in Workers : CarriesOn(job[v], job[v])
    BY DEF CarriesOn
  <1>4. \A v \in Workers :
          /\ batch'[v] \subseteq batch[v]
          /\ CarriesOn(job[v], job'[v])
          /\ job'[v] = job[v] \/ JobOK(job'[v], outbox', delivered')
    BY <1>2, <1>3
  <1> QED
    BY <1>1, <1>2, <1>4, QuietStep

\* The step finishes the claim ...
LEMMA FinishStep ==
    ASSUME OInv, UNCHANGED hvars, QuietRows, UNCHANGED <<batch, delivered>>,
           NEW w \in Workers, Finish(w)
    PROVE  KeptStep
  <1>1. IdleJob \in Job
    BY OutboxAssumption DEF IdleJob, Job, Steps, Tokens
  <1>2. CarriesOn(job[w], IdleJob) /\ JobOK(IdleJob, outbox', delivered)
    BY DEF CarriesOn, JobOK, IdleJob
  <1> QED
    BY <1>1, <1>2, JobStep DEF Finish

\* ... or moves it on.
LEMMA GotoStep ==
    ASSUME OInv, UNCHANGED hvars, QuietRows, UNCHANGED <<batch, delivered>>,
           NEW w \in Workers, job[w].pc # "idle", NEW j \in Job,
           j.row = job[w].row, j.token = job[w].token,
           job' = [job EXCEPT ![w] = j],
           j.pc \in Unsent => job[w].pc \in Unsent,
           j.pc # "ok",
           j.pc \in ForDocuments => outbox[job[w].row].kind = "DOCUMENT",
           j.pc = "send" => outbox'[job[w].row].phase # "NONE"
    PROVE  KeptStep
  <1>1. job[w] \in Job /\ JobOK(job[w], outbox, delivered)
    BY DEF OInv, OTypeOK, JobsOK
  <1>2. CarriesOn(job[w], j)
    BY DEF CarriesOn
  <1>3. PICK r : r = job[w].row
    OBVIOUS
  <1>4. PICK t : t = job[w].token
    OBVIOUS
  <1>5. r \in Rows /\ t \in Tokens /\ Drawn(outbox, r, t)
    BY <1>1, <1>3, <1>4 DEF JobOK, Job, Drawn
  <1>6. TableAges(outbox, outbox') /\ outbox' \in [Rows -> Row]
    BY QuietAges DEF QuietRows
  <1>7. outbox'[r].claims \in Nat
    BY <1>5, <1>6, OutboxAssumption DEF Row, Tokens
  <1>8. Drawn(outbox', r, t) /\ outbox'[r].kind = outbox[r].kind
    BY <1>5, <1>6, <1>7, DrawnStays
  <1>9. j.pc \in Unsent => <<r, t>> \notin delivered
    BY <1>1, <1>3, <1>4 DEF JobOK
  <1>10. JobOK(j, outbox', delivered)
    BY <1>3, <1>4, <1>8, <1>9 DEF JobOK
  <1> QED
    BY <1>2, <1>10, JobStep

(***************************************************************************)
(* The steps of a claim                                                    *)
(***************************************************************************)

\* What Goto writes.
LEMMA GotoWrites ==
    ASSUME OInv, NEW w \in Workers, NEW pc \in Steps, Goto(w, pc)
    PROVE  \E j \in Job : /\ j.pc = pc /\ j.row = job[w].row /\ j.token = job[w].token
                          /\ job' = [job EXCEPT ![w] = j]
  <1>1. job \in [Workers -> Job] /\ job[w] \in Job
    BY DEF OInv, OTypeOK
  <1>2. PICK j : j = [job[w] EXCEPT !.pc = pc]
    OBVIOUS
  <1>3. j \in Job /\ j.pc = pc /\ j.row = job[w].row /\ j.token = job[w].token
    BY <1>1, <1>2 DEF Job
  <1>4. job' = [job EXCEPT ![w] = j]
    BY <1>1, <1>2 DEF Goto
  <1> QED
    BY <1>3, <1>4

\* Moving a claim on without writing the outbox.
LEMMA PlainGoto ==
    ASSUME OInv, UNCHANGED <<hvars, outbox, batch, delivered>>, NEW w \in Workers,
           job[w].pc # "idle", NEW pc \in Steps \ {"idle", "ok", "send"}, Goto(w, pc),
           pc \in Unsent => job[w].pc \in Unsent,
           pc \in ForDocuments => outbox[job[w].row].kind = "DOCUMENT"
    PROVE  KeptStep
  <1>1. QuietRows
    BY UntouchedIsQuiet
  <1>2. PICK j \in Job : /\ j.pc = pc /\ j.row = job[w].row /\ j.token = job[w].token
                         /\ job' = [job EXCEPT ![w] = j]
    BY GotoWrites
  <1> QED
    BY <1>1, <1>2, GotoStep

\* The row a worker owns.
LEMMA OwnedRow ==
    ASSUME OInv, NEW w \in Workers, job[w].pc # "idle", Owns(w)
    PROVE  /\ job[w].row \in Rows
           /\ RowOK(outbox[job[w].row])
           /\ RowFits(outbox[job[w].row], conv, handoffs, evidence)
           /\ outbox[job[w].row].status = "SENDING"
           /\ outbox[job[w].row].claims = job[w].token
  <1>1. JobOK(job[w], outbox, delivered)
    BY DEF OInv, JobsOK
  <1>2. job[w].row \in Rows
    BY <1>1 DEF JobOK, Drawn
  <1>3. RowOK(outbox[job[w].row]) /\ RowFits(outbox[job[w].row], conv, handoffs, evidence)
    BY <1>2 DEF OInv, RowsOK, RowsFit
  <1> QED
    BY <1>2, <1>3 DEF Owns, RowOK

\* check_outbox and admit_outbox discard a claim that is not current.
LEMMA DiscardStep == ASSUME OInv, NEW w \in Workers, Discard(w) PROVE KeptStep
  BY UntouchedIsQuiet, FinishStep DEF Discard

\* They stop output that is not eligible any more; a person's output always is.
LEMMA StopStep == ASSUME OInv, NEW w \in Workers, Stop(w) PROVE KeptStep
  <1>1. PICK r : r = job[w].row
    OBVIOUS
  <1>2. /\ job[w].pc # "idle" /\ Owns(w) /\ ~Eligible(outbox[r])
        /\ outbox' = [outbox EXCEPT ![r] = StopDelivery(outbox[r], Verdict(outbox[r]))]
        /\ Finish(w) /\ UNCHANGED <<hvars, batch, delivered>>
    BY <1>1 DEF Stop, Write
  <1>3. /\ r \in Rows /\ RowOK(outbox[r]) /\ outbox[r].status = "SENDING"
        /\ RowFits(outbox[r], conv, handoffs, evidence)
    BY <1>1, <1>2, OwnedRow
  <1>4. outbox[r].origin \notin {"HUMAN_REPLY", "PAYMENT_REVIEW_RESULT"}
    BY <1>2, <1>3, HumanIsEligible
  <1>5. Verdict(outbox[r]) \in {"SUPPRESSED", "REVIEW"}
    BY <1>2 DEF Verdict
  <1>6. PICK new : new = StopDelivery(outbox[r], Verdict(outbox[r]))
    OBVIOUS
  <1>7. Rewrites(outbox[r], new)
    BY <1>3, <1>4, <1>5, <1>6, StopDeliveryOK
  <1>8. new.status # "SENT"
    BY <1>3, <1>5, <1>6 DEF StopDelivery, RowOK, Row
  <1>9. QuietRows
    BY <1>2, <1>3, <1>6, <1>7, <1>8, OneRowIsQuiet
  <1> QED
    BY <1>2, <1>9, FinishStep

\* check_outbox keeps the claim and notes whose output it is.
LEMMA CheckStep == ASSUME OInv, NEW w \in Workers, Check(w) PROVE KeptStep
  <1>1. PICK r : r = job[w].row
    OBVIOUS
  <1>2. /\ job[w].pc = "check" /\ Owns(w)
        /\ outbox' = [outbox EXCEPT ![r] = Adopt(outbox[r])]
        /\ Goto(w, "resolve") /\ UNCHANGED <<hvars, batch, delivered>>
    BY <1>1 DEF Check, Write
  <1>3. r \in Rows /\ RowOK(outbox[r]) /\ outbox[r].status = "SENDING"
    BY <1>1, <1>2, OwnedRow
  <1>4. PICK new : new = Adopt(outbox[r])
    OBVIOUS
  <1>5. PICK o \in Origin :
          /\ new = [outbox[r] EXCEPT !.origin = o]
          /\ o = outbox[r].origin
             \/ (outbox[r].origin = "NONE" /\ outbox[r].proof /\ o = "HUMAN_REPLY")
    BY <1>3, <1>4, AdoptWrites
  <1>6. /\ new = [outbox[r] EXCEPT !.origin = o, !.phase = outbox[r].phase]
        /\ outbox[r].phase \in Phase \ {"SENT"}
        /\ outbox[r].phase = "REJECTED_MEDIA" => outbox[r].kind = "DOCUMENT"
    BY <1>3, <1>5 DEF RowOK, Row
  <1>7. Rewrites(outbox[r], new) /\ new.status = "SENDING"
    <2>1. Judged(outbox[r], new, outbox[r].phase)
      BY <1>5, <1>6, Zenon DEF Judged
    <2> QED
      BY <1>3, <1>6, <2>1, PhaseOK
  <1>8. QuietRows
    BY <1>2, <1>3, <1>4, <1>7, OneRowIsQuiet
  <1>9. outbox[r].kind = "DOCUMENT"
    BY <1>1, <1>2 DEF OInv, JobsOK, JobOK, ForDocuments
  <1>10. PICK j \in Job : /\ j.pc = "resolve" /\ j.row = job[w].row
                          /\ j.token = job[w].token /\ job' = [job EXCEPT ![w] = j]
    BY <1>2, GotoWrites DEF Steps
  <1> QED
    BY <1>1, <1>2, <1>8, <1>9, <1>10, GotoStep DEF Unsent

\* admit_outbox records the admission before the provider is called.
LEMMA AdmitStep == ASSUME OInv, NEW w \in Workers, Admit(w) PROVE KeptStep
  <1>1. PICK r : r = job[w].row
    OBVIOUS
  <1>2. /\ job[w].pc = "admit" /\ Owns(w)
        /\ outbox' = [outbox EXCEPT ![r] = [Adopt(outbox[r]) EXCEPT !.phase = "ADMITTED"]]
        /\ Goto(w, "send") /\ UNCHANGED <<hvars, batch, delivered>>
    BY <1>1 DEF Admit, Write
  <1>3. r \in Rows /\ RowOK(outbox[r]) /\ outbox[r].status = "SENDING" /\ outbox \in [Rows -> Row]
    BY <1>1, <1>2, OwnedRow DEF OInv, OTypeOK
  <1>4. PICK new : new = [Adopt(outbox[r]) EXCEPT !.phase = "ADMITTED"]
    OBVIOUS
  <1>5. Rewrites(outbox[r], new) /\ new.status = "SENDING" /\ new.phase = "ADMITTED"
    <2>1. PICK o \in Origin :
            /\ Adopt(outbox[r]) = [outbox[r] EXCEPT !.origin = o]
            /\ o = outbox[r].origin
               \/ (outbox[r].origin = "NONE" /\ outbox[r].proof /\ o = "HUMAN_REPLY")
      BY <1>3, AdoptWrites
    <2>2. new = [outbox[r] EXCEPT !.origin = o, !.phase = "ADMITTED"]
      BY <1>4, <2>1
    <2>3. Judged(outbox[r], new, "ADMITTED")
      BY <2>1, <2>2, Zenon DEF Judged
    <2> QED
      BY <1>3, <2>3, PhaseOK DEF Phase
  <1>6. QuietRows
    BY <1>2, <1>3, <1>4, <1>5, OneRowIsQuiet
  <1>7. outbox'[r].phase # "NONE"
    BY <1>2, <1>3, <1>4, <1>5
  <1>8. PICK j \in Job : /\ j.pc = "send" /\ j.row = job[w].row
                         /\ j.token = job[w].token /\ job' = [job EXCEPT ![w] = j]
    BY <1>2, GotoWrites DEF Steps
  <1> QED
    BY <1>1, <1>2, <1>6, <1>7, <1>8, GotoStep DEF Unsent, ForDocuments

\* Preparation, uploads and refusals move the claim on.
LEMMA PlainSteps ==
    ASSUME OInv, NEW w \in Workers,
           PreparationFails(w) \/ Resolve(w) \/ SendRejected(w) \/ SendInvalidMedia(w)
    PROVE  KeptStep
  <1>1. JobOK(job[w], outbox, delivered)
    BY DEF OInv, JobsOK
  <1>2. CASE PreparationFails(w) \/ SendRejected(w)
    BY <1>2, PlainGoto DEF PreparationFails, SendRejected, Steps, Unsent, ForDocuments
  <1>3. CASE Resolve(w)
    BY <1>1, <1>3, PlainGoto DEF Resolve, Steps, Unsent, ForDocuments, JobOK
  <1>4. CASE SendInvalidMedia(w)
    BY <1>4, PlainGoto DEF SendInvalidMedia, Steps, Unsent
  <1> QED
    BY <1>2, <1>3, <1>4

\* The provider refused the media: the claim goes back to the check, once.
LEMMA RejectMediaStep == ASSUME OInv, NEW w \in Workers, RejectMedia(w) PROVE KeptStep
  <1>1. CASE ~Owns(w)
    BY <1>1, UntouchedIsQuiet, FinishStep DEF RejectMedia
  <1>2. CASE Owns(w)
    <2>1. PICK r : r = job[w].row
      OBVIOUS
    <2>2. /\ job[w].pc = "reject"
          /\ outbox' = [outbox EXCEPT ![r] = [outbox[r] EXCEPT !.phase = "REJECTED_MEDIA"]]
          /\ job' = [job EXCEPT ![w].pc = "check", ![w].retry = TRUE]
          /\ UNCHANGED <<hvars, batch, delivered>>
      BY <1>2, <2>1 DEF RejectMedia, Write
    <2>3. r \in Rows /\ RowOK(outbox[r]) /\ outbox[r].status = "SENDING"
      BY <1>2, <2>1, <2>2, OwnedRow
    <2>4. outbox[r].kind = "DOCUMENT"
      BY <2>1, <2>2 DEF OInv, JobsOK, JobOK, ForDocuments
    <2>5. PICK new : new = [outbox[r] EXCEPT !.phase = "REJECTED_MEDIA"]
      OBVIOUS
    <2>6. Rewrites(outbox[r], new) /\ new.status = "SENDING"
      <3>1. new = [outbox[r] EXCEPT !.origin = outbox[r].origin, !.phase = "REJECTED_MEDIA"]
            /\ outbox[r].origin \in Origin
        BY <2>3, <2>5 DEF RowOK, Row
      <3>2. Judged(outbox[r], new, "REJECTED_MEDIA")
        BY <3>1, Zenon DEF Judged
      <3> QED
        BY <2>3, <2>4, <3>2, PhaseOK DEF Phase
    <2>7. QuietRows
      BY <2>2, <2>3, <2>5, <2>6, OneRowIsQuiet
    <2>8. job \in [Workers -> Job] /\ job[w] \in Job
      BY DEF OInv, OTypeOK
    <2>9. PICK j : j = [job[w] EXCEPT !.pc = "check", !.retry = TRUE]
      OBVIOUS
    <2>10. j \in Job /\ j.pc = "check" /\ j.row = job[w].row /\ j.token = job[w].token
      BY <2>8, <2>9 DEF Job, Steps
    <2>11. job' = [job EXCEPT ![w] = j]
      BY <2>2, <2>8, <2>9
    <2> QED
      BY <2>1, <2>2, <2>4, <2>7, <2>10, <2>11, GotoStep DEF Unsent
  <1> QED
    BY <1>1, <1>2

\* Settlements.
LEMMA SettleStep ==
    ASSUME OInv, NEW w \in Workers, SettleSuccess(w) \/ SettleFailure(w) \/ SettleRaises(w)
    PROVE  KeptStep
  <1> DEFINE r == job[w].row
  <1>1. CASE UNCHANGED outbox
    BY <1>1, UntouchedIsQuiet, FinishStep DEF SettleSuccess, SettleFailure, SettleRaises
  <1>2. CASE SettleSuccess(w) /\ Owns(w)
    <2>1. PICK new : new = [outbox[r] EXCEPT !.status = "SENT", !.phase = "SENT", !.token = 0]
      OBVIOUS
    <2>2. /\ job[w].pc = "ok" /\ outbox' = [outbox EXCEPT ![r] = new]
          /\ Finish(w) /\ UNCHANGED <<hvars, batch, delivered>>
      BY <1>2, <2>1 DEF SettleSuccess, Write
    <2>3. /\ r \in Rows /\ RowOK(outbox[r]) /\ outbox[r].status = "SENDING"
          /\ outbox[r].claims = job[w].token
      BY <1>2, <2>2, OwnedRow
    <2>4. <<r, job[w].token>> \in delivered
      BY <2>2 DEF OInv, JobsOK, JobOK
    <2>5. Rewrites(outbox[r], new)
      BY <2>1, <2>3, SentOK
    <2>6. QuietRows
      BY <2>2, <2>3, <2>4, <2>5, OneRowIsQuiet
    <2> QED
      BY <2>2, <2>6, FinishStep
  <1>3. CASE SettleFailure(w) /\ Owns(w)
    <2>1. PICK new : new = MarkFailure(outbox[r], job[w].pc = "perm")
      OBVIOUS
    <2>2. /\ job[w].pc \in {"err", "perm"} /\ outbox' = [outbox EXCEPT ![r] = new]
          /\ Finish(w) /\ UNCHANGED <<hvars, batch, delivered>>
      BY <1>3, <2>1 DEF SettleFailure, Write
    <2>3. /\ r \in Rows /\ RowOK(outbox[r]) /\ outbox[r].status = "SENDING"
          /\ RowFits(outbox[r], conv, handoffs, evidence)
      BY <1>3, <2>2, OwnedRow
    <2>4. job[w].pc = "perm" => outbox[r].kind = "DOCUMENT"
      BY DEF OInv, JobsOK, JobOK, ForDocuments
    <2>5. Rewrites(outbox[r], new) /\ new.status # "SENT"
      <3>1. (job[w].pc = "perm") \in BOOLEAN
        OBVIOUS
      <3> QED
        BY <2>1, <2>3, <2>4, <3>1, MarkFailureOK
    <2>6. QuietRows
      BY <2>2, <2>3, <2>5, OneRowIsQuiet
    <2> QED
      BY <2>2, <2>6, FinishStep
  <1> QED
    BY <1>1, <1>2, <1>3 DEF SettleSuccess, SettleFailure, SettleRaises

\* The reaper gives back a row whose claim is stale.
LEMMA RecoverStep == ASSUME OInv, NEW r \in Rows, Recover(r) PROVE KeptStep
  <1>1. PICK new : new = MarkFailure(outbox[r], FALSE)
    OBVIOUS
  <1>2. /\ outbox[r].status = "SENDING" /\ outbox' = [outbox EXCEPT ![r] = new]
        /\ UNCHANGED <<hvars, batch, job, delivered>>
    BY <1>1 DEF Recover, OInv, OTypeOK
  <1>3. RowOK(outbox[r]) /\ RowFits(outbox[r], conv, handoffs, evidence)
    BY DEF OInv, RowsOK, RowsFit
  <1>4. Rewrites(outbox[r], new) /\ new.status # "SENT"
    BY <1>1, <1>2, <1>3, MarkFailureOK
  <1>5. QuietRows
    BY <1>2, <1>4, OneRowIsQuiet
  <1> QED
    BY <1>2, <1>5, TableStep

\* A worker process stops: its claims are dropped.
LEMMA CrashStep == ASSUME OInv, NEW w \in Workers, Crash(w) PROVE KeptStep
  <1>1. batch \in [Workers -> SUBSET Claim] /\ job \in [Workers -> Job] /\ IdleJob \in Job
    BY OutboxAssumption DEF OInv, OTypeOK, IdleJob, Job, Steps, Tokens
  <1>2. batch' \in [Workers -> SUBSET Claim] /\ job' \in [Workers -> Job]
    BY <1>1 DEF Crash
  <1>3. \A v \in Workers :
          /\ batch'[v] \subseteq batch[v]
          /\ job'[v] = IF v = w THEN IdleJob ELSE job[v]
    BY <1>1 DEF Crash
  <1>4. \A v \in Workers :
          /\ CarriesOn(job[v], job'[v])
          /\ job'[v] = job[v] \/ JobOK(job'[v], outbox', delivered')
    BY <1>3 DEF CarriesOn, JobOK, IdleJob
  <1>5. QuietRows /\ UNCHANGED <<hvars, delivered>>
    BY UntouchedIsQuiet DEF Crash
  <1> QED
    BY <1>2, <1>3, <1>4, <1>5, QuietStep

\* The provider accepts the call: the claim is delivered, and nobody else holds it.
LEMMA SendAcceptedStep == ASSUME OInv, NEW w \in Workers, SendAccepted(w) PROVE KeptStep
  <1>1. PICK r : r = job[w].row
    OBVIOUS
  <1>2. PICK t : t = job[w].token
    OBVIOUS
  <1>3. /\ job[w].pc = "send" /\ delivered' = delivered \cup {<<r, t>>}
        /\ Goto(w, "ok") \/ Goto(w, "err")
        /\ UNCHANGED <<hvars, outbox, batch>>
    BY <1>1, <1>2 DEF SendAccepted
  <1>4. /\ job \in [Workers -> Job] /\ batch \in [Workers -> SUBSET Claim]
        /\ outbox \in [Rows -> Row] /\ delivered \in SUBSET (Rows \X Tokens)
        /\ job[w] \in Job /\ JobOK(job[w], outbox, delivered)
    BY DEF OInv, OTypeOK, JobsOK
  <1>5. r \in Rows /\ t \in Tokens /\ Drawn(outbox, r, t) /\ outbox[r].phase # "NONE"
    BY <1>1, <1>2, <1>3, <1>4 DEF JobOK, Drawn, Job
  <1>6. PICK j \in Job : /\ j.pc \in {"ok", "err"} /\ j.row = r /\ j.token = t
                         /\ job' = [job EXCEPT ![w] = j]
    BY <1>1, <1>2, <1>3, GotoWrites DEF Steps
  <1>7. \A v \in Workers : job'[v] = IF v = w THEN j ELSE job[v]
    BY <1>4, <1>6
  <1>8. QuietRows /\ TableAges(outbox, outbox')
    BY <1>3, UntouchedIsQuiet, QuietAges
  <1>9. HTypeOK'
    BY <1>3 DEF OInv, HTypeOK, hvars
  <1>10. OTypeOK'
    <2>1. job' \in [Workers -> Job]
      BY <1>4, <1>6
    <2>2. delivered' \in SUBSET (Rows \X Tokens)
      BY <1>3, <1>4, <1>5
    <2> QED
      BY <1>3, <1>4, <2>1, <2>2 DEF OTypeOK
  <1>11. RowsOK' /\ RowsFit' /\ TextsFirst' /\ InOrder' /\ SentByItsOwnClaim'
    <2>1. delivered \subseteq delivered' /\ [HNext]_hvars
      BY <1>3
    <2> QED
      BY <1>8, <2>1, QuietRowsKeep
  <1>12. \A v \in Workers : v # w => ~Working(job[v], r, t)
    BY <1>1, <1>2, <1>3 DEF OInv, OneHolder
  <1>13. \A v \in Workers : \A k \in batch[v] : <<k.row, k.token>> # <<r, t>>
    BY <1>1, <1>2, <1>3 DEF OInv, OneHolder, Working
  <1>14. JobsOK'
    <2> SUFFICES ASSUME NEW v \in Workers PROVE JobOK(job'[v], outbox', delivered')
      BY DEF JobsOK
    <2>1. CASE v = w
      <3>1. JobOK(j, outbox, delivered')
        BY <1>3, <1>5, <1>6 DEF JobOK, Unsent, ForDocuments
      <3> QED
        BY <1>3, <1>7, <2>1, <3>1
    <2>2. CASE v # w
      <3>1. job[v] \in Job /\ JobOK(job[v], outbox, delivered)
        BY <1>4 DEF OInv, JobsOK
      <3>2. job[v].pc \in Unsent => <<job[v].row, job[v].token>> \notin delivered'
        BY <1>3, <1>12, <2>2, <3>1 DEF JobOK, Working, Unsent
      <3>3. JobOK(job[v], outbox', delivered')
        BY <1>3, <1>4, <1>8, <3>1, <3>2, JobAges
      <3> QED
        BY <1>7, <2>2, <3>3
    <2> QED
      BY <2>1, <2>2
  <1>15. BatchesOK'
    <2> SUFFICES ASSUME NEW v \in Workers PROVE BatchOK(batch'[v], outbox', delivered')
      BY DEF BatchesOK
    <2>1. BatchOK(batch[v], outbox, delivered)
      BY DEF OInv, BatchesOK
    <2> QED
      BY <1>3, <1>13, <2>1 DEF BatchOK
  <1>16. LogOK'
    <2> SUFFICES ASSUME NEW q \in Rows, NEW u \in Tokens, <<q, u>> \in delivered'
                 PROVE  Drawn(outbox, q, u) /\ outbox[q].phase # "NONE"
      BY <1>3 DEF LogOK, Drawn
    <2>1. CASE <<q, u>> \in delivered
      BY <2>1 DEF OInv, LogOK
    <2>2. CASE <<q, u>> = <<r, t>>
      BY <1>5, <2>2
    <2> QED
      BY <1>3, <2>1, <2>2
  <1>17. OneHolder'
    <2>1. \A v \in Workers : batch'[v] \subseteq batch[v] /\ CarriesOn(job[v], job'[v])
      BY <1>1, <1>2, <1>3, <1>6, <1>7 DEF CarriesOn
    <2> QED
      BY <2>1, HoldersShrink DEF OInv
  <1> QED
    BY <1>8, <1>9, <1>10, <1>11, <1>14, <1>15, <1>16, <1>17 DEF OInv, KeptStep

\* The next claim of the batch is begun.
LEMMA StartItemStep ==
    ASSUME OInv, NEW w \in Workers, NEW k \in batch[w], StartItem(w, k) PROVE KeptStep
  <1>1. PICK j : j = [pc |-> IF outbox[k.row].kind = "TEXT" THEN "admit" ELSE "check",
                      row |-> k.row, token |-> k.token, retry |-> FALSE]
    OBVIOUS
  <1>2. /\ job[w].pc = "idle" /\ batch' = [batch EXCEPT ![w] = @ \ {k}]
        /\ job' = [job EXCEPT ![w] = j]
        /\ UNCHANGED <<hvars, outbox, delivered>>
    BY <1>1 DEF StartItem
  <1>3. /\ job \in [Workers -> Job] /\ batch \in [Workers -> SUBSET Claim]
        /\ outbox \in [Rows -> Row] /\ k \in Claim
    BY DEF OInv, OTypeOK
  <1>4. Drawn(outbox, k.row, k.token) /\ <<k.row, k.token>> \notin delivered
    BY DEF OInv, BatchesOK, BatchOK
  <1>5. k.row \in Rows /\ k.token \in Tokens
    BY <1>3 DEF Claim
  <1>6. outbox[k.row].kind \in {"TEXT", "DOCUMENT"}
    BY <1>3, <1>5 DEF Row
  <1>7. /\ j \in Job /\ j.pc \in {"admit", "check"} /\ j.row = k.row /\ j.token = k.token
        /\ j.pc = "check" => outbox[k.row].kind = "DOCUMENT"
    BY <1>1, <1>5, <1>6 DEF Job, Steps
  <1>8. JobOK(j, outbox, delivered)
    BY <1>4, <1>7 DEF JobOK, ForDocuments
  <1>9. /\ job' \in [Workers -> Job] /\ batch' \in [Workers -> SUBSET Claim]
        /\ \A v \in Workers : job'[v] = IF v = w THEN j ELSE job[v]
        /\ \A v \in Workers : batch'[v] = IF v = w THEN batch[v] \ {k} ELSE batch[v]
    BY <1>2, <1>3, <1>7
  <1>10. OTypeOK' /\ HTypeOK'
    BY <1>2, <1>9 DEF OInv, OTypeOK, HTypeOK, hvars
  <1>11. RowsOK' /\ RowsFit' /\ TextsFirst' /\ InOrder' /\ SentByItsOwnClaim' /\ LogOK'
    BY <1>2 DEF OInv, RowsOK, RowsFit, TextsFirst, InOrder, SentByItsOwnClaim, LogOK, Drawn, hvars
  <1>12. JobsOK'
    <2> SUFFICES ASSUME NEW v \in Workers PROVE JobOK(job'[v], outbox', delivered')
      BY DEF JobsOK
    <2> QED
      BY <1>2, <1>8, <1>9 DEF OInv, JobsOK
  <1>13. BatchesOK'
    <2> SUFFICES ASSUME NEW v \in Workers PROVE BatchOK(batch'[v], outbox', delivered')
      BY DEF BatchesOK
    <2>1. BatchOK(batch[v], outbox, delivered)
      BY DEF OInv, BatchesOK
    <2> QED
      BY <1>2, <1>9, <2>1 DEF BatchOK
  <1>14. OneHolder'
    <2> SUFFICES ASSUME NEW x \in Workers, NEW v \in Workers
                 PROVE  /\ \A l \in batch'[x] : ~Working(job'[v], l.row, l.token)
                        /\ x # v => batch'[x] \cap batch'[v] = {}
                        /\ x # v /\ job'[v].pc # "idle" =>
                             ~Working(job'[x], job'[v].row, job'[v].token)
      BY DEF OneHolder, Working
    <2>0. OneHolder
      BY DEF OInv
    <2>1. batch'[x] \subseteq batch[x] /\ batch'[v] \subseteq batch[v]
      BY <1>9
    <2>2. x # v => batch'[x] \cap batch'[v] = {}
      BY <2>0, <2>1 DEF OneHolder
    <2>3. ASSUME NEW l \in batch'[x] PROVE ~Working(job'[v], l.row, l.token)
      <3>1. CASE v # w
        BY <1>9, <2>0, <2>1, <2>3, <3>1 DEF OneHolder
      <3>2. CASE v = w
        <4>1. l # k
          BY <1>9, <2>0, <3>2 DEF OneHolder
        <4>2. l \in Claim
          BY <1>9
        <4>3. ~(l.row = k.row /\ l.token = k.token)
          BY <1>3, <4>1, <4>2 DEF Claim
        <4> QED
          BY <1>7, <1>9, <3>2, <4>3 DEF Working
      <3> QED
        BY <3>1, <3>2
    <2>4. ASSUME x # v, job'[v].pc # "idle"
          PROVE  ~Working(job'[x], job'[v].row, job'[v].token)
      <3>1. CASE x # w /\ v # w
        BY <1>9, <2>0, <2>4, <3>1 DEF OneHolder
      <3>2. CASE x = w
        <4>1. ~Working(job[v], k.row, k.token)
          BY <2>0 DEF OneHolder
        <4> QED
          BY <1>7, <1>9, <2>4, <3>2, <4>1 DEF Working
      <3>3. CASE v = w
        <4>1. ~Working(job[x], k.row, k.token)
          BY <2>0 DEF OneHolder
        <4> QED
          BY <1>7, <1>9, <2>4, <3>3, <4>1 DEF Working
      <3> QED
        BY <3>1, <3>2, <3>3
    <2> QED
      BY <2>2, <2>3, <2>4
  <1> QED
    BY <1>2, <1>10, <1>11, <1>12, <1>13, <1>14, UntouchedIsQuiet, QuietAges DEF OInv, KeptStep

(***************************************************************************)
(* Claiming                                                                *)
(***************************************************************************)

\* A due row is claimed with a new token, or retired with the text it had to follow.
LEMMA ClaimRowOK ==
    ASSUME OInv, NEW r \in Rows, Claimable(r), NEW new, new = ClaimRow(r)
    PROVE  /\ RowOK(new) /\ RowAges(outbox[r], new) /\ new.status # "SENT"
           /\ TextBlocks(r) => new.claims = outbox[r].claims
           /\ ~TextBlocks(r) => new.claims = outbox[r].claims + 1
  <1>1. PICK row : row = outbox[r]
    OBVIOUS
  <1>2. RowOK(row) /\ row.status = "PENDING" /\ row \in Row
    BY <1>1 DEF OInv, RowsOK, RowOK, Claimable
  <1>3. CASE TextBlocks(r)
    <2>1. row.origin = "AUTO"
      BY <1>1, <1>2, <1>3 DEF RowOK, TextBlocks
    <2>2. PICK result \in {"SUPPRESSED", "REVIEW"} : new = StopDelivery(row, result)
      BY <1>1, <1>3 DEF ClaimRow
    <2>3. Rewrites(row, new)
      BY <1>2, <2>1, <2>2, StopDeliveryOK
    <2>4. new.status # "SENT"
      BY <1>2, <2>2 DEF StopDelivery, Row
    <2> QED
      BY <1>1, <1>3, <2>3, <2>4 DEF Rewrites
  <1>4. CASE ~TextBlocks(r)
    <2>1. new = [row EXCEPT !.status = "SENDING", !.claims = row.claims + 1,
                            !.token = row.claims + 1]
      BY <1>1, <1>4 DEF ClaimRow
    <2>2. /\ row.claims \in Nat /\ row.attempts \in Nat /\ row.claims <= row.attempts
          /\ row.attempts < MaxAttempts /\ row.phase # "SENT"
      BY <1>2, OutboxAssumption DEF RowOK, Row, Tokens
    <2>3. row.claims + 1 \in Tokens
      BY <2>2, OutboxAssumption DEF Tokens
    <2>4. /\ new \in Row /\ new.status = "SENDING" /\ new.token = row.claims + 1
          /\ new.kind = row.kind /\ new.conv = row.conv /\ new.origin = row.origin
          /\ new.epoch = row.epoch /\ new.case = row.case /\ new.ev = row.ev
          /\ new.proof = row.proof /\ new.after = row.after /\ new.attempts = row.attempts
          /\ new.claims = row.claims + 1 /\ new.phase = row.phase
      BY <1>2, <2>1, <2>3 DEF Row, Status
    <2>5. RowOK(new)
      BY <1>2, <2>2, <2>4 DEF RowOK
    <2>6. RowAges(row, new)
      BY <1>2, <2>2, <2>4 DEF RowAges, Terminal
    <2> QED
      BY <1>1, <1>4, <2>4, <2>5, <2>6
  <1> QED
    BY <1>3, <1>4

\* A batch of claims: the tokens are new, and the text each row must follow was SENT.
LEMMA ClaimBatchStep ==
    ASSUME OInv, NEW w \in Workers, NEW S \in SUBSET Rows, ClaimBatch(w, S) PROVE KeptStep
  <1> DEFINE mine == { [row |-> r, token |-> outbox[r].claims + 1] :
                         r \in {q \in S : ~TextBlocks(q)} }
  <1>1. /\ batch[w] = {} /\ \A r \in S : Claimable(r)
        /\ outbox' = [r \in Rows |-> IF r \in S THEN ClaimRow(r) ELSE outbox[r]]
        /\ batch' = [batch EXCEPT ![w] = mine]
        /\ UNCHANGED <<hvars, job, delivered>>
    BY DEF ClaimBatch
  <1>2. /\ outbox \in [Rows -> Row] /\ batch \in [Workers -> SUBSET Claim]
        /\ job \in [Workers -> Job] /\ delivered \in SUBSET (Rows \X Tokens) /\ HTypeOK
        /\ \A r \in Rows : RowOK(outbox[r])
    BY DEF OInv, OTypeOK, RowsOK
  <1>3. \A r \in S : /\ RowOK(outbox'[r]) /\ RowAges(outbox[r], outbox'[r])
                     /\ outbox'[r].status # "SENT"
                     /\ TextBlocks(r) => outbox'[r].claims = outbox[r].claims
                     /\ ~TextBlocks(r) => outbox'[r].claims = outbox[r].claims + 1
    BY <1>1, ClaimRowOK
  <1>4. \A r \in Rows \ S : outbox'[r] = outbox[r]
    BY <1>1
  <1>5. RowsOK' /\ TableAges(outbox, outbox')
    BY <1>2, <1>3, <1>4, SameRowAges DEF RowsOK, TableAges
  <1>6. outbox' \in [Rows -> Row]
    BY <1>1, <1>5 DEF RowsOK, RowOK
  <1>7. \A r \in Rows : outbox[r].claims \in Nat /\ outbox'[r].claims \in Nat
    BY <1>2, <1>6, OutboxAssumption DEF Row, Tokens
  <1>8. \A k \in mine :
          /\ k \in Claim /\ k.row \in S /\ k.token = outbox[k.row].claims + 1
          /\ outbox'[k.row].claims = k.token
    <2> SUFFICES ASSUME NEW r \in S, ~TextBlocks(r), NEW k,
                        k = [row |-> r, token |-> outbox[r].claims + 1]
                 PROVE  /\ k \in Claim /\ k.row \in S /\ k.token = outbox[k.row].claims + 1
                        /\ outbox'[k.row].claims = k.token
      OBVIOUS
    <2>1. k.row = r /\ k.token = outbox[r].claims + 1
      OBVIOUS
    <2>2. outbox'[r].claims = outbox[r].claims + 1
      BY <1>3
    <2>3. outbox[r].claims + 1 \in Tokens
      BY <1>6, <2>2 DEF Row
    <2>4. k \in Claim
      BY <2>3 DEF Claim
    <2> QED
      BY <2>1, <2>2, <2>4
  <1> HIDE DEF mine
  <1>9. \A v \in Workers : batch'[v] = IF v = w THEN mine ELSE batch[v]
    BY <1>1, <1>2
  <1>10. OTypeOK' /\ HTypeOK'
    <2>1. mine \in SUBSET Claim
      BY <1>8
    <2>2. batch' \in [Workers -> SUBSET Claim]
      BY <1>1, <1>2, <2>1
    <2> QED
      BY <1>1, <1>2, <1>6, <2>2 DEF OTypeOK, HTypeOK, hvars
  <1>11. RowsFit'
    <2> SUFFICES ASSUME NEW r \in Rows PROVE RowFits(outbox'[r], conv', handoffs', evidence')
      BY DEF RowsFit
    <2>1. RowFits(outbox[r], conv, handoffs, evidence) /\ UNCHANGED <<conv, handoffs, evidence>>
      BY <1>1 DEF OInv, RowsFit, hvars
    <2>2. CASE r \in S
      <3>1. outbox[r].status # "ABSENT"
        BY <1>1, <2>2 DEF Claimable
      <3>2. outbox[r] \in Row /\ RowAges(outbox[r], outbox'[r]) /\ [HNext]_hvars
        BY <1>1, <1>2, <1>3, <2>2
      <3> QED
        BY <1>2, <2>1, <3>1, <3>2, AgedRowFits
    <2>3. CASE r \notin S
      BY <1>4, <2>1, <2>3
    <2> QED
      BY <2>2, <2>3
  <1>12. \A r \in Rows : outbox[r].status = "SENT" => outbox'[r] = outbox[r]
    BY <1>5 DEF TableAges, RowAges, Terminal
  <1>13. TextsFirst'
    <2> SUFFICES ASSUME NEW r \in Rows, outbox'[r].after # 0, outbox'[r].claims # 0
                 PROVE  outbox'[outbox'[r].after].status = "SENT"
      BY DEF TextsFirst
    <2>1. outbox[r].status # "ABSENT"
      <3>1. CASE r \in S
        BY <1>1, <3>1 DEF Claimable
      <3>2. CASE r \notin S
        BY <1>2, <1>4, <3>2 DEF RowOK
      <3> QED
        BY <3>1, <3>2
    <2>2. outbox'[r].after = outbox[r].after /\ outbox[r].after \in Rows
      <3>1. outbox'[r].after = outbox[r].after
        BY <1>5, <2>1 DEF TableAges, RowAges
      <3> QED
        BY <1>2, <3>1 DEF Row
    <2>3. outbox[outbox[r].after].status = "SENT"
      <3>1. CASE outbox[r].claims # 0
        BY <2>2, <3>1 DEF OInv, TextsFirst
      <3>2. CASE outbox[r].claims = 0
        <4>1. ~TextBlocks(r)
          BY <1>3, <1>4, <3>2
        <4> QED
          BY <2>2, <4>1 DEF TextBlocks
      <3> QED
        BY <3>1, <3>2
    <2> QED
      BY <1>12, <2>2, <2>3
  <1>14. SentByItsOwnClaim'
    <2> SUFFICES ASSUME NEW r \in Rows, outbox'[r].status = "SENT"
                 PROVE  <<r, outbox'[r].claims>> \in delivered
      BY <1>1 DEF SentByItsOwnClaim
    <2>1. outbox'[r] = outbox[r]
      BY <1>3, <1>4
    <2> QED
      BY <2>1 DEF OInv, SentByItsOwnClaim
  <1>15. JobsOK'
    <2> SUFFICES ASSUME NEW v \in Workers PROVE JobOK(job[v], outbox', delivered)
      BY <1>1 DEF JobsOK
    <2>1. job[v] \in Job /\ JobOK(job[v], outbox, delivered)
      BY <1>2 DEF OInv, JobsOK
    <2>2. job[v].pc \in Unsent => <<job[v].row, job[v].token>> \notin delivered
      BY <2>1 DEF JobOK, Unsent
    <2> QED
      BY <1>5, <1>6, <2>1, <2>2, JobAges
  <1>16. BatchesOK'
    <2> SUFFICES ASSUME NEW v \in Workers PROVE BatchOK(batch'[v], outbox', delivered)
      BY <1>1 DEF BatchesOK
    <2>1. CASE v # w
      <3>1. batch[v] \in SUBSET Claim /\ BatchOK(batch[v], outbox, delivered)
        BY <1>2 DEF OInv, BatchesOK
      <3>2. \A k \in batch[v] : <<k.row, k.token>> \notin delivered
        BY <3>1 DEF BatchOK
      <3>3. BatchOK(batch[v], outbox', delivered)
        BY <1>5, <1>6, <3>1, <3>2, BatchAges
      <3> QED
        BY <1>9, <2>1, <3>3
    <2>2. CASE v = w
      <3> SUFFICES ASSUME NEW k \in mine
                   PROVE  Drawn(outbox', k.row, k.token) /\ <<k.row, k.token>> \notin delivered
        BY <1>9, <2>2 DEF BatchOK
      <3>1. k.row \in Rows /\ k.token \in Tokens /\ k.token = outbox[k.row].claims + 1
            /\ outbox'[k.row].claims = k.token
        BY <1>8 DEF Claim
      <3>2. ~Drawn(outbox, k.row, k.token)
        BY <1>7, <3>1 DEF Drawn
      <3>3. <<k.row, k.token>> \notin delivered
        BY <3>1, <3>2 DEF OInv, LogOK
      <3>4. Drawn(outbox', k.row, k.token)
        BY <1>7, <3>1 DEF Drawn
      <3> QED
        BY <3>3, <3>4
    <2> QED
      BY <2>1, <2>2
  <1>17. LogOK'
    BY <1>1, <1>5, <1>6, LogAges
  <1>18. \A k \in mine : ~Drawn(outbox, k.row, k.token)
    BY <1>7, <1>8 DEF Drawn
  <1>19. OneHolder'
    <2> SUFFICES ASSUME NEW x \in Workers, NEW v \in Workers
                 PROVE  /\ \A l \in batch'[x] : ~Working(job[v], l.row, l.token)
                        /\ x # v => batch'[x] \cap batch'[v] = {}
                        /\ x # v /\ job[v].pc # "idle" =>
                             ~Working(job[x], job[v].row, job[v].token)
      BY <1>1 DEF OneHolder, Working
    <2>0. OneHolder /\ JobsOK /\ BatchesOK
      BY DEF OInv
    <2>1. x # v /\ job[v].pc # "idle" => ~Working(job[x], job[v].row, job[v].token)
      BY <2>0 DEF OneHolder
    <2>2. ASSUME NEW l \in batch'[x] PROVE ~Working(job[v], l.row, l.token)
      <3>1. CASE x # w
        BY <1>9, <2>0, <3>1 DEF OneHolder
      <3>2. CASE x = w
        BY <1>9, <1>18, <2>0, <3>2 DEF JobsOK, JobOK, Working
      <3> QED
        BY <3>1, <3>2
    <2>3. ASSUME x # v PROVE batch'[x] \cap batch'[v] = {}
      <3>1. CASE x # w /\ v # w
        BY <1>9, <2>0, <2>3, <3>1 DEF OneHolder
      <3>2. CASE x = w
        BY <1>9, <1>18, <2>0, <2>3, <3>2 DEF BatchesOK, BatchOK
      <3>3. CASE v = w
        BY <1>9, <1>18, <2>0, <2>3, <3>3 DEF BatchesOK, BatchOK
      <3> QED
        BY <3>1, <3>2, <3>3
    <2> QED
      BY <2>1, <2>2, <2>3
  <1>20. InOrder'
    <2>1. \A r \in Rows : outbox'[r].status = "ABSENT" <=> outbox[r].status = "ABSENT"
      BY <1>1, <1>4, <1>5 DEF TableAges, RowAges, Claimable
    <2> QED
      BY <2>1 DEF OInv, InOrder
  <1> QED
    BY <1>5, <1>10, <1>11, <1>13, <1>14, <1>15, <1>16, <1>17, <1>19, <1>20
       DEF OInv, KeptStep

(***************************************************************************)
(* Producers                                                               *)
(***************************************************************************)

\* The rows that EnqueueTextThenCatalog, EvidenceWithAck and CreateAgentMessage insert.
FollowerRow(c, cv, r) == [AutoRow(c, cv, "DOCUMENT") EXCEPT !.after = r]
AckRow(c, i, e) == [NewRow(c, "TEXT", "PAYMENT_EVIDENCE_ACK") EXCEPT !.case = i, !.ev = e]
ReplyRow(c) == [NewRow(c, "TEXT", "HUMAN_REPLY") EXCEPT !.proof = TRUE]

\* The rows the producers insert are in order.
LEMMA AutoRowOK ==
    ASSUME NEW c \in Conversations, NEW cv, cv.epoch \in Nat,
           NEW kind \in {"TEXT", "DOCUMENT"},
           NEW row, row = AutoRow(c, cv, kind)
    PROVE  /\ RowOK(row) /\ row.claims = 0 /\ row.status = "PENDING"
           /\ row.origin = "AUTO" /\ row.conv = c /\ row.epoch = cv.epoch
  <1>0. 0 \in 0..MaxAttempts
    BY OutboxAssumption
  <1>1. row \in Row
    BY <1>0 DEF AutoRow, NewRow, Row, Status, Origin, Phase, Tokens
  <1>2. /\ row.status = "PENDING" /\ row.attempts = 0 /\ row.claims = 0 /\ row.token = 0
        /\ row.phase = "NONE" /\ row.after = 0
        /\ row.origin = "AUTO" /\ row.conv = c /\ row.epoch = cv.epoch
    BY DEF AutoRow, NewRow
  <1> QED
    BY <1>1, <1>2, NewRowOK

\* The catalog that follows a text.
LEMMA FollowerRowOK ==
    ASSUME NEW c \in Conversations, NEW cv, cv.epoch \in Nat, NEW after \in Rows,
           NEW row, row = FollowerRow(c, cv, after)
    PROVE  /\ RowOK(row) /\ row.claims = 0 /\ row.status = "PENDING"
           /\ row.origin = "AUTO" /\ row.conv = c /\ row.epoch = cv.epoch
  <1>0. 0 \in 0..MaxAttempts
    BY OutboxAssumption
  <1>1. row \in Row
    BY <1>0 DEF FollowerRow, AutoRow, NewRow, Row, Status, Origin, Phase, Tokens
  <1>2. /\ row.status = "PENDING" /\ row.attempts = 0 /\ row.claims = 0 /\ row.token = 0
        /\ row.phase = "NONE" /\ row.kind = "DOCUMENT"
        /\ row.origin = "AUTO" /\ row.conv = c /\ row.epoch = cv.epoch
    BY DEF FollowerRow, AutoRow, NewRow
  <1> QED
    BY <1>1, <1>2, NewRowOK

\* The notice of a handoff.
LEMMA NoticeRowOK ==
    ASSUME NEW c \in Conversations, NEW cv, cv.epoch \in Nat, NEW i \in CaseIds,
           NEW row, row = NoticeRow(c, cv, i)
    PROVE  /\ RowOK(row) /\ row.claims = 0 /\ row.status = "PENDING"
           /\ row.origin = "HANDOFF_NOTICE" /\ row.conv = c /\ row.epoch = cv.epoch
  <1>0. 0 \in 0..MaxAttempts
    BY OutboxAssumption
  <1>1. row \in Row
    BY <1>0 DEF NoticeRow, NewRow, Row, Status, Origin, Phase, Tokens
  <1>2. /\ row.status = "PENDING" /\ row.attempts = 0 /\ row.claims = 0 /\ row.token = 0
        /\ row.phase = "NONE" /\ row.after = 0
        /\ row.origin = "HANDOFF_NOTICE" /\ row.conv = c /\ row.epoch = cv.epoch
    BY DEF NoticeRow, NewRow
  <1> QED
    BY <1>1, <1>2, NewRowOK

\* The acknowledgement of a receipt.
LEMMA AckRowOK ==
    ASSUME NEW c \in Conversations, NEW i \in CaseIds, NEW e \in Evidence,
           NEW row, row = AckRow(c, i, e)
    PROVE  /\ RowOK(row) /\ row.claims = 0 /\ row.status = "PENDING"
           /\ row.origin = "PAYMENT_EVIDENCE_ACK" /\ row.case = i
  <1>0. 0 \in 0..MaxAttempts
    BY OutboxAssumption
  <1>1. row \in Row
    BY <1>0 DEF AckRow, NewRow, Row, Status, Origin, Phase, Tokens
  <1>2. /\ row.status = "PENDING" /\ row.attempts = 0 /\ row.claims = 0 /\ row.token = 0
        /\ row.phase = "NONE" /\ row.after = 0
        /\ row.origin = "PAYMENT_EVIDENCE_ACK" /\ row.case = i
    BY DEF AckRow, NewRow
  <1> QED
    BY <1>1, <1>2, NewRowOK

\* The result of a review.
LEMMA ResultRowOK ==
    ASSUME NEW e \in Evidence, evidence[e].conv \in Conversations,
           NEW row, row = ResultRow(e)
    PROVE  /\ RowOK(row) /\ row.claims = 0 /\ row.status = "PENDING"
           /\ row.origin = "PAYMENT_REVIEW_RESULT" /\ row.ev = e
  <1>0. 0 \in 0..MaxAttempts
    BY OutboxAssumption
  <1>1. row \in Row
    BY <1>0 DEF ResultRow, NewRow, Row, Status, Origin, Phase, Tokens
  <1>2. /\ row.status = "PENDING" /\ row.attempts = 0 /\ row.claims = 0 /\ row.token = 0
        /\ row.phase = "NONE" /\ row.after = 0 /\ row.kind = "TEXT"
        /\ row.origin = "PAYMENT_REVIEW_RESULT" /\ row.ev = e
    BY DEF ResultRow, NewRow
  <1> QED
    BY <1>1, <1>2, NewRowOK

\* The reply of an agent.
LEMMA ReplyRowOK ==
    ASSUME NEW c \in Conversations,
           NEW row, row = ReplyRow(c)
    PROVE  /\ RowOK(row) /\ row.claims = 0 /\ row.status = "PENDING"
           /\ row.origin = "HUMAN_REPLY"
  <1>0. 0 \in 0..MaxAttempts
    BY OutboxAssumption
  <1>1. row \in Row
    BY <1>0 DEF ReplyRow, NewRow, Row, Status, Origin, Phase, Tokens
  <1>2. /\ row.status = "PENDING" /\ row.attempts = 0 /\ row.claims = 0 /\ row.token = 0
        /\ row.phase = "NONE" /\ row.after = 0 /\ row.kind = "TEXT" /\ row.proof
        /\ row.origin = "HUMAN_REPLY"
    BY DEF ReplyRow, NewRow
  <1> QED
    BY <1>1, <1>2, NewRowOK

\* A row of the present period, inserted in the transaction that may begin it, fits.
LEMMA PeriodRowFits ==
    ASSUME NEW row, NEW c \in Conversations, NEW cv, NEW hs, NEW ev, cv[c].epoch \in Nat,
           row.origin \in {"AUTO", "HANDOFF_NOTICE"}, row.conv = c, row.epoch = cv[c].epoch
    PROVE  RowFits(row, cv, hs, ev)
  BY DEF RowFits

\* Inserting such a row.
LEMMA PeriodInsertStep ==
    ASSUME OInv, [HNext]_hvars, NEW c \in Conversations, NEW r \in Rows, NEW new,
           Insert(r, new), RowOK(new), new.claims = 0, new.status = "PENDING",
           new.origin \in {"AUTO", "HANDOFF_NOTICE"}, new.conv = c, new.epoch = conv'[c].epoch
    PROVE  KeptStep
  <1>1. conv'[c].epoch \in Nat
    BY EpochsGrow DEF OInv
  <1>2. RowFits(new, conv', handoffs', evidence')
    BY <1>1, PeriodRowFits
  <1>3. QuietRows
    BY <1>2, InsertIsQuiet
  <1> QED
    BY <1>3, TableStep DEF Insert

\* Automatic text and catalogs of a turn.
LEMMA EnqueueStep ==
    ASSUME OInv, NEW c \in Conversations, NEW r \in Rows,
           EnqueueTemplate(c, r) \/ EnqueueCatalog(c, r)
    PROVE  KeptStep
  <1>1. PICK kind \in {"TEXT", "DOCUMENT"} : Insert(r, AutoRow(c, conv[c], kind))
    BY DEF EnqueueTemplate, EnqueueCatalog
  <1>2. UNCHANGED hvars /\ conv' = conv /\ conv[c].epoch \in Nat
    BY DEF EnqueueTemplate, EnqueueCatalog, OInv, HTypeOK, Conversation, hvars
  <1>3. PICK new : new = AutoRow(c, conv[c], kind)
    OBVIOUS
  <1>4. /\ RowOK(new) /\ new.claims = 0 /\ new.status = "PENDING" /\ new.origin = "AUTO"
        /\ new.conv = c /\ new.epoch = conv[c].epoch
    BY <1>2, <1>3, AutoRowOK
  <1> QED
    BY <1>1, <1>2, <1>3, <1>4, PeriodInsertStep

\* A text and the catalog that follows it, which takes the next row number.
LEMMA EnqueuePairStep ==
    ASSUME OInv, NEW c \in Conversations, NEW r \in Rows, EnqueueTextThenCatalog(c, r)
    PROVE  KeptStep
  <1>1. UNCHANGED hvars /\ conv' = conv /\ conv[c].epoch \in Nat /\ r + 1 \in Rows
    BY DEF EnqueueTextThenCatalog, OInv, HTypeOK, Conversation, hvars
  <1>2. PICK text : text = AutoRow(c, conv[c], "TEXT")
    OBVIOUS
  <1>3. PICK doc : doc = FollowerRow(c, conv[c], r)
    OBVIOUS
  <1>4. /\ RowOK(text) /\ text.claims = 0 /\ text.status = "PENDING" /\ text.origin = "AUTO"
        /\ text.conv = c /\ text.epoch = conv[c].epoch
    BY <1>1, <1>2, AutoRowOK
  <1>5. /\ RowOK(doc) /\ doc.claims = 0 /\ doc.status = "PENDING" /\ doc.origin = "AUTO"
        /\ doc.conv = c /\ doc.epoch = conv[c].epoch
    BY <1>1, <1>3, FollowerRowOK
  <1>6. RowFits(text, conv', handoffs', evidence') /\ RowFits(doc, conv', handoffs', evidence')
    BY <1>1, <1>4, <1>5, PeriodRowFits
  <1>7. /\ outbox \in [Rows -> Row] /\ text \in Row /\ doc \in Row
        /\ \A q \in Rows : RowOK(outbox[q])
    BY <1>4, <1>5 DEF OInv, OTypeOK, RowsOK, RowOK
  <1>8. r # r + 1
    BY OutboxAssumption DEF Rows
  <1>9. \A q \in Rows : outbox'[q] = IF q = r + 1 THEN doc ELSE IF q = r THEN text ELSE outbox[q]
    BY <1>1, <1>2, <1>3, <1>7, <1>8 DEF EnqueueTextThenCatalog, FollowerRow
  <1>10. outbox' \in [Rows -> Row]
    BY <1>1, <1>2, <1>3, <1>7 DEF EnqueueTextThenCatalog, FollowerRow
  <1>11. outbox[r].status = "ABSENT"
    BY DEF EnqueueTextThenCatalog, FreshRow
  <1>12. outbox[r + 1].status = "ABSENT"
    <2>1. r < r + 1
      BY OutboxAssumption DEF Rows
    <2> QED
      BY <1>1, <1>11, <2>1 DEF OInv, InOrder
  <1>13. \A q \in Rows : Rewrites(outbox[q], outbox'[q])
    BY <1>1, <1>4, <1>5, <1>7, <1>9, <1>11, <1>12, SameRowAges, InsertedRewrites DEF Rewrites
  <1>14. InOrder'
    <2> SUFFICES ASSUME NEW p \in Rows, NEW q \in Rows, p < q, outbox'[p].status = "ABSENT"
                 PROVE  outbox'[q].status = "ABSENT"
      BY DEF InOrder
    <2>1. p # r /\ p # r + 1 /\ outbox[p].status = "ABSENT"
      BY <1>4, <1>5, <1>9
    <2>2. ~(p < r)
      BY <2>1 DEF EnqueueTextThenCatalog, FreshRow
    <2>3. q # r /\ q # r + 1
      BY <2>1, <2>2, OutboxAssumption DEF Rows
    <2> QED
      BY <1>9, <2>1, <2>3 DEF OInv, InOrder
  <1>15. QuietRows
    BY <1>4, <1>5, <1>6, <1>9, <1>10, <1>13, <1>14 DEF QuietRows
  <1> QED
    BY <1>1, <1>15, TableStep DEF EnqueueTextThenCatalog

\* A handoff and the text that goes with it, inserted in one transaction.
LEMMA HandoffRowStep ==
    ASSUME OInv, NEW c \in Conversations, NEW i \in CaseIds, NEW r \in Rows,
           \/ HandoffWithNotice(c, i, r)
           \/ HandoffWithQuestion(c, i, r)
           \/ CatalogHandoffWithNotice(c, i, r)
           \/ \E e \in Evidence : EvidenceWithNotice(c, e, i, r)
    PROVE  KeptStep
  <1>1. [HNext]_hvars
    BY DEF HandoffWithNotice, HandoffWithQuestion, CatalogHandoffWithNotice,
           EvidenceWithNotice, HNext, BotStep
  <1>2. conv'[c].epoch \in Nat
    BY <1>1, EpochsGrow DEF OInv
  <1>3. PICK new \in {NoticeRow(c, conv'[c], i), AutoRow(c, conv'[c], "TEXT")} : Insert(r, new)
    BY DEF HandoffWithNotice, HandoffWithQuestion, CatalogHandoffWithNotice, EvidenceWithNotice
  <1>4. PICK cv : cv = conv'[c]
    OBVIOUS
  <1>5. /\ RowOK(new) /\ new.claims = 0 /\ new.status = "PENDING"
        /\ new.origin \in {"AUTO", "HANDOFF_NOTICE"} /\ new.conv = c /\ new.epoch = cv.epoch
    BY <1>2, <1>3, <1>4, NoticeRowOK, AutoRowOK
  <1> QED
    BY <1>1, <1>3, <1>4, <1>5, PeriodInsertStep

\* The acknowledgement of a receipt is about a case that is open.
LEMMA EvidenceAckStep ==
    ASSUME OInv, NEW c \in Conversations, NEW e \in Evidence, NEW r \in Rows,
           EvidenceWithAck(c, e, r)
    PROVE  KeptStep
  <1>1. MoreEvidence(c, e) /\ [HNext]_hvars /\ UNCHANGED handoffs
    BY DEF EvidenceWithAck, HNext, BotStep, MoreEvidence
  <1>2. PICK i \in CaseIds : AckEligible(c, i) /\ Insert(r, AckRow(c, i, e))
    BY DEF EvidenceWithAck, AckRow
  <1>3. PICK new : new = AckRow(c, i, e)
    OBVIOUS
  <1>4. /\ RowOK(new) /\ new.claims = 0 /\ new.status = "PENDING"
        /\ new.origin = "PAYMENT_EVIDENCE_ACK" /\ new.case = i
    BY <1>3, AckRowOK
  <1>5. RowFits(new, conv', handoffs', evidence')
    BY <1>1, <1>2, <1>4 DEF RowFits, AckEligible
  <1>6. QuietRows
    BY <1>2, <1>3, <1>4, <1>5, InsertIsQuiet
  <1> QED
    BY <1>1, <1>2, <1>6, TableStep DEF Insert

\* The result of a review is inserted once the receipt is decided.
LEMMA ResultStep ==
    ASSUME OInv, NEW e \in Evidence, NEW r \in Rows, DecisionWithResult(e, r) PROVE KeptStep
  <1>1. /\ NotifyDecision(e) \/ NotifyUnlinked(e)
        /\ Insert(r, ResultRow(e))
    BY DEF DecisionWithResult
  <1>2. [HNext]_hvars
    BY <1>1 DEF HNext, ReviewStep
  <1>3. evidence \in [Evidence -> [status : EvidenceStatus, conv : Conversations]]
    BY DEF OInv, HTypeOK
  <1>4. evidence[e].conv \in Conversations /\ evidence'[e].status = "NOTIFIED"
    BY <1>1, <1>3 DEF NotifyDecision, NotifyUnlinked, Notified
  <1>5. PICK new : new = ResultRow(e)
    OBVIOUS
  <1>6. /\ RowOK(new) /\ new.claims = 0 /\ new.status = "PENDING"
        /\ new.origin = "PAYMENT_REVIEW_RESULT" /\ new.ev = e
    BY <1>4, <1>5, ResultRowOK
  <1>7. RowFits(new, conv', handoffs', evidence')
    BY <1>4, <1>6 DEF RowFits
  <1>8. QuietRows
    BY <1>1, <1>5, <1>6, <1>7, InsertIsQuiet
  <1> QED
    BY <1>1, <1>2, <1>8, TableStep DEF Insert

\* So is the notice of a conflict, with the case it opens.
LEMMA ConflictStep ==
    ASSUME OInv, NEW e \in Evidence, NEW i \in CaseIds, NEW r \in Rows,
           ConflictWithNotice(e, i, r)
    PROVE  KeptStep
  <1>1. PICK c : c = evidence[e].conv
    OBVIOUS
  <1>2. c \in Conversations /\ [HNext]_hvars
    BY <1>1 DEF OInv, HTypeOK, ConflictWithNotice, HNext, ReviewStep
  <1>3. PICK cv : cv = conv'[c]
    OBVIOUS
  <1>4. cv.epoch \in Nat
    BY <1>2, <1>3, EpochsGrow DEF OInv
  <1>5. PICK new : new = NoticeRow(c, cv, i)
    OBVIOUS
  <1>6. Insert(r, new)
    BY <1>1, <1>3, <1>5 DEF ConflictWithNotice
  <1>7. /\ RowOK(new) /\ new.claims = 0 /\ new.status = "PENDING"
        /\ new.origin = "HANDOFF_NOTICE" /\ new.conv = c /\ new.epoch = cv.epoch
    BY <1>2, <1>4, <1>5, NoticeRowOK
  <1> QED
    BY <1>2, <1>3, <1>6, <1>7, PeriodInsertStep

\* The reply of an agent.
LEMMA AgentMessageStep ==
    ASSUME OInv, NEW a \in Agents, NEW c \in Conversations, NEW i \in CaseIds, NEW r \in Rows,
           CreateAgentMessage(a, c, i, r)
    PROVE  KeptStep
  <1>1. PICK new : new = ReplyRow(c)
    OBVIOUS
  <1>2. Insert(r, new) /\ UNCHANGED hvars
    BY <1>1 DEF CreateAgentMessage, ReplyRow
  <1>3. RowOK(new) /\ new.claims = 0 /\ new.status = "PENDING" /\ new.origin = "HUMAN_REPLY"
    BY <1>1, ReplyRowOK
  <1>4. RowFits(new, conv', handoffs', evidence')
    BY <1>3 DEF RowFits
  <1>5. QuietRows
    BY <1>2, <1>3, <1>4, InsertIsQuiet
  <1> QED
    BY <1>2, <1>5, TableStep DEF Insert

(***************************************************************************)
(* The invariant                                                           *)
(***************************************************************************)

\* The tables as the worker finds them first: no row, or one that predates delivery_context.
LEMMA OInvInit == OInit => OInv
  <1> SUFFICES ASSUME OInit PROVE OInv
    OBVIOUS
  <1>1. HTypeOK
    BY HTypeInit DEF OInit
  <1>2. 0 \in 0..MaxAttempts /\ 0 < MaxAttempts
    BY OutboxAssumption
  <1>3. PICK c \in Conversations :
          \/ outbox = [r \in Rows |-> AbsentRow(c)]
          \/ \E s \in LegacyStatuses, p \in BOOLEAN :
               outbox = [r \in Rows |->
                           IF r = 1 THEN [AbsentRow(c) EXCEPT !.status = s, !.proof = p]
                                    ELSE AbsentRow(c)]
    BY DEF OInit
  <1>4. PICK absent :
          /\ absent = AbsentRow(c)
          /\ \/ outbox = [r \in Rows |-> absent]
             \/ \E s \in LegacyStatuses, p \in BOOLEAN :
                  outbox = [r \in Rows |->
                              IF r = 1 THEN [absent EXCEPT !.status = s, !.proof = p] ELSE absent]
    BY <1>3, Zenon
  <1>5. absent \in Row
    BY <1>2, <1>4 DEF AbsentRow, NewRow, Row, Status, Origin, Phase, Tokens
  <1>6. /\ absent.status = "ABSENT" /\ absent.kind = "TEXT" /\ absent.origin = "NONE"
        /\ absent.after = 0 /\ absent.claims = 0 /\ absent.token = 0
        /\ absent.phase = "NONE" /\ absent.attempts = 0
    BY <1>4 DEF AbsentRow, NewRow
  <1>7. RowOK(absent)
    BY <1>5, <1>6 DEF RowOK
  <1>9. /\ DOMAIN outbox = Rows /\ outbox = [r \in Rows |-> outbox[r]]
        /\ \A r \in Rows : /\ RowOK(outbox[r]) /\ outbox[r].origin = "NONE"
                           /\ outbox[r].after = 0
                           /\ outbox[r].status \in {"ABSENT", "PENDING", "SENDING"}
        /\ \A r \in Rows : r # 1 => outbox[r].status = "ABSENT"
    <2>1. CASE outbox = [r \in Rows |-> absent]
      BY <1>6, <1>7, <2>1
    <2>2. CASE \E s \in LegacyStatuses, p \in BOOLEAN :
                 outbox = [r \in Rows |-> IF r = 1 THEN [absent EXCEPT !.status = s, !.proof = p]
                                                   ELSE absent]
      <3>0. PICK s \in LegacyStatuses, p \in BOOLEAN :
              outbox = [r \in Rows |-> IF r = 1 THEN [absent EXCEPT !.status = s, !.proof = p]
                                                ELSE absent]
        BY <2>2, Zenon
      <3>1. PICK row :
              /\ row = [absent EXCEPT !.status = s, !.proof = p]
              /\ outbox = [r \in Rows |-> IF r = 1 THEN row ELSE absent]
        BY <3>0, Zenon
      <3>2. s \in {"PENDING", "SENDING"}
        BY OutboxAssumption
      <3>3. row \in Row
        BY <1>5, <3>1, <3>2 DEF Row, Status
      <3>4. /\ row.status = s /\ row.kind = "TEXT" /\ row.origin = "NONE"
            /\ row.after = 0 /\ row.claims = 0 /\ row.token = 0
            /\ row.phase = "NONE" /\ row.attempts = 0
        BY <1>5, <1>6, <3>1 DEF Row
      <3>5. RowOK(row)
        BY <1>2, <3>2, <3>3, <3>4 DEF RowOK
      <3>6. /\ RowOK(row) /\ row.status \in {"PENDING", "SENDING"}
            /\ row.origin = "NONE" /\ row.after = 0
        BY <3>2, <3>4, <3>5
      <3> QED
        BY <1>6, <1>7, <3>1, <3>6
    <2> QED
      BY <1>4, <2>1, <2>2, Zenon
  <1>10. /\ batch = [w \in Workers |-> {}] /\ job = [w \in Workers |-> IdleJob]
         /\ delivered = {}
    BY DEF OInit
  <1>11. OTypeOK
    <2>1. IdleJob \in Job
      BY <1>2 DEF IdleJob, Job, Steps, Tokens
    <2>2. outbox \in [Rows -> Row]
      BY <1>9 DEF RowOK
    <2> QED
      BY <1>10, <2>1, <2>2 DEF OTypeOK
  <1>12. RowsOK /\ RowsFit /\ TextsFirst /\ SentByItsOwnClaim
    BY <1>9 DEF RowsOK, RowsFit, RowFits, TextsFirst, SentByItsOwnClaim
  <1>13. InOrder
    <2> SUFFICES ASSUME NEW q \in Rows, NEW r \in Rows, q < r PROVE outbox[r].status = "ABSENT"
      BY DEF InOrder
    <2>1. r # 1
      BY OutboxAssumption DEF Rows
    <2> QED
      BY <1>9, <2>1
  <1>14. \A w \in Workers : job[w].pc = "idle" /\ batch[w] = {}
    BY <1>10 DEF IdleJob
  <1>15. JobsOK /\ BatchesOK /\ LogOK /\ OneHolder
    BY <1>10, <1>14 DEF JobsOK, JobOK, BatchesOK, BatchOK, LogOK, OneHolder, Working
  <1> QED
    BY <1>1, <1>11, <1>12, <1>13, <1>15 DEF OInv

\* Every step keeps it.
LEMMA OInvNext == OInv /\ [ONext]_vars => OInv' /\ TableAges(outbox, outbox')
  <1> SUFFICES ASSUME OInv, [ONext]_vars PROVE KeptStep
    BY DEF KeptStep
  <1>0. [HNext]_hvars
    BY ConversationStep
  <1>1. ASSUME UNCHANGED ovars PROVE KeptStep
    BY <1>0, <1>1, UntouchedIsQuiet, TableStep DEF ovars
  <1>2. CASE Produce
    BY <1>2, EnqueueStep, EnqueuePairStep, HandoffRowStep, AgentMessageStep, EvidenceAckStep
       DEF Produce
  <1>3. CASE ProducePayment
    BY <1>3, ResultStep, ConflictStep DEF ProducePayment
  <1>4. CASE Background
    BY <1>1, <1>4 DEF Background, TemplateUnavailable, EvidenceWithoutAck, NotifyDeferred
  <1>5. CASE ClaimSome
    BY <1>5, ClaimBatchStep DEF ClaimSome
  <1>6. ASSUME NEW w \in Workers, Process(w) PROVE KeptStep
    BY <1>6, StartItemStep, DiscardStep, StopStep, CheckStep, AdmitStep, PlainSteps,
       SendAcceptedStep, RejectMediaStep, SettleStep DEF Process
  <1>7. ASSUME NEW w \in Workers, Crash(w) PROVE KeptStep
    BY <1>7, CrashStep
  <1>8. ASSUME NEW r \in Rows, Recover(r) PROVE KeptStep
    BY <1>8, RecoverStep
  <1>9. CASE UNCHANGED vars
    BY <1>1, <1>9 DEF vars
  <1> QED
    BY <1>2, <1>3, <1>4, <1>5, <1>6, <1>7, <1>8, <1>9 DEF ONext

\* The claims held by workers, the rows and the provider's log agree in every reachable state,
\* whatever workers crash and whoever takes, returns or resets the conversations meanwhile.
THEOREM OInvariant == OSpec => []OInv
  BY OInvInit, OInvNext, PTL DEF OSpec

\* Every row stays well formed, and a row that is not settled has attempts left: every claim
\* but the current one is paid for by a counted attempt, so a message is sent at most
\* outbox_max_attempts times, for any number of workers, crashes and stale claims.
THEOREM WellFormed == OSpec => []RowsWellFormed
  <1>1. OInv => RowsWellFormed
    BY DEF OInv, RowsOK, RowOK, RowsWellFormed, AttemptsBoundClaims
  <1> QED
    BY <1>1, OInvariant, PTL

\* A text retired as SUPPRESSED never reached the provider and is not on its way there.
THEOREM SuppressedUnsent == OSpec => []SuppressedTextNeverSent
  <1>1. OInv => SuppressedTextNeverSent
    <2> SUFFICES ASSUME OInv, NEW r \in Rows, outbox[r].status = "SUPPRESSED",
                        outbox[r].kind = "TEXT", MaybeSent(r)
                 PROVE  FALSE
      BY DEF SuppressedTextNeverSent
    <2>1. outbox[r].phase # "NONE"
      <3>1. CASE InFlight(r) # {}
        BY <3>1 DEF InFlight, OInv, JobsOK, JobOK
      <3>2. CASE \E t \in Tokens : <<r, t>> \in delivered
        BY <3>2 DEF OInv, LogOK
      <3> QED
        BY <3>1, <3>2 DEF MaybeSent
    <2>2. RowOK(outbox[r])
      BY DEF OInv, RowsOK
    <2> QED
      BY <2>1, <2>2 DEF RowOK, Row, Phase
  <1> QED
    BY <1>1, OInvariant, PTL

\* What a person said, and the result of a review, is never dropped by a pause.
THEOREM HumanOutputSurvives == OSpec => []HumanOutputSurvivesPause
  <1>1. OInv => HumanOutputSurvivesPause
    BY DEF OInv, RowsOK, RowOK, HumanOutputSurvivesPause
  <1> QED
    BY <1>1, OInvariant, PTL

\* A row is SENT by the claim that delivered it, and no claim delivers twice.
THEOREM DeliversOnce == OSpec => []ClaimDeliversOnce
  <1>1. OInv => ClaimDeliversOnce
    BY DEF OInv, JobsOK, JobOK, Unsent, ClaimDeliversOnce, NoSecondDeliveryInClaim
  <1> QED
    BY <1>1, OInvariant, PTL

\* A catalog document reaches the provider only behind a text that was SENT.
THEOREM DocumentsFollow == OSpec => []DocumentFollowsText
  <1>1. OInv => DocumentFollowsText
    <2> SUFFICES ASSUME OInv, NEW r \in Rows, outbox[r].after # 0, MaybeSent(r)
                 PROVE  outbox[outbox[r].after].status = "SENT"
      BY DEF DocumentFollowsText
    <2>1. outbox[r].claims \in Nat
      BY OutboxAssumption DEF OInv, OTypeOK, Row, Tokens
    <2>2. \E t \in Tokens : Drawn(outbox, r, t)
      <3>1. CASE InFlight(r) # {}
        BY <3>1 DEF InFlight, OInv, OTypeOK, Job, JobsOK, JobOK
      <3>2. CASE \E t \in Tokens : <<r, t>> \in delivered
        BY <3>2 DEF OInv, LogOK
      <3> QED
        BY <3>1, <3>2 DEF MaybeSent
    <2>3. outbox[r].claims # 0
      BY <2>1, <2>2, OutboxAssumption DEF Drawn, Tokens
    <2> QED
      BY <2>3 DEF OInv, TextsFirst
  <1> QED
    BY <1>1, OInvariant, PTL

(***************************************************************************)
(* What a step may never do                                                *)
(***************************************************************************)

\* A call begins only with an admission, which judges the row as it is then.
LEMMA OnlyAdmissionCalls ==
    ASSUME OInv, [ONext]_vars, NEW w \in Workers, job'[w].pc = "send",
           ~(job[w].pc = "send" /\ job[w].row = job'[w].row)
    PROVE  Eligible(outbox[job'[w].row])
  <1>0. job \in [Workers -> Job]
    BY DEF OInv, OTypeOK
  <1>1. CASE UNCHANGED job
    BY <1>1
  <1>2. ASSUME NEW v \in Workers, v # w, NEW j, job' = [job EXCEPT ![v] = j] PROVE FALSE
    BY <1>0, <1>2
  <1>3. ASSUME NEW j, job' = [job EXCEPT ![w] = j], j.pc # "send" PROVE FALSE
    BY <1>0, <1>3
  <1>4. ASSUME NEW v \in Workers, Finish(v) \/ Crash(v) PROVE FALSE
    <2>1. IdleJob.pc # "send" /\ job' = [job EXCEPT ![v] = IdleJob]
      BY <1>4 DEF Finish, Crash, IdleJob
    <2> QED
      BY <1>2, <1>3, <2>1
  <1>5. ASSUME NEW v \in Workers, NEW pc \in Steps \ {"send"}, Goto(v, pc) PROVE FALSE
    <2>1. PICK j \in Job : j.pc = pc /\ job' = [job EXCEPT ![v] = j]
      BY <1>5, GotoWrites
    <2> QED
      BY <1>2, <1>3, <2>1
  <1>6. ASSUME NEW v \in Workers, NEW k \in batch[v], StartItem(v, k) PROVE FALSE
    <2>1. PICK j : /\ j = [pc |-> IF outbox[k.row].kind = "TEXT" THEN "admit" ELSE "check",
                           row |-> k.row, token |-> k.token, retry |-> FALSE]
                   /\ job' = [job EXCEPT ![v] = j]
      BY <1>6 DEF StartItem
    <2>2. j.pc # "send"
      BY <2>1
    <2> QED
      BY <1>2, <1>3, <2>1, <2>2
  <1>7. ASSUME NEW v \in Workers, RejectMedia(v) PROVE FALSE
    <2>1. CASE Finish(v)
      BY <1>4, <2>1
    <2>2. CASE job' = [job EXCEPT ![v].pc = "check", ![v].retry = TRUE]
      <3>1. job'[w].pc = "check" \/ job'[w] = job[w]
        BY <1>0, <2>2 DEF Job
      <3> QED
        BY <3>1
    <2> QED
      BY <1>7, <2>1, <2>2 DEF RejectMedia
  <1>8. ASSUME NEW v \in Workers, Admit(v) PROVE Eligible(outbox[job'[w].row])
    <2>1. PICK j \in Job : j.row = job[v].row /\ job' = [job EXCEPT ![v] = j]
      BY <1>8, GotoWrites DEF Admit, Steps
    <2>2. v = w
      BY <1>2, <2>1
    <2>3. job'[w].row = job[w].row
      BY <1>0, <2>1, <2>2
    <2> QED
      BY <1>8, <2>2, <2>3 DEF Admit
  <1>9. ASSUME NEW v \in Workers, Process(v) PROVE Eligible(outbox[job'[w].row])
    <2>1. CASE Discard(v) \/ Stop(v) \/ SettleSuccess(v) \/ SettleFailure(v) \/ SettleRaises(v)
      BY <1>4, <2>1 DEF Discard, Stop, SettleSuccess, SettleFailure, SettleRaises
    <2>2. CASE \/ Check(v) \/ PreparationFails(v) \/ Resolve(v) \/ SendAccepted(v)
               \/ SendRejected(v) \/ SendInvalidMedia(v)
      BY <1>5, <2>2 DEF Check, PreparationFails, Resolve, SendAccepted, SendRejected,
                        SendInvalidMedia, Steps
    <2> QED
      BY <1>6, <1>7, <1>8, <1>9, <2>1, <2>2 DEF Process
  <1>10. ASSUME Produce PROVE UNCHANGED job
    <2>1. PICK c \in Conversations, r \in Rows :
            \/ EnqueueTemplate(c, r) \/ EnqueueCatalog(c, r)
            \/ EnqueueTextThenCatalog(c, r)
            \/ \E i \in CaseIds :
                  \/ HandoffWithNotice(c, i, r) \/ HandoffWithQuestion(c, i, r)
                  \/ CatalogHandoffWithNotice(c, i, r)
                  \/ \E e \in Evidence : EvidenceWithNotice(c, e, i, r)
                  \/ \E a \in Agents : CreateAgentMessage(a, c, i, r)
            \/ \E e \in Evidence : EvidenceWithAck(c, e, r)
      BY <1>10 DEF Produce
    <2> QED
      BY <2>1 DEF EnqueueTemplate, EnqueueCatalog, EnqueueTextThenCatalog, HandoffWithNotice,
                  HandoffWithQuestion, CatalogHandoffWithNotice, EvidenceWithNotice,
                  CreateAgentMessage, EvidenceWithAck, Insert
  <1>11. CASE ProducePayment
    BY <1>1, <1>11 DEF ProducePayment, DecisionWithResult, ConflictWithNotice, Insert
  <1>12. CASE Background
    BY <1>1, <1>12 DEF Background, TemplateUnavailable, EvidenceWithoutAck, NotifyDeferred, ovars
  <1>13. CASE ClaimSome
    BY <1>1, <1>13 DEF ClaimSome, ClaimBatch
  <1>14. ASSUME NEW r \in Rows, Recover(r) PROVE UNCHANGED job
    BY <1>14 DEF Recover
  <1> QED
    BY <1>1, <1>4, <1>9, <1>10, <1>11, <1>12, <1>13, <1>14 DEF ONext, vars, ovars

\* Revoked output is not eligible.
LEMMA RevokedNotEligible ==
    ASSUME OInv, NEW r \in Rows, Revoked(r) PROVE ~Eligible(outbox[r])
  BY DEF Revoked, Eligible, HumanEligible, ResultEligible, AckRowEligible, AckEligible,
         NoticeEligible, AutoEligible

\* A revoked row stays revoked.
LEMMA RevokedStays ==
    ASSUME OInv, [ONext]_vars, NEW r \in Rows, Revoked(r) PROVE Revoked(r)'
  <1>1. PICK row : row = outbox[r]
    OBVIOUS
  <1>2. PICK new : new = outbox'[r]
    OBVIOUS
  <1>3. row.status # "ABSENT" /\ row \in Row /\ RowFits(row, conv, handoffs, evidence) /\ HTypeOK
    BY <1>1 DEF Revoked, OInv, OTypeOK, RowsFit
  <1>4. RowAges(row, new)
    BY <1>1, <1>2, OInvNext DEF TableAges
  <1>5. [HNext]_hvars
    BY ConversationStep
  <1>6. /\ new.status # "ABSENT" /\ new.conv = row.conv /\ new.epoch = row.epoch
        /\ new.case = row.case
        /\ new.origin = row.origin \/ row.origin = "NONE"
    BY <1>3, <1>4 DEF RowAges
  <1>7. CASE row.origin \in {"AUTO", "HANDOFF_NOTICE"}
    <2>1. row.conv \in Conversations /\ row.epoch \in Nat
      BY <1>3 DEF Row
    <2>2. row.epoch # conv[row.conv].epoch /\ row.epoch <= conv[row.conv].epoch
      BY <1>1, <1>3, <1>7 DEF Revoked, RowFits
    <2>3. /\ conv[row.conv].epoch \in Nat /\ conv'[row.conv].epoch \in Nat
          /\ conv[row.conv].epoch <= conv'[row.conv].epoch
      BY <1>3, <1>5, <2>1, EpochsGrow
    <2>4. row.epoch # conv'[row.conv].epoch
      BY <2>1, <2>2, <2>3
    <2>5. new.origin = row.origin
      BY <1>6, <1>7
    <2> QED
      BY <1>2, <1>6, <1>7, <2>4, <2>5 DEF Revoked
  <1>8. CASE row.origin = "PAYMENT_EVIDENCE_ACK"
    <2>1. row.case \in CaseIds /\ handoffs[row.case].status \notin {"NONE", "PENDING"}
      BY <1>1, <1>3, <1>8 DEF Revoked, RowFits
    <2>2. handoffs'[row.case].status # "PENDING"
      BY <1>3, <1>5, <2>1, CasesAgeStep DEF CasesAge
    <2> QED
      BY <1>2, <1>6, <1>8, <2>2 DEF Revoked
  <1> QED
    BY <1>1, <1>7, <1>8 DEF Revoked

\* Once a pause, a take or a reset has committed, no new call is made for what it revoked,
\* no later step makes it deliverable again, and a settled row is never written: for any
\* number of agents, workers and attempts, and in any order of their steps.
THEOREM RevocationFinal == OSpec => RevocationIsFinal
  <1>1. OInv /\ [ONext]_vars =>
          [\A r \in Rows : Revoked(r) => InFlight(r)' \subseteq InFlight(r)]_vars
    <2> SUFFICES ASSUME OInv, [ONext]_vars, NEW r \in Rows, Revoked(r), NEW w \in Workers,
                        w \in InFlight(r)', w \notin InFlight(r)
                 PROVE  FALSE
      BY DEF InFlight
    <2>1. job'[w].pc = "send" /\ job'[w].row = r /\ ~(job[w].pc = "send" /\ job[w].row = r)
      BY DEF InFlight
    <2>2. Eligible(outbox[r])
      BY <2>1, OnlyAdmissionCalls
    <2> QED
      BY <2>2, RevokedNotEligible
  <1>2. OInv /\ [ONext]_vars => [\A r \in Rows : Revoked(r) => Revoked(r)']_vars
    BY RevokedStays
  <1>3. OInv /\ [ONext]_vars =>
          [\A r \in Rows : outbox[r].status \in Terminal => outbox'[r] = outbox[r]]_vars
    BY OInvNext DEF TableAges, RowAges
  <1> QED
    BY <1>1, <1>2, <1>3, OInvariant, PTL
       DEF OSpec, RevocationIsFinal, NoCallAfterRevocation, RevokedForEver, TerminalIsFinal
=============================================================================
